---------------------------- MODULE EngineProofs ----------------------------
(***************************************************************************)
(* Engine's safety for every number of events, every grouping of them into *)
(* transactions, every batch size, channel capacity, retry limit and       *)
(* breaker threshold, and any number and mix of faults.                    *)
(***************************************************************************)
EXTENDS Engine, SequenceTheorems, TLAPS

-----------------------------------------------------------------------------
(* Facts about the operators the model is built from.                      *)

\* The slice that Publish takes at done is not empty, stays within the batch
\* and holds the batch's events from done + 1 on.
LEMMA ChunkFacts ==
    ASSUME NEW b \in Seq(ChangeEvent), NEW d \in 0..Len(b), d < Len(b)
    PROVE  /\ Chunk(b, d) \in Seq(ChangeEvent)
           /\ Len(Chunk(b, d)) \in 1..(Len(b) - d)
           /\ \A i \in 1..Len(Chunk(b, d)) : Chunk(b, d)[i] = b[d + i]
<1> DEFINE m == IF d + PublishBatch > Len(b) THEN Len(b) ELSE d + PublishBatch
<1>1. m \in (d + 1)..Len(b)
    BY LenProperties, PublisherAssumption
<1>2. Chunk(b, d) = SubSeq(b, d + 1, m)
    BY DEF Chunk
<1>3. \A i \in (d + 1)..m : b[i] \in ChangeEvent
    BY <1>1, ElementOfSeq
<1> HIDE DEF m
<1> QED
    BY <1>1, <1>2, <1>3, SubSeqProperties

\* The events of a run of consecutive events are an interval.
LEMMA IdsOfConsecutive ==
    ASSUME NEW s \in Seq(ChangeEvent), NEW b \in Int, Consecutive(s, b)
    PROVE  Ids(s) = b..(b + Len(s) - 1)
<1>1. DOMAIN s = 1..Len(s) /\ Len(s) \in Nat
    BY LenProperties
<1>2. ASSUME NEW e \in b..(b + Len(s) - 1) PROVE e \in Ids(s)
    <2>1. e - b + 1 \in 1..Len(s) /\ b + (e - b + 1) - 1 = e
        BY <1>1
    <2>2. s[e - b + 1].id = e
        BY <2>1 DEF Consecutive
    <2> QED
        BY <1>1, <2>1, <2>2 DEF Ids
<1>3. ASSUME NEW i \in 1..Len(s) PROVE s[i].id \in b..(b + Len(s) - 1)
    <2>1. s[i].id = b + i - 1
        BY DEF Consecutive
    <2> QED
        BY <1>1, <2>1
<1> QED
    BY <1>1, <1>2, <1>3 DEF Ids

\* Requeueing: what batch \o buffer holds.
LEMMA ConcatFacts ==
    ASSUME NEW s \in Seq(ChangeEvent), NEW t \in Seq(ChangeEvent)
    PROVE  /\ s \o t \in Seq(ChangeEvent)
           /\ Len(s \o t) = Len(s) + Len(t)
           /\ \A i \in 1..Len(s) : (s \o t)[i] = s[i]
           /\ \A i \in 1..Len(t) : (s \o t)[Len(s) + i] = t[i]
BY ConcatProperties

\* The engine's maxLSN is the LSN of one of the events of the batch.
LEMMA MaxLSNIsAnLSN ==
    ASSUME NEW s \in Seq(ChangeEvent), s # <<>>, NEW b \in Int,
           b >= 1, b + Len(s) - 1 <= NEvents, Consecutive(s, b)
    PROVE  \E i \in 1..Len(s) : MaxLSN(s) = Lsn[b + i - 1]
<1>1. DOMAIN s = 1..Len(s) /\ Len(s) \in Nat /\ Len(s) # 0
    BY LenProperties, EmptySeq
<1>2. ASSUME NEW i \in 1..Len(s)
      PROVE  s[i].LSN = Lsn[b + i - 1] /\ s[i].LSN <= s[Len(s)].LSN
    <2>1. /\ Len(s) \in 1..Len(s)
          /\ b + i - 1 \in 1..NEvents /\ b + Len(s) - 1 \in 1..NEvents
          /\ b + i - 1 <= b + Len(s) - 1
        BY <1>1, EventsAssumption
    <2>2. Lsn[b + i - 1] <= Lsn[b + Len(s) - 1]
        BY <2>1, EventsAssumption
    <2> QED
        BY <2>1, <2>2 DEF Consecutive
<1>3. \E m \in {s[i].LSN : i \in DOMAIN s} : \A i \in DOMAIN s : s[i].LSN <= m
    <2>1. s[Len(s)].LSN \in {s[i].LSN : i \in DOMAIN s}
        BY <1>1
    <2> QED
        BY <1>1, <1>2, <2>1
<1>4. MaxLSN(s) \in {s[i].LSN : i \in DOMAIN s}
    BY <1>3 DEF MaxLSN
<1> QED
    BY <1>1, <1>2, <1>4

-----------------------------------------------------------------------------
(* Types.                                                                  *)

Flags ==
    /\ cancelled \in BOOLEAN /\ cloudUp \in BOOLEAN /\ cooled \in BOOLEAN
    /\ stopping \in BOOLEAN /\ sig \in BOOLEAN /\ shutdownErr \in BOOLEAN

\* The Boolean variables keep their type, whatever the step.
LEMMA FlagTypes == Flags /\ [Next]_vars => Flags'
<1> SUFFICES ASSUME Flags, [Next]_vars PROVE Flags'
    OBVIOUS
<1>1. ASSUME NEW how, End(how), sig' \in BOOLEAN PROVE Flags'
    BY <1>1, Zenon DEF Flags, End
<1>2. ASSUME NEW err \in BOOLEAN, FlushReturns(err),
             UNCHANGED <<cancelled, cloudUp>>, cooled' \in BOOLEAN
      PROVE  Flags'
    BY <1>2, Zenon DEF Flags, FlushReturns
<1>3. ASSUME Allow \/ RecordSuccess \/ RecordFailure PROVE cooled' \in BOOLEAN
    BY <1>3, Zenon DEF Flags, Allow, RecordSuccess, RecordFailure
<1>4. CASE Startup \/ LoadFails \/ SubscribeFails
    BY <1>1, <1>4, Zenon
    DEF Flags, Startup, Start, RunConnect, RunSubscribe, RunAborted, LoadFails,
        SubscribeFails, Connect, Subscribe, subscriberVars, publisherVars,
        breakerVars
<1>5. CASE Consume \/ Tick \/ LoopShutdown
    BY <1>5, Zenon
    DEF Flags, Consume, Tick, LoopShutdown, subscriberVars, publisherVars,
        breakerVars
<1>6. CASE FlushEmpty \/ FlushDenied \/ FlushSave
    BY <1>2, <1>6, Zenon
    DEF Flags, FlushEmpty, FlushDenied, FlushSave, subscriberVars,
        publisherVars, breakerVars
<1>7. CASE FlushBegin \/ PublishChunk \/ FlushAck
    BY <1>3, <1>7
    DEF Flags, FlushBegin, PublishChunk, CommitChunk, FlushAck, subscriberVars,
        publisherVars, breakerVars
<1>8. CASE PublishFails \/ CommitUnknown
    BY <1>2, <1>3, <1>8
    DEF Flags, PublishFails, CommitUnknown, PublishError, ChunkFails,
        CommitChunk, subscriberVars, publisherVars, breakerVars
<1>9. CASE Shutdown \/ ShutdownTimeout
    BY <1>1, <1>9, Zenon
    DEF Flags, Shutdown, FinalSave, CloseSubscriber, RunReturns,
        ShutdownTimeout, Close, subscriberVars, publisherVars, breakerVars
<1>10. CASE Signal \/ Crash \/ Panic
    BY <1>1, <1>10, Zenon
    DEF Flags, Signal, Crash, Panic, publisherVars, breakerVars
<1>11. CASE StreamStep
    BY <1>11, Zenon
    DEF Flags, StreamStep, ConsumeStream, ReceiveCall, RecvKeepalive, RecvData,
        RecvBegin, RecvChange, Emit, EmitDropped, RecvCommit, CommitAck,
        StreamExit, publisherVars, breakerVars, engineVars
<1>12. CASE LinkBreaks \/ CloudDown \/ CloudRecovers \/ IntervalPasses
    BY <1>12, Zenon
    DEF Flags, LinkBreaks, CloudDown, CloudRecovers, IntervalPasses,
        BreakerCools, subscriberVars, publisherVars, breakerVars, engineVars
<1>13. CASE UNCHANGED vars
    BY <1>13, Zenon
    DEF Flags, vars, subscriberVars, publisherVars, breakerVars, engineVars
<1> QED
    BY <1>4, <1>5, <1>6, <1>7, <1>8, <1>9, <1>10, <1>11, <1>12, <1>13, Zenon
    DEF Next, Flush

\* The process starts from nothing: no event sent, none applied.
LEMMA InitTypes == Init => TypeOK
<1> SUFFICES ASSUME Init PROVE TypeOK
    OBVIOUS
<1> USE DEF Init, NewSubscriber, PublisherInit, NewCircuitBreaker
<1>1. /\ <<>> \in Seq(ChangeEvent) /\ Len(<<>>) = 0
    BY EmptySeq
<1>2. Flags
    BY Zenon DEF Flags
<1>3. SubscriberTypeOK
    BY <1>1, <1>2, EventsAssumption, SubscriberAssumption
    DEF SubscriberTypeOK, Flags
<1>4. PublisherTypeOK
    BY <1>2 DEF PublisherTypeOK, Flags
<1>5. BreakerTypeOK
    BY <1>2, ThresholdAssumption DEF BreakerTypeOK, Flags
<1>6. EngineTypeOK
    BY <1>1, <1>2, EngineAssumption DEF EngineTypeOK, Flags
<1> QED
    BY <1>3, <1>4, <1>5, <1>6 DEF TypeOK

\* The breaker's methods, as the engine calls them, keep the breaker's types.
LEMMA BreakerTypes == BreakerTypeOK /\ Flags /\ [Next]_vars => BreakerTypeOK'
<1> DEFINE Goal == /\ circuit' \in {"closed", "open", "half-open"}
                   /\ consecutiveFailures' \in 0..FailureThreshold
<1> SUFFICES ASSUME BreakerTypeOK, Flags, [Next]_vars PROVE Goal
    BY FlagTypes DEF BreakerTypeOK, Flags
<1>1. ASSUME UNCHANGED breakerVars PROVE Goal
    BY <1>1 DEF BreakerTypeOK, breakerVars
<1>2. ASSUME NEW how, End(how) PROVE Goal
    <2>1. circuit' = "closed" /\ consecutiveFailures' = 0
        BY <1>2 DEF End
    <2> QED
        BY <2>1, ThresholdAssumption
<1>3. ASSUME Allow \/ RecordSuccess \/ BreakerCools PROVE Goal
    <2>1. /\ circuit' = circuit \/ circuit' \in {"closed", "half-open"}
          /\ consecutiveFailures' = consecutiveFailures \/ consecutiveFailures' = 0
        BY <1>3, Zenon DEF Allow, RecordSuccess, BreakerCools
    <2> QED
        BY <2>1, ThresholdAssumption DEF BreakerTypeOK
<1>4. ASSUME RecordFailure PROVE Goal
    <2>1. /\ circuit' = "open" \/ circuit' = circuit
          /\ consecutiveFailures' = IF consecutiveFailures < FailureThreshold
                                    THEN consecutiveFailures + 1
                                    ELSE FailureThreshold
        BY <1>4, Zenon DEF RecordFailure
    <2> QED
        BY <2>1, ThresholdAssumption DEF BreakerTypeOK
<1> HIDE DEF Goal
<1>5. CASE Startup \/ LoadFails \/ SubscribeFails \/ Consume \/ Tick \/ LoopShutdown
    BY <1>5, <1>1, <1>2, Zenon
    DEF Startup, Start, RunConnect, RunSubscribe, RunAborted, LoadFails,
        SubscribeFails, Consume, Tick, LoopShutdown, breakerVars
<1>6. CASE Flush \/ CommitUnknown
    BY <1>6, <1>1, <1>3, <1>4
    DEF Flush, FlushEmpty, FlushDenied, FlushBegin, PublishChunk, PublishFails,
        CommitUnknown, PublishError, FlushAck, FlushSave
<1>7. CASE Shutdown \/ ShutdownTimeout \/ Crash \/ Panic \/ Signal
    BY <1>7, <1>1, <1>2
    DEF Shutdown, FinalSave, CloseSubscriber, RunReturns, ShutdownTimeout,
        Crash, Panic, Signal
<1>8. CASE StreamStep \/ LinkBreaks \/ CloudDown \/ CloudRecovers \/ IntervalPasses
    BY <1>8, <1>1, <1>3
    DEF StreamStep, LinkBreaks, CloudDown, CloudRecovers, IntervalPasses
<1>9. CASE UNCHANGED vars
    BY <1>9, <1>1 DEF vars
<1> QED
    BY <1>5, <1>6, <1>7, <1>8, <1>9 DEF Next

\* The cloud only ever receives events.
LEMMA PublisherTypes == IInv /\ [Next]_vars => PublisherTypeOK'
<1> SUFFICES ASSUME IInv, [Next]_vars PROVE PublisherTypeOK'
    OBVIOUS
<1>1. PublisherTypeOK /\ batch \in Seq(ChangeEvent) /\ done \in 0..Len(batch)
      /\ (pc = "publish" => done < Len(batch))
    BY DEF IInv, TypeOK, EngineTypeOK, Stages
<1>2. ASSUME cloud' = cloud, cloudUp' \in BOOLEAN PROVE PublisherTypeOK'
    BY <1>1, <1>2 DEF PublisherTypeOK
<1>3. ASSUME NEW how, End(how) PROVE PublisherTypeOK'
    BY <1>1, <1>3 DEF End, PublisherTypeOK
<1>4. ASSUME pc = "publish", CommitChunk(Chunk(batch, done))
      PROVE  PublisherTypeOK'
    <2> DEFINE c == Chunk(batch, done)
    <2>1. c \in Seq(ChangeEvent)
        BY <1>1, <1>4, ChunkFacts
    <2> HIDE DEF c
    <2>2. Ids(c) \subseteq Event
        <3>1. DOMAIN c = 1..Len(c) /\ \A i \in 1..Len(c) : c[i] \in ChangeEvent
            BY <2>1, ElementOfSeq, LenProperties
        <3>2. \A i \in DOMAIN c : c[i].id \in Event
            BY <3>1 DEF ChangeEvent
        <3> QED
            BY <3>2, Zenon DEF Ids
    <2>3. cloud' = cloud \cup Ids(c) /\ cloudUp' = cloudUp
        BY <1>4 DEF CommitChunk, c
    <2> QED
        BY <1>1, <2>2, <2>3 DEF PublisherTypeOK
<1>5. CASE Startup \/ LoadFails \/ SubscribeFails \/ Consume \/ Tick \/ LoopShutdown
    BY <1>1, <1>5, <1>3
    DEF Startup, Start, RunConnect, RunSubscribe, RunAborted, LoadFails,
        SubscribeFails, Consume, Tick, LoopShutdown, publisherVars,
        PublisherTypeOK
<1>6. CASE Flush \/ CommitUnknown
    BY <1>1, <1>6, <1>4
    DEF Flush, FlushEmpty, FlushDenied, FlushBegin, PublishChunk, PublishFails,
        CommitUnknown, ChunkFails, FlushAck, FlushSave, publisherVars,
        PublisherTypeOK
<1>7. CASE Shutdown \/ ShutdownTimeout \/ Crash \/ Panic \/ Signal
    BY <1>1, <1>7, <1>3
    DEF Shutdown, FinalSave, CloseSubscriber, RunReturns, ShutdownTimeout,
        Crash, Panic, Signal, publisherVars, PublisherTypeOK
<1>8. CASE StreamStep \/ LinkBreaks \/ CloudDown \/ CloudRecovers \/ IntervalPasses
    BY <1>1, <1>8, <1>2
    DEF StreamStep, LinkBreaks, CloudDown, CloudRecovers, IntervalPasses,
        publisherVars, PublisherTypeOK
<1>9. CASE UNCHANGED vars
    BY <1>1, <1>9 DEF vars, publisherVars, PublisherTypeOK
<1> QED
    BY <1>5, <1>6, <1>7, <1>8, <1>9 DEF Next

-----------------------------------------------------------------------------
(* The inductive invariant.                                                *)

\* What is left of IInv once flags, breaker and cloud have their types.
Core == /\ SubscriberTypeOK /\ EngineTypeOK /\ Stages /\ Window /\ SlotPosition
        /\ NoHoleInSession /\ PositionCovered

\* What makes up the pipeline from the slot to the cloud.
Pipe == <<confirmed, start, next, serverTx, txLSN, out, buffer, batch, done,
          cloud>>

\* A step that leaves the pipeline alone keeps its invariants.
LEMMA QuietStep ==
    ASSUME IInv, UNCHANGED Pipe,
           \/ lastAckedLSN' = 0
           \/ lastAckedLSN' = lastAckedLSN /\ (replConn' = "open" => replConn = "open"),
           lastLSN' \in {lastLSN, disk, 0}, disk' \in {disk, lastLSN},
           stream' # "none" => stream # "none",
           pc' \in {"ack", "save"} => pc' = pc,
           stream' = "emit" =>
               stream = "emit" \/ (next <= NEvents /\ txLSN = Lsn[next])
    PROVE  Window' /\ SlotPosition' /\ NoHoleInSession' /\ PositionCovered'
<1>1. Window /\ SlotPosition /\ NoHoleInSession /\ PositionCovered /\ TypeOK
    BY DEF IInv
<1>2. Window'
    BY <1>1 DEF Window, Base, Consecutive, Pipe
<1>3. SlotPosition'
    BY <1>1 DEF SlotPosition, Pipe, TypeOK, SubscriberTypeOK
<1>4. NoHoleInSession'
    BY <1>1 DEF NoHoleInSession, Pipe
<1>5. PositionCovered'
    <2>1. \A e \in start..NEvents : ~(Lsn[e] < 0)
        BY <1>1, EventsAssumption DEF TypeOK, SubscriberTypeOK
    <2> QED
        BY <1>1, <2>1 DEF PositionCovered, Pipe
<1> QED
    BY <1>2, <1>3, <1>4, <1>5

\* The end of the process, however it comes about.
LEMMA EndStep ==
    ASSUME IInv, Flags', NEW how, End(how),
           how \in {"clean", "error", "timeout", "crash", "panic"},
           faults' \in 0..MaxFaults
    PROVE  Core'
<1>1. TypeOK /\ NoHoleInSession /\ PositionCovered /\ SlotPosition
    BY DEF IInv
<1>2. <<>> \in Seq(ChangeEvent) /\ Len(<<>>) = 0
    BY EmptySeq
<1>3. SubscriberTypeOK'
    BY <1>1, <1>2, SubscriberAssumption
    DEF End, Flags, TypeOK, SubscriberTypeOK
<1>4. EngineTypeOK'
    BY <1>1, <1>2, EngineAssumption DEF End, Flags, TypeOK, EngineTypeOK
<1>5. Stages'
    BY DEF End, Stages
<1>6. Window'
    BY <1>1, <1>2 DEF End, Window, Base, Consecutive, TypeOK, SubscriberTypeOK
<1>7. SlotPosition'
    BY <1>1, EventsAssumption DEF End, SlotPosition, TypeOK, SubscriberTypeOK
<1>8. NoHoleInSession'
    BY <1>1 DEF End, NoHoleInSession
<1>9. PositionCovered'
    BY <1>1, EventsAssumption
    DEF End, PositionCovered, TypeOK, SubscriberTypeOK
<1> QED
    BY <1>3, <1>4, <1>5, <1>6, <1>7, <1>8, <1>9 DEF Core

\* Run up to the loop.
LEMMA StartupStep ==
    ASSUME IInv, Flags', Start \/ LoadFails \/ RunConnect
    PROVE  Core'
<1>1. TypeOK /\ Stages
    BY DEF IInv
<1> USE DEF Start, LoadFails, RunConnect, Connect, Fault, subscriberVars,
            publisherVars
<1>2. SubscriberTypeOK'
    BY <1>1 DEF Flags, TypeOK, SubscriberTypeOK
<1>3. EngineTypeOK'
    BY <1>1, EngineAssumption DEF Flags, TypeOK, EngineTypeOK
<1>4. Stages'
    BY <1>1 DEF Stages
<1>5. Window' /\ SlotPosition' /\ NoHoleInSession' /\ PositionCovered'
    BY <1>1, QuietStep DEF Pipe, Stages
<1> QED
    BY <1>2, <1>3, <1>4, <1>5 DEF Core

\* A new stream resumes at or after the point where the last one did.
LEMMA SubscribeStep ==
    ASSUME IInv, Flags', RunSubscribe
    PROVE  Core' /\ start' \in start..(NEvents + 1)
<1>1. TypeOK /\ Stages /\ SlotPosition /\ NoHoleInSession /\ PositionCovered
    BY DEF IInv
<1>2. stream = "none" /\ lastAckedLSN = 0 /\ serverTx = 0 /\ txLSN = 0
      /\ out = <<>> /\ buffer = <<>> /\ batch = <<>> /\ done = 0
    BY <1>1 DEF RunSubscribe, Stages
<1>3. PICK k \in 1..NEvents + 1 : ResumesAt(k) /\ start' = k /\ next' = k
    BY DEF RunSubscribe, Subscribe
<1>4. k >= start
    <2>1. MaxOf(confirmed, lastAckedLSN) = confirmed
        BY <1>1, <1>2 DEF MaxOf, TypeOK, SubscriberTypeOK
    <2> QED
        BY <1>1, <1>3, <2>1, EventsAssumption
        DEF ResumesAt, SlotPosition, TypeOK, SubscriberTypeOK
<1>5. \A e \in 1..(k - 1) : Lsn[e] < confirmed
    BY <1>1, <1>2, <1>3 DEF ResumesAt, MaxOf, TypeOK, SubscriberTypeOK
<1> USE DEF RunSubscribe, Subscribe, publisherVars, subscriberVars
<1>6. SubscriberTypeOK'
    BY <1>1, <1>3, EventsAssumption DEF Flags, TypeOK, SubscriberTypeOK
<1>7. EngineTypeOK'
    BY <1>1 DEF Flags, TypeOK, EngineTypeOK
<1>8. Stages'
    BY <1>1 DEF Stages
<1>9. Window'
    BY <1>2, <1>3, EmptySeq DEF Window, Base, Consecutive
<1>10. SlotPosition'
    BY <1>1, <1>2, <1>3, <1>5, EventsAssumption
    DEF SlotPosition, TypeOK, SubscriberTypeOK
<1>11. NoHoleInSession' /\ PositionCovered'
    BY <1>1, <1>3, <1>4 DEF NoHoleInSession, PositionCovered, TypeOK,
        SubscriberTypeOK, PublisherTypeOK, Event
<1> QED
    BY <1>3, <1>4, <1>6, <1>7, <1>8, <1>9, <1>10, <1>11 DEF Core

\* The select loop: consuming moves the head of the channel to the end of the
\* buffer, which is where the window has it.
LEMMA LoopStep ==
    ASSUME IInv, Flags', Consume \/ Tick \/ LoopShutdown
    PROVE  Core'
<1>1. TypeOK /\ Stages /\ Window /\ SlotPosition /\ NoHoleInSession
      /\ PositionCovered
    BY DEF IInv
<1>2. CASE Tick \/ LoopShutdown
    <2> USE <1>2 DEF Tick, LoopShutdown, subscriberVars, publisherVars
    <2>1. SubscriberTypeOK'
        BY <1>1 DEF Flags, TypeOK, SubscriberTypeOK
    <2>2. EngineTypeOK'
        BY <1>1 DEF Flags, TypeOK, EngineTypeOK
    <2>3. Stages'
        BY <1>1 DEF Stages
    <2>4. Window' /\ SlotPosition' /\ NoHoleInSession' /\ PositionCovered'
        BY <1>1, QuietStep DEF Pipe
    <2> QED
        BY <2>1, <2>2, <2>3, <2>4 DEF Core
<1>3. CASE Consume
    <2>1. /\ out \in Seq(ChangeEvent) /\ buffer \in Seq(ChangeEvent)
          /\ batch \in Seq(ChangeEvent) /\ Len(batch) \in Nat
          /\ out # <<>> /\ batch = <<>> /\ pc = "loop" /\ done = 0
          /\ next \in Int /\ Len(out) <= ChanCap
        BY <1>1, <1>3, LenProperties
        DEF TypeOK, SubscriberTypeOK, EngineTypeOK, Stages, Consume
    <2>2. /\ buffer' = Append(buffer, Head(out)) /\ out' = Tail(out)
          /\ UNCHANGED <<confirmed, start, next, serverTx, lastAckedLSN, stream,
                         txLSN, batch, done, cloud, lastLSN, disk, replConn,
                         exit, attempt, faults>>
          /\ pc' \in {"flush", "loop"}
        BY <1>3 DEF Consume, publisherVars
    <2>3. /\ Len(out) \in Nat /\ Len(out) >= 1
          /\ Head(out) = out[1] /\ Head(out) \in ChangeEvent
          /\ Tail(out) \in Seq(ChangeEvent) /\ Len(Tail(out)) = Len(out) - 1
          /\ \A i \in 1..Len(Tail(out)) : Tail(out)[i] = out[i + 1]
        BY <2>1, HeadTailProperties, LenProperties, EmptySeq, ElementOfSeq
    <2>4. /\ Len(buffer) \in Nat /\ buffer' \in Seq(ChangeEvent)
          /\ Len(buffer') = Len(buffer) + 1
          /\ \A i \in 1..Len(buffer) : buffer'[i] = buffer[i]
          /\ buffer'[Len(buffer) + 1] = out[1]
        BY <2>1, <2>2, <2>3, AppendProperties, LenProperties
    <2>5. Base' = Base
        BY <2>1, <2>2, <2>3, <2>4 DEF Base
    <2>6. ASSUME NEW i \in 1..Len(buffer')
          PROVE  buffer'[i].id = Base + i - 1 /\ buffer'[i].LSN = Lsn[Base + i - 1]
        <3>1. CASE i <= Len(buffer)
            <4>1. i \in 1..Len(buffer) /\ Base + Len(batch) = Base
                BY <2>1, <2>3, <2>4, <3>1, EmptySeq DEF Base
            <4>2. /\ buffer[i].id = Base + Len(batch) + i - 1
                  /\ buffer[i].LSN = Lsn[Base + Len(batch) + i - 1]
                BY <1>1, <4>1 DEF Window, Consecutive
            <4> QED
                BY <2>4, <4>1, <4>2
        <3>2. CASE i = Len(buffer) + 1
            <4>1. 1 \in 1..Len(out) /\ Len(batch) = 0
                  /\ next - Len(out) + 1 - 1 = Base + i - 1
                BY <2>1, <2>3, <2>4, <3>2, EmptySeq DEF Base
            <4>2. /\ out[1].id = next - Len(out) + 1 - 1
                  /\ out[1].LSN = Lsn[next - Len(out) + 1 - 1]
                BY <1>1, <4>1 DEF Window, Consecutive
            <4> QED
                BY <2>4, <3>2, <4>1, <4>2
        <3> QED
            BY <2>4, <3>1, <3>2
    <2>7. ASSUME NEW i \in 1..Len(out')
          PROVE  /\ out'[i].id = next - Len(out') + i - 1
                 /\ out'[i].LSN = Lsn[next - Len(out') + i - 1]
        <3>1. /\ i + 1 \in 1..Len(out)
              /\ next - Len(out) + (i + 1) - 1 = next - Len(out') + i - 1
            BY <2>1, <2>2, <2>3
        <3>2. /\ out[i + 1].id = next - Len(out) + (i + 1) - 1
              /\ out[i + 1].LSN = Lsn[next - Len(out) + (i + 1) - 1]
            BY <1>1, <3>1 DEF Window, Consecutive
        <3> QED
            BY <2>2, <2>3, <3>1, <3>2
    <2>8. Window'
        <3>1. Base' + Len(batch') = Base
            BY <2>1, <2>2, <2>3, <2>4, <2>5, EmptySeq DEF Base
        <3>2. Consecutive(buffer, Base + Len(batch))' /\ Consecutive(out, next - Len(out))'
            BY <2>2, <2>6, <2>7, <3>1 DEF Consecutive
        <3>3. Consecutive(batch, Base)'
            BY <2>1, <2>2, EmptySeq DEF Consecutive
        <3> QED
            BY <1>1, <2>1, <2>2, <2>5, <3>2, <3>3 DEF Window
    <2>9. SubscriberTypeOK'
        <3>1. out' \in Seq(ChangeEvent) /\ Len(out') <= ChanCap
            BY <2>1, <2>2, <2>3, SubscriberAssumption
        <3> QED
            BY <1>1, <2>2, <3>1 DEF Flags, TypeOK, SubscriberTypeOK
    <2>10. EngineTypeOK'
        BY <1>1, <2>1, <2>2, <2>4 DEF Flags, TypeOK, EngineTypeOK
    <2>11. Stages'
        BY <1>1, <2>1, <2>2, <2>4 DEF Stages
    <2>12. SlotPosition' /\ NoHoleInSession' /\ PositionCovered'
        BY <1>1, <2>1, <2>2
        DEF SlotPosition, NoHoleInSession, PositionCovered
    <2> QED
        BY <2>8, <2>9, <2>10, <2>11, <2>12 DEF Core
<1> QED
    BY <1>2, <1>3

\* flush without a publish: nothing to flush, denied by the breaker; and the
\* steps of shutdownWork after flush.
LEMMA FlushReturnStep ==
    ASSUME IInv, Flags',
           FlushEmpty \/ FlushDenied \/ FinalSave \/ CloseSubscriber
    PROVE  Core'
<1>1. TypeOK /\ Stages
    BY DEF IInv
<1> USE DEF FlushEmpty, FlushDenied, FinalSave, CloseSubscriber, FlushReturns,
            Save, SaveFails, Fault, Close, subscriberVars, publisherVars
<1>2. SubscriberTypeOK'
    BY <1>1 DEF Flags, TypeOK, SubscriberTypeOK
<1>3. EngineTypeOK'
    BY <1>1, EngineAssumption DEF Flags, TypeOK, EngineTypeOK
<1>4. Stages'
    BY <1>1 DEF Stages
<1>5. Window' /\ SlotPosition' /\ NoHoleInSession' /\ PositionCovered'
    <2>1. /\ UNCHANGED Pipe /\ lastAckedLSN' = lastAckedLSN
          /\ lastLSN' = lastLSN /\ disk' \in {disk, lastLSN}
          /\ stream' = stream /\ pc' \notin {"ack", "save"}
        BY DEF Pipe
    <2> QED
        BY <2>1, QuietStep
<1> QED
    BY <1>2, <1>3, <1>4, <1>5 DEF Core

\* flush takes the whole buffer as its batch: the window stays as it was.
LEMMA FlushBeginStep ==
    ASSUME IInv, Flags', FlushBegin
    PROVE  Core'
<1>1. TypeOK /\ Stages /\ Window /\ SlotPosition /\ NoHoleInSession
      /\ PositionCovered
    BY DEF IInv
<1>2. /\ buffer \in Seq(ChangeEvent) /\ Len(buffer) \in Nat /\ Len(buffer) > 0
      /\ batch = <<>> /\ done = 0 /\ pc = "flush" /\ next \in Int
      /\ Len(out) \in Nat
    BY <1>1, LenProperties, EmptySeq
    DEF TypeOK, EngineTypeOK, SubscriberTypeOK, Stages, FlushBegin
<1>3. /\ batch' = buffer /\ buffer' = <<>> /\ pc' = "publish"
      /\ UNCHANGED <<confirmed, start, next, serverTx, replConn, lastAckedLSN,
                     stream, txLSN, out, cloud, done, attempt, lastLSN, disk,
                     exit, faults>>
    BY DEF FlushBegin, subscriberVars, publisherVars
<1>4. Base' = Base /\ Base + Len(batch) = Base
    BY <1>2, <1>3, EmptySeq DEF Base
<1>5. SubscriberTypeOK'
    BY <1>1, <1>3 DEF Flags, TypeOK, SubscriberTypeOK
<1>6. EngineTypeOK'
    BY <1>1, <1>2, <1>3, EmptySeq DEF Flags, TypeOK, EngineTypeOK
<1>7. Stages'
    BY <1>1, <1>2, <1>3, EmptySeq DEF Stages
<1>8. Window'
    <2>1. Consecutive(batch, Base)'
        BY <1>1, <1>3, <1>4 DEF Window, Consecutive
    <2>2. Consecutive(buffer, Base + Len(batch))'
        BY <1>3, EmptySeq DEF Consecutive
    <2>3. Consecutive(out, next - Len(out))'
        BY <1>1, <1>3 DEF Window, Consecutive
    <2> QED
        BY <1>1, <1>3, <1>4, <2>1, <2>2, <2>3 DEF Window
<1>9. SlotPosition' /\ NoHoleInSession' /\ PositionCovered'
    BY <1>1, <1>3 DEF SlotPosition, NoHoleInSession, PositionCovered
<1> QED
    BY <1>5, <1>6, <1>7, <1>8, <1>9 DEF Core

\* The window as the other lemmas use it: where it lies and how long it is.
LEMMA WindowBounds ==
    ASSUME IInv
    PROVE  /\ Len(out) \in Nat /\ Len(buffer) \in Nat /\ Len(batch) \in Nat
           /\ start \in 1..(NEvents + 1) /\ next \in start..(NEvents + 1)
           /\ Base \in start..next /\ done \in 0..Len(batch)
           /\ Base + Len(batch) + Len(buffer) + Len(out) = next
           /\ NEvents \in Nat
<1>1. /\ out \in Seq(ChangeEvent) /\ buffer \in Seq(ChangeEvent)
      /\ batch \in Seq(ChangeEvent) /\ start \in 1..(NEvents + 1)
      /\ next \in start..(NEvents + 1) /\ Base >= start
      /\ done \in 0..Len(batch)
    BY DEF IInv, TypeOK, SubscriberTypeOK, EngineTypeOK, Window
<1> QED
    BY <1>1, LenProperties, EventsAssumption DEF Base

\* A commit extends the applied prefix of the stream, up to the end of the
\* chunk: there is never a gap between what was applied and what is added.
LEMMA CommitExtendsPrefix ==
    ASSUME IInv, pc = "publish", CommitChunk(Chunk(batch, done))
    PROVE  LET k == Base + done + Len(Chunk(batch, done)) - 1 IN
           /\ Len(Chunk(batch, done)) \in 1..(Len(batch) - done)
           /\ k \in start..NEvents
           /\ cloud' = cloud \cup (start..k)
<1> DEFINE c == Chunk(batch, done)
           n == Len(c)
<1>1. batch \in Seq(ChangeEvent) /\ done \in 0..Len(batch) /\ done < Len(batch)
      /\ stream # "none"
    BY DEF IInv, TypeOK, EngineTypeOK, Stages
<1>2. /\ c \in Seq(ChangeEvent) /\ n \in 1..(Len(batch) - done)
      /\ \A i \in 1..n : c[i] = batch[done + i]
    BY <1>1, ChunkFacts
<1>3. /\ Len(batch) \in Nat /\ Len(buffer) \in Nat /\ Len(out) \in Nat
      /\ Base \in Int /\ start \in Int /\ Base >= start
      /\ Base + Len(batch) - 1 <= NEvents /\ NEvents \in Nat
    BY WindowBounds
<1>4. cloud' = cloud \cup Ids(c)
    BY DEF CommitChunk
<1> HIDE DEF c, n
<1>5. Consecutive(c, Base + done)
    <2> SUFFICES ASSUME NEW i \in 1..Len(c)
                 PROVE  /\ c[i].id = Base + done + i - 1
                        /\ c[i].LSN = Lsn[Base + done + i - 1]
        BY DEF Consecutive
    <2>1. done + i \in 1..Len(batch) /\ Base + (done + i) - 1 = Base + done + i - 1
        BY <1>1, <1>2, <1>3 DEF n
    <2>2. /\ batch[done + i].id = Base + (done + i) - 1
          /\ batch[done + i].LSN = Lsn[Base + (done + i) - 1]
        BY <2>1 DEF IInv, Window, Consecutive
    <2> QED
        BY <1>2, <2>1, <2>2 DEF n
<1>6. Ids(c) = (Base + done)..(Base + done + n - 1)
    BY <1>1, <1>2, <1>3, <1>5, IdsOfConsecutive DEF n
<1>7. start..(Base + done - 1) \subseteq cloud
    BY <1>1 DEF IInv, Window
<1>8. /\ n \in 1..(Len(batch) - done)
      /\ Base + done + n - 1 \in start..NEvents
      /\ cloud' = cloud \cup (start..(Base + done + n - 1))
    BY <1>1, <1>2, <1>3, <1>4, <1>6, <1>7
<1> QED
    BY <1>8 DEF n, c

\* Applying a prefix of the stream makes no hole.
LEMMA PrefixMakesNoHole ==
    ASSUME NoHoleInSession, NEW k \in Int, start \in Int, start' = start,
           cloud \subseteq Int, cloud' = cloud \cup (start..k)
    PROVE  NoHoleInSession'
<1> SUFFICES ASSUME NEW e \in cloud', NEW d \in start..(e - 1)
             PROVE  d \in cloud'
    BY DEF NoHoleInSession
<1>1. CASE e \in cloud
    BY <1>1 DEF NoHoleInSession
<1>2. CASE e \in start..k
    BY <1>2
<1> QED
    BY <1>1, <1>2

\* One committed transaction of Publish.
LEMMA PublishChunkStep ==
    ASSUME IInv, Flags', PublishChunk
    PROVE  Core'
<1> DEFINE n == Len(Chunk(batch, done))
           k == Base + done + n - 1
<1>1. TypeOK /\ Stages /\ Window /\ SlotPosition /\ NoHoleInSession
      /\ PositionCovered
    BY DEF IInv
<1>2. /\ pc = "publish" /\ CommitChunk(Chunk(batch, done))
      /\ \/ done + n < Len(batch) /\ done' = done + n /\ pc' = pc /\ attempt' = attempt
         \/ ~(done + n < Len(batch)) /\ done' = 0 /\ pc' = "ack" /\ attempt' = 0
      /\ UNCHANGED <<confirmed, start, next, serverTx, replConn, lastAckedLSN,
                     stream, txLSN, out, buffer, batch, lastLSN, disk, exit,
                     faults>>
    BY DEF PublishChunk, subscriberVars
<1>3. /\ n \in 1..(Len(batch) - done) /\ k \in start..NEvents
      /\ cloud' = cloud \cup (start..k)
    BY <1>2, CommitExtendsPrefix
<1>4. /\ Len(batch) \in Nat /\ batch \in Seq(ChangeEvent) /\ batch # <<>>
      /\ done \in 0..Len(batch) /\ done < Len(batch) /\ stream # "none"
      /\ start \in Nat /\ start >= 1 /\ Base \in Int /\ Base >= start
      /\ Base + Len(batch) - 1 <= NEvents /\ NEvents \in Nat
    BY <1>1, <1>2, WindowBounds DEF TypeOK, EngineTypeOK, Stages
<1>5. Base' = Base
    BY <1>2 DEF Base
<1>6. \/ pc' = "publish" /\ done' = done + n /\ done' \in 0..Len(batch)
         /\ done' < Len(batch) /\ k = Base + done' - 1
      \/ pc' = "ack" /\ done' = 0 /\ k = Base + Len(batch) - 1
    BY <1>2, <1>3, <1>4
<1> HIDE DEF n, k
<1>7. SubscriberTypeOK'
    BY <1>1, <1>2 DEF Flags, TypeOK, SubscriberTypeOK
<1>8. EngineTypeOK'
    <2>1. attempt' \in 0..(MaxAttempts - 1) /\ done' \in 0..Len(batch')
        BY <1>1, <1>2, <1>4, <1>6, EngineAssumption DEF TypeOK, EngineTypeOK
    <2> QED
        BY <1>1, <1>2, <1>6, <2>1 DEF Flags, TypeOK, EngineTypeOK
<1>9. Stages'
    BY <1>1, <1>2, <1>4, <1>6 DEF Stages
<1>10. Window'
    <2>1. Consecutive(batch, Base)' /\ Consecutive(buffer, Base + Len(batch))'
          /\ Consecutive(out, next - Len(out))'
        BY <1>1, <1>2, <1>5 DEF Window, Consecutive
    <2>2. start..(Base + done' - 1) \subseteq cloud'
        BY <1>3, <1>4, <1>6
    <2>3. pc' = "ack" => start..(Base + Len(batch) - 1) \subseteq cloud'
        BY <1>3, <1>6
    <2>4. pc' \in {"publish", "ack"}
        BY <1>6
    <2> QED
        BY <1>2, <1>4, <1>5, <2>1, <2>2, <2>3, <2>4 DEF Window
<1>11. SlotPosition'
    BY <1>1, <1>2 DEF SlotPosition
<1>12. NoHoleInSession'
    <2>1. cloud \subseteq Int
        BY <1>1 DEF TypeOK, PublisherTypeOK, Event
    <2> QED
        BY <1>1, <1>2, <1>3, <1>4, <2>1, PrefixMakesNoHole
<1>13. PositionCovered'
    <2> SUFFICES ASSUME NEW e \in start..NEvents
                 PROVE  /\ Lsn[e] < lastLSN => e \in cloud'
                        /\ Lsn[e] < disk => e \in cloud'
                        /\ pc' = "ack" /\ Lsn[e] < MaxLSN(batch) => e \in cloud'
        BY <1>2 DEF PositionCovered
    <2>1. (Lsn[e] < lastLSN \/ Lsn[e] < disk) => e \in cloud'
        BY <1>1, <1>3 DEF PositionCovered
    <2>2. ASSUME pc' = "ack", Lsn[e] < MaxLSN(batch) PROVE e \in cloud'
        <3>1. Consecutive(batch, Base)
            BY <1>1 DEF Window
        <3>2. PICK i \in 1..Len(batch) : MaxLSN(batch) = Lsn[Base + i - 1]
            BY <1>4, <3>1, MaxLSNIsAnLSN
        <3>3. Base + i - 1 \in 1..NEvents /\ e \in 1..NEvents
            BY <1>4
        <3>4. Lsn[e] \in Nat /\ Lsn[Base + i - 1] \in Nat
              /\ (Base + i - 1 <= e => Lsn[Base + i - 1] <= Lsn[e])
            BY <3>3, EventsAssumption
        <3>5. e < Base + i - 1
            BY <2>2, <3>2, <3>3, <3>4
        <3> QED
            BY <1>3, <1>4, <1>6, <2>2, <3>5
    <2> QED
        BY <2>1, <2>2
<1> QED
    BY <1>7, <1>8, <1>9, <1>10, <1>11, <1>12, <1>13 DEF Core

\* A failed Publish: another attempt, or the batch back in front of the buffer.
LEMMA PublishErrorStep ==
    ASSUME IInv, Flags', pc = "publish", PublishError, NoHoleInSession',
           cloud \subseteq cloud', faults' \in 0..MaxFaults
    PROVE  Core'
<1>1. TypeOK /\ Stages /\ Window /\ SlotPosition /\ PositionCovered
    BY DEF IInv
<1>2. /\ done' = 0
      /\ \/ /\ attempt + 1 < MaxAttempts /\ attempt' = attempt + 1
            /\ UNCHANGED <<pc, buffer, batch, exit>>
         \/ /\ attempt' = 0 /\ buffer' = batch \o buffer /\ batch' = <<>>
            /\ pc' \in {"final", "loop"} /\ exit' = exit
      /\ UNCHANGED <<confirmed, start, next, serverTx, replConn, lastAckedLSN,
                     stream, txLSN, out, lastLSN, disk>>
    BY DEF PublishError, FlushReturns, subscriberVars
<1>3. /\ batch \in Seq(ChangeEvent) /\ buffer \in Seq(ChangeEvent)
      /\ batch # <<>> /\ stream # "none" /\ attempt \in 0..(MaxAttempts - 1)
    BY <1>1 DEF TypeOK, EngineTypeOK, Stages
<1>4. /\ Len(out) \in Nat /\ Len(buffer) \in Nat /\ Len(batch) \in Nat
      /\ Len(batch) > 0 /\ next \in Int /\ Base \in Int /\ start \in Int
      /\ Base >= start /\ done \in Nat
    BY <1>3, WindowBounds, EmptySeq
<1>5. /\ Consecutive(batch, Base) /\ Consecutive(buffer, Base + Len(batch))
      /\ Consecutive(out, next - Len(out))
      /\ start..(Base + done - 1) \subseteq cloud
    BY <1>1, <1>3 DEF Window
<1>6. start..(Base - 1) \subseteq cloud'
    BY <1>4, <1>5
<1>7. SubscriberTypeOK'
    BY <1>1, <1>2 DEF Flags, TypeOK, SubscriberTypeOK
<1>8. SlotPosition'
    BY <1>1, <1>2 DEF SlotPosition
<1>9. PositionCovered'
    <2>1. pc' # "ack"
        BY <1>2
    <2> QED
        BY <1>1, <1>2, <2>1 DEF PositionCovered
<1>10. CASE attempt + 1 < MaxAttempts /\ attempt' = attempt + 1
            /\ UNCHANGED <<pc, buffer, batch, exit>>
    <2>1. attempt' \in 0..(MaxAttempts - 1) /\ done' \in 0..Len(batch')
        BY <1>2, <1>3, <1>4, <1>10, EngineAssumption
    <2>2. EngineTypeOK'
        BY <1>1, <1>2, <1>10, <2>1 DEF Flags, TypeOK, EngineTypeOK
    <2>3. Stages'
        BY <1>1, <1>2, <1>4, <1>10 DEF Stages
    <2>4. Window'
        <3>1. Base' = Base
            BY <1>2, <1>10 DEF Base
        <3>2. /\ Consecutive(batch, Base)'
              /\ Consecutive(buffer, Base + Len(batch))'
              /\ Consecutive(out, next - Len(out))'
            BY <1>2, <1>5, <1>10, <3>1 DEF Consecutive
        <3>3. start'..(Base' + done' - 1) \subseteq cloud'
            BY <1>2, <1>4, <1>6, <3>1
        <3> QED
            BY <1>2, <1>4, <1>10, <3>1, <3>2, <3>3 DEF Window
    <2> QED
        BY <1>7, <1>8, <1>9, <2>2, <2>3, <2>4 DEF Core
<1>11. CASE /\ attempt' = 0 /\ buffer' = batch \o buffer /\ batch' = <<>>
            /\ pc' \in {"final", "loop"} /\ exit' = exit
    <2>1. /\ buffer' \in Seq(ChangeEvent)
          /\ Len(buffer') = Len(batch) + Len(buffer)
          /\ \A i \in 1..Len(batch) : buffer'[i] = batch[i]
          /\ \A i \in 1..Len(buffer) : buffer'[Len(batch) + i] = buffer[i]
          /\ Len(batch') = 0 /\ batch' \in Seq(ChangeEvent)
        BY <1>3, <1>11, ConcatFacts, EmptySeq
    <2>2. EngineTypeOK'
        <3>1. attempt' \in 0..(MaxAttempts - 1) /\ done' \in 0..Len(batch')
            BY <1>2, <1>11, <2>1, EngineAssumption
        <3> QED
            BY <1>1, <1>2, <1>11, <2>1, <3>1 DEF Flags, TypeOK, EngineTypeOK
    <2>3. Stages'
        BY <1>1, <1>2, <1>3, <1>11 DEF Stages
    <2>4. Base' = Base /\ Base' + Len(batch') = Base
        BY <1>2, <1>4, <2>1 DEF Base
    <2>5. ASSUME NEW i \in 1..Len(buffer')
          PROVE  buffer'[i].id = Base + i - 1 /\ buffer'[i].LSN = Lsn[Base + i - 1]
        <3>1. CASE i <= Len(batch)
            <4>1. i \in 1..Len(batch)
                BY <1>4, <2>1, <3>1
            <4> QED
                BY <1>5, <2>1, <4>1 DEF Consecutive
        <3>2. CASE i > Len(batch)
            <4> DEFINE j == i - Len(batch)
            <4>1. /\ j \in 1..Len(buffer) /\ i = Len(batch) + j
                  /\ Base + Len(batch) + j - 1 = Base + i - 1
                BY <1>4, <2>1, <3>2
            <4> HIDE DEF j
            <4>2. /\ buffer[j].id = Base + Len(batch) + j - 1
                  /\ buffer[j].LSN = Lsn[Base + Len(batch) + j - 1]
                BY <1>5, <4>1 DEF Consecutive
            <4> QED
                BY <2>1, <4>1, <4>2
        <3> QED
            BY <1>4, <2>1, <3>1, <3>2
    <2>6. Window'
        <3>1. Consecutive(buffer, Base + Len(batch))'
            BY <2>4, <2>5 DEF Consecutive
        <3>2. Consecutive(batch, Base)'
            BY <2>1 DEF Consecutive
        <3>3. Consecutive(out, next - Len(out))'
            BY <1>2, <1>5 DEF Consecutive
        <3>4. start'..(Base' + done' - 1) \subseteq cloud'
            BY <1>2, <1>4, <1>6, <2>4
        <3> QED
            BY <1>2, <1>4, <1>11, <2>4, <3>1, <3>2, <3>3, <3>4 DEF Window
    <2> QED
        BY <1>7, <1>8, <1>9, <2>2, <2>3, <2>6 DEF Core
<1> QED
    BY <1>2, <1>10, <1>11

\* Publish fails, whether or not its last Commit took effect.
LEMMA PublishFailureStep ==
    ASSUME IInv, Flags', PublishFails \/ CommitUnknown
    PROVE  Core'
<1>1. TypeOK /\ NoHoleInSession
    BY DEF IInv
<1>2. /\ pc = "publish" /\ PublishError /\ start' = start
      /\ faults' \in 0..MaxFaults
    <2>1. pc = "publish" /\ PublishError
          /\ (faults' = faults \/ (faults < MaxFaults /\ faults' = faults + 1))
        BY DEF PublishFails, CommitUnknown, Fault
    <2>2. start' = start
        BY <2>1 DEF PublishError, subscriberVars
    <2> QED
        BY <1>1, <2>1, <2>2, EngineAssumption DEF TypeOK, EngineTypeOK
<1>3. CASE PublishFails
    <2>1. cloud' = cloud
        BY <1>3 DEF PublishFails, ChunkFails, publisherVars
    <2>2. NoHoleInSession'
        BY <1>1, <1>2, <2>1 DEF NoHoleInSession
    <2> QED
        BY <1>2, <2>1, <2>2, PublishErrorStep
<1>4. CASE CommitUnknown
    <2> DEFINE k == Base + done + Len(Chunk(batch, done)) - 1
    <2>1. k \in start..NEvents /\ cloud' = cloud \cup (start..k)
        BY <1>2, <1>4, CommitExtendsPrefix DEF CommitUnknown
    <2> HIDE DEF k
    <2>2. cloud \subseteq Int /\ start \in Int /\ k \in Int
        BY <1>1, <2>1
        DEF TypeOK, PublisherTypeOK, SubscriberTypeOK, Event
    <2>3. NoHoleInSession'
        BY <1>1, <1>2, <2>1, <2>2, PrefixMakesNoHole
    <2> QED
        BY <1>2, <2>1, <2>3, PublishErrorStep
<1> QED
    BY <1>3, <1>4

\* Acknowledging only moves the positions forward.
LEMMA AcknowledgeFacts ==
    ASSUME confirmed \in Nat, lastAckedLSN \in Nat, NEW lsn \in Nat,
           replConn = "open" => lastAckedLSN <= confirmed, Acknowledge(lsn)
    PROVE  /\ confirmed' \in Nat /\ lastAckedLSN' \in Nat
           /\ replConn = "open" => lastAckedLSN' <= confirmed'
           /\ confirmed <= confirmed'
           /\ confirmed' \in {confirmed, lsn}
BY DEF Acknowledge, MaxOf

\* flush acknowledges the batch that Publish has applied.
LEMMA FlushAckStep ==
    ASSUME IInv, Flags', FlushAck
    PROVE  Core'
<1>1. TypeOK /\ Stages /\ Window /\ SlotPosition /\ NoHoleInSession
      /\ PositionCovered
    BY DEF IInv
<1>2. /\ pc = "ack" /\ Acknowledge(MaxLSN(batch)) /\ lastLSN' = MaxLSN(batch)
      /\ pc' = "save"
      /\ UNCHANGED <<start, next, serverTx, replConn, stream, txLSN, out, cloud,
                     buffer, batch, done, attempt, disk, exit, faults>>
    BY DEF FlushAck, publisherVars
<1>3. MaxLSN(batch) \in Nat
    <2>1. batch \in Seq(ChangeEvent) /\ batch # <<>> /\ Consecutive(batch, Base)
        BY <1>1, <1>2 DEF TypeOK, EngineTypeOK, Stages, Window
    <2>2. /\ Base \in Int /\ Base >= 1 /\ Base + Len(batch) - 1 <= NEvents
          /\ Len(batch) \in Nat /\ NEvents \in Nat
        BY WindowBounds
    <2>3. PICK i \in 1..Len(batch) : MaxLSN(batch) = Lsn[Base + i - 1]
        BY <2>1, <2>2, MaxLSNIsAnLSN
    <2>4. Base + i - 1 \in 1..NEvents
        BY <2>2
    <2> QED
        BY <2>3, <2>4, EventsAssumption
<1>4. /\ confirmed \in Nat /\ confirmed' \in Nat /\ lastAckedLSN' \in Nat
      /\ replConn = "open" => lastAckedLSN' <= confirmed'
      /\ confirmed <= confirmed'
    BY <1>1, <1>2, <1>3, AcknowledgeFacts
    DEF TypeOK, SubscriberTypeOK, SlotPosition
<1>5. SubscriberTypeOK'
    BY <1>1, <1>2, <1>4 DEF Flags, TypeOK, SubscriberTypeOK
<1>6. EngineTypeOK'
    BY <1>1, <1>2, <1>3 DEF Flags, TypeOK, EngineTypeOK
<1>7. Stages'
    BY <1>1, <1>2 DEF Stages
<1>8. Window'
    BY <1>1, <1>2 DEF Window, Consecutive, Base
<1>9. SlotPosition'
    <2>1. \A e \in 1..(start - 1) : Lsn[e] < confirmed'
        <3> SUFFICES ASSUME NEW e \in 1..(start - 1) PROVE Lsn[e] < confirmed'
            OBVIOUS
        <3>1. Lsn[e] < confirmed /\ Lsn[e] \in Nat
            BY <1>1, EventsAssumption
            DEF SlotPosition, TypeOK, SubscriberTypeOK
        <3> QED
            BY <1>4, <3>1
    <2> QED
        BY <1>1, <1>2, <1>4, <2>1 DEF SlotPosition
<1>10. NoHoleInSession' /\ PositionCovered'
    BY <1>1, <1>2 DEF NoHoleInSession, PositionCovered
<1> QED
    BY <1>5, <1>6, <1>7, <1>8, <1>9, <1>10 DEF Core

\* flush is done with its batch: the window moves past it.
LEMMA FlushSaveStep ==
    ASSUME IInv, Flags', FlushSave
    PROVE  Core'
<1>1. TypeOK /\ Stages /\ Window /\ SlotPosition /\ NoHoleInSession
      /\ PositionCovered
    BY DEF IInv
<1>2. /\ pc = "save" /\ batch' = <<>> /\ pc' \in {"final", "loop"}
      /\ disk' \in {disk, lastLSN}
      /\ faults' = faults \/ (faults < MaxFaults /\ faults' = faults + 1)
      /\ UNCHANGED <<confirmed, start, next, serverTx, replConn, lastAckedLSN,
                     stream, txLSN, out, cloud, buffer, done, attempt, lastLSN,
                     exit>>
    BY DEF FlushSave, FlushReturns, Save, SaveFails, Fault, subscriberVars,
        publisherVars
<1>3. /\ Len(out) \in Nat /\ Len(buffer) \in Nat /\ Len(batch) \in Nat
      /\ next \in Int /\ Base \in Int /\ start \in Int /\ Base >= start
      /\ Len(batch') = 0 /\ batch' \in Seq(ChangeEvent) /\ done = 0
      /\ stream # "none"
    BY <1>1, <1>2, WindowBounds, EmptySeq DEF Stages
<1>4. Base' = Base + Len(batch) /\ Base' + Len(batch') = Base + Len(batch)
    BY <1>2, <1>3 DEF Base
<1>5. SubscriberTypeOK'
    BY <1>1, <1>2 DEF Flags, TypeOK, SubscriberTypeOK
<1>6. EngineTypeOK'
    <2>1. /\ disk' \in Nat /\ faults' \in 0..MaxFaults /\ done' \in 0..Len(batch')
        BY <1>1, <1>2, <1>3, EngineAssumption DEF TypeOK, EngineTypeOK
    <2> QED
        BY <1>1, <1>2, <1>3, <2>1 DEF Flags, TypeOK, EngineTypeOK
<1>7. Stages'
    BY <1>1, <1>2 DEF Stages
<1>8. Window'
    <2>1. /\ Consecutive(batch, Base)'
          /\ Consecutive(buffer, Base + Len(batch))'
          /\ Consecutive(out, next - Len(out))'
        BY <1>1, <1>2, <1>3, <1>4 DEF Window, Consecutive
    <2>2. start'..(Base' + done' - 1) \subseteq cloud'
        <3>1. start..(Base + Len(batch) - 1) \subseteq cloud
            BY <1>1, <1>2 DEF Window
        <3>2. Base' + done' - 1 = Base + Len(batch) - 1
            BY <1>2, <1>3, <1>4
        <3> QED
            BY <1>2, <3>1, <3>2
    <2> QED
        BY <1>2, <1>3, <1>4, <2>1, <2>2 DEF Window
<1>9. SlotPosition' /\ NoHoleInSession' /\ PositionCovered'
    BY <1>1, <1>2 DEF SlotPosition, NoHoleInSession, PositionCovered
<1> QED
    BY <1>5, <1>6, <1>7, <1>8, <1>9 DEF Core

\* What no step of consumeStream touches.
StreamFrame ==
    UNCHANGED <<start, cloud, pc, stopping, sig, shutdownErr, buffer, batch,
                done, attempt, lastLSN, disk, exit, faults>>

\* consumeStream acknowledging a COMMIT or answering a keepalive.
LEMMA StreamAckStep ==
    ASSUME IInv, Flags', StreamFrame, RecvKeepalive \/ CommitAck
    PROVE  Core'
<1>1. TypeOK /\ Stages /\ Window /\ SlotPosition /\ NoHoleInSession
      /\ PositionCovered
    BY DEF IInv
<1>2. /\ stream # "none" /\ stream' = "top"
      /\ UNCHANGED <<next, serverTx, replConn, txLSN, out>>
    BY DEF RecvKeepalive, CommitAck, Receives
<1>3. /\ confirmed \in Nat /\ confirmed' \in Nat /\ lastAckedLSN' \in Nat
      /\ replConn = "open" => lastAckedLSN' <= confirmed'
      /\ confirmed <= confirmed'
    BY <1>1, AcknowledgeFacts
    DEF TypeOK, SubscriberTypeOK, SlotPosition, RecvKeepalive, CommitAck
<1> USE DEF StreamFrame
<1>4. SubscriberTypeOK'
    BY <1>1, <1>2, <1>3 DEF Flags, TypeOK, SubscriberTypeOK
<1>5. EngineTypeOK'
    BY <1>1 DEF Flags, TypeOK, EngineTypeOK
<1>6. Stages'
    BY <1>1, <1>2 DEF Stages
<1>7. Window'
    BY <1>1, <1>2 DEF Window, Consecutive, Base
<1>8. SlotPosition'
    <2>1. ASSUME NEW e \in 1..(start - 1) PROVE Lsn[e] < confirmed'
        <3>1. Lsn[e] < confirmed /\ Lsn[e] \in Nat
            BY <1>1, EventsAssumption
            DEF SlotPosition, TypeOK, SubscriberTypeOK
        <3> QED
            BY <1>3, <3>1
    <2> QED
        BY <1>1, <1>2, <1>3, <2>1 DEF SlotPosition
<1>9. NoHoleInSession' /\ PositionCovered'
    BY <1>1 DEF NoHoleInSession, PositionCovered
<1> QED
    BY <1>4, <1>5, <1>6, <1>7, <1>8, <1>9 DEF Core

\* BEGIN and COMMIT: the transaction being received is never ahead of an event
\* still to be sent.
LEMMA TxBoundaryStep ==
    ASSUME IInv, Flags', StreamFrame, RecvBegin \/ RecvCommit
    PROVE  Core'
<1>1. TypeOK /\ Stages /\ Window /\ SlotPosition /\ NoHoleInSession
      /\ PositionCovered
    BY DEF IInv
<1>2. /\ stream # "none" /\ stream' \in {"top", "commit"}
      /\ UNCHANGED <<confirmed, next, replConn, lastAckedLSN, out>>
    BY DEF RecvBegin, RecvCommit, Receives
<1>3. next \in 1..(NEvents + 1) /\ NEvents \in Nat
    BY <1>1, EventsAssumption DEF TypeOK, SubscriberTypeOK
<1>4. /\ serverTx' \in Nat /\ txLSN' \in Nat
      /\ \A e \in next..NEvents : txLSN' <= Lsn[e]
      /\ serverTx' # 0 => serverTx' = txLSN'
    <2>1. CASE RecvBegin
        <3>1. next \in 1..NEvents /\ serverTx' = Lsn[next] /\ txLSN' = Lsn[next]
            BY <1>3, <2>1 DEF RecvBegin
        <3>2. \A e \in next..NEvents : e \in 1..NEvents /\ next <= e
            BY <1>3, <3>1
        <3> QED
            BY <3>1, <3>2, EventsAssumption
    <2>2. CASE RecvCommit
        <3>1. txLSN' = txLSN /\ serverTx' = 0
            BY <1>1, <2>2 DEF RecvCommit, SlotPosition
        <3> QED
            BY <1>1, <3>1 DEF SlotPosition, TypeOK, SubscriberTypeOK
    <2> QED
        BY <2>1, <2>2
<1> USE DEF StreamFrame
<1>5. SubscriberTypeOK'
    BY <1>1, <1>2, <1>4 DEF Flags, TypeOK, SubscriberTypeOK
<1>6. EngineTypeOK'
    BY <1>1 DEF Flags, TypeOK, EngineTypeOK
<1>7. Stages'
    BY <1>1, <1>2 DEF Stages
<1>8. Window'
    BY <1>1, <1>2 DEF Window, Consecutive, Base
<1>9. SlotPosition'
    BY <1>1, <1>2, <1>4 DEF SlotPosition
<1>10. NoHoleInSession' /\ PositionCovered'
    BY <1>1 DEF NoHoleInSession, PositionCovered
<1> QED
    BY <1>5, <1>6, <1>7, <1>8, <1>9, <1>10 DEF Core

\* emitEvent: the channel grows at the end where the slot sends.
LEMMA EmitStep ==
    ASSUME IInv, Flags', StreamFrame, Emit
    PROVE  Core'
<1> DEFINE ev == [id |-> next, LSN |-> txLSN]
<1>1. TypeOK /\ Stages /\ Window /\ SlotPosition /\ NoHoleInSession
      /\ PositionCovered
    BY DEF IInv
<1>2. /\ stream = "emit" /\ Len(out) < ChanCap /\ out' = Append(out, ev)
      /\ next' = next + 1 /\ stream' = "top"
      /\ UNCHANGED <<confirmed, serverTx, replConn, lastAckedLSN, txLSN>>
    BY DEF Emit
<1>3. /\ next \in 1..NEvents /\ txLSN = Lsn[next] /\ start \in 1..(NEvents + 1)
      /\ next >= start /\ NEvents \in Nat /\ txLSN \in Nat
    BY <1>1, <1>2, EventsAssumption DEF SlotPosition, TypeOK, SubscriberTypeOK
<1>4. ev \in ChangeEvent /\ ev.id = next /\ ev.LSN = txLSN
    BY <1>3 DEF ChangeEvent, Event
<1>5. out \in Seq(ChangeEvent) /\ Len(out) \in Nat
    BY <1>1, LenProperties DEF TypeOK, SubscriberTypeOK
<1> HIDE DEF ev
<1>6. /\ out' \in Seq(ChangeEvent) /\ Len(out') = Len(out) + 1
      /\ \A i \in 1..Len(out) : out'[i] = out[i]
      /\ out'[Len(out) + 1] = ev
    BY <1>2, <1>4, <1>5, AppendProperties
<1> USE DEF StreamFrame
<1>7. Base' = Base
    BY <1>2, <1>3, <1>5, <1>6, WindowBounds DEF Base
<1>8. SubscriberTypeOK'
    <2>1. next' \in start'..(NEvents + 1) /\ Len(out') <= ChanCap
        BY <1>2, <1>3, <1>5, <1>6, SubscriberAssumption
    <2> QED
        BY <1>1, <1>2, <1>6, <2>1 DEF Flags, TypeOK, SubscriberTypeOK
<1>9. EngineTypeOK'
    BY <1>1 DEF Flags, TypeOK, EngineTypeOK
<1>10. Stages'
    BY <1>1, <1>2 DEF Stages
<1>11. ASSUME NEW i \in 1..Len(out')
       PROVE  /\ out'[i].id = next' - Len(out') + i - 1
              /\ out'[i].LSN = Lsn[next' - Len(out') + i - 1]
    <2>1. next' - Len(out') + i - 1 = next - Len(out) + i - 1
        BY <1>2, <1>3, <1>5, <1>6
    <2>2. CASE i \in 1..Len(out)
        <3>1. /\ out[i].id = next - Len(out) + i - 1
              /\ out[i].LSN = Lsn[next - Len(out) + i - 1]
            BY <1>1, <2>2 DEF Window, Consecutive
        <3> QED
            BY <1>6, <2>1, <2>2, <3>1
    <2>3. CASE i = Len(out) + 1
        <3>1. next - Len(out) + i - 1 = next
            BY <1>3, <1>5, <2>3
        <3> QED
            BY <1>3, <1>4, <1>6, <2>1, <2>3, <3>1
    <2> QED
        BY <1>5, <1>6, <2>2, <2>3
<1>12. Window'
    <2>1. Consecutive(out, next - Len(out))'
        BY <1>11 DEF Consecutive
    <2>2. Consecutive(batch, Base)' /\ Consecutive(buffer, Base + Len(batch))'
        BY <1>1, <1>7 DEF Window, Consecutive
    <2> QED
        BY <1>1, <1>2, <1>7, <2>1, <2>2 DEF Window
<1>13. SlotPosition'
    <2>1. \A e \in next'..NEvents : txLSN <= Lsn[e]
        BY <1>1, <1>2, <1>3 DEF SlotPosition
    <2> QED
        BY <1>1, <1>2, <2>1 DEF SlotPosition
<1>14. NoHoleInSession' /\ PositionCovered'
    BY <1>1 DEF NoHoleInSession, PositionCovered
<1> QED
    BY <1>8, <1>9, <1>10, <1>12, <1>13, <1>14 DEF Core

\* The other steps of consumeStream.
LEMMA StreamQuietStep ==
    ASSUME IInv, Flags', StreamFrame,
           ReceiveCall \/ RecvChange \/ EmitDropped \/ StreamExit
    PROVE  Core'
<1>1. TypeOK /\ Stages /\ SlotPosition
    BY DEF IInv
<1>2. /\ stream # "none" /\ stream' \in {"top", "recv", "emit", "done"}
      /\ UNCHANGED <<confirmed, next, serverTx, replConn, lastAckedLSN, txLSN,
                     out>>
    BY DEF ReceiveCall, RecvChange, EmitDropped, StreamExit, Receives
<1>3. stream' = "emit" => next <= NEvents /\ txLSN = Lsn[next]
    <2> SUFFICES ASSUME stream' = "emit"
                 PROVE  next <= NEvents /\ txLSN = Lsn[next]
        OBVIOUS
    <2>1. MoreInTx
        BY DEF ReceiveCall, RecvChange, EmitDropped, StreamExit
    <2>2. next \in 1..NEvents
        BY <1>1, <2>1, EventsAssumption DEF MoreInTx, TypeOK, SubscriberTypeOK
    <2>3. Lsn[next] # 0
        BY <2>2, EventsAssumption
    <2> QED
        BY <1>1, <2>1, <2>3 DEF MoreInTx, SlotPosition
<1> USE DEF StreamFrame
<1>4. SubscriberTypeOK'
    BY <1>1, <1>2 DEF Flags, TypeOK, SubscriberTypeOK
<1>5. EngineTypeOK'
    BY <1>1 DEF Flags, TypeOK, EngineTypeOK
<1>6. Stages'
    BY <1>1, <1>2 DEF Stages
<1>7. Window' /\ SlotPosition' /\ NoHoleInSession' /\ PositionCovered'
    BY <1>2, <1>3, QuietStep DEF Pipe
<1> QED
    BY <1>4, <1>5, <1>6, <1>7 DEF Core

\* Any step of the goroutine consumeStream.
LEMMA StreamCore == ASSUME IInv, Flags', StreamStep PROVE Core'
<1>1. StreamFrame
    BY DEF StreamStep, ConsumeStream, ReceiveCall, RecvKeepalive, RecvData,
        RecvBegin, RecvChange, Emit, EmitDropped, RecvCommit, CommitAck,
        StreamExit, StreamFrame, publisherVars, engineVars
<1> QED
    BY <1>1, StreamAckStep, TxBoundaryStep, EmitStep, StreamQuietStep
    DEF StreamStep, ConsumeStream, RecvData

\* The environment, while the process lives on.
LEMMA EnvironmentStep ==
    ASSUME IInv, Flags',
           \/ LinkBreaks \/ CloudDown \/ CloudRecovers \/ IntervalPasses
           \/ UNCHANGED vars
           \/ Signal /\ (SignalAware \/ pc \notin {"connect", "subscribe"})
    PROVE  Core'
<1>1. TypeOK /\ Stages /\ SlotPosition
    BY DEF IInv
<1>2. /\ UNCHANGED Pipe
      /\ UNCHANGED <<lastAckedLSN, stream, pc, attempt, lastLSN, disk, exit>>
      /\ replConn' = replConn \/ (replConn = "open" /\ replConn' = "broken")
      /\ faults' = faults \/ (faults < MaxFaults /\ faults' = faults + 1)
    BY DEF LinkBreaks, CloudDown, CloudRecovers, IntervalPasses, Signal, Fault,
        Pipe, vars, subscriberVars, publisherVars, engineVars
<1>3. SubscriberTypeOK'
    BY <1>1, <1>2 DEF Flags, TypeOK, SubscriberTypeOK, Pipe
<1>4. EngineTypeOK'
    <2>1. faults' \in 0..MaxFaults
        BY <1>1, <1>2, EngineAssumption DEF TypeOK, EngineTypeOK
    <2> QED
        BY <1>1, <1>2, <2>1 DEF Flags, TypeOK, EngineTypeOK, Pipe
<1>5. Stages'
    BY <1>1, <1>2 DEF Stages, Pipe
<1>6. Window' /\ SlotPosition' /\ NoHoleInSession' /\ PositionCovered'
    BY <1>2, QuietStep
<1> QED
    BY <1>3, <1>4, <1>5, <1>6 DEF Core

\* The steps that end the process.
Ending ==
    \/ SubscribeFails \/ RunAborted \/ RunReturns \/ ShutdownTimeout
    \/ Crash \/ Panic
    \/ Signal /\ ~SignalAware /\ pc \in {"connect", "subscribe"}

\* Every one of them is the same End.
LEMMA EndingIsEnd ==
    ASSUME IInv, Ending
    PROVE  \E how \in {"clean", "error", "timeout", "crash", "panic"} :
              End(how) /\ faults' \in 0..MaxFaults
<1>1. faults \in 0..MaxFaults /\ MaxFaults \in Nat
    BY EngineAssumption DEF IInv, TypeOK, EngineTypeOK
<1>2. faults' = faults \/ (faults < MaxFaults /\ faults' = faults + 1)
    BY DEF Ending, SubscribeFails, RunAborted, RunReturns, ShutdownTimeout,
        Crash, Panic, Signal, Fault
<1>3. \E how \in {"clean", "error", "timeout", "crash", "panic"} : End(how)
    BY DEF Ending, SubscribeFails, RunAborted, RunReturns, ShutdownTimeout,
        Crash, Panic, Signal
<1> QED
    BY <1>1, <1>2, <1>3

\* Every step of the system keeps the invariant.
LEMMA InductiveStep == IInv /\ [Next]_vars => IInv'
<1> SUFFICES ASSUME IInv, [Next]_vars PROVE IInv'
    OBVIOUS
<1>1. Flags /\ BreakerTypeOK
    BY DEF IInv, TypeOK, SubscriberTypeOK, PublisherTypeOK, BreakerTypeOK,
        EngineTypeOK, Flags
<1>2. Flags' /\ BreakerTypeOK' /\ PublisherTypeOK'
    BY <1>1, FlagTypes, BreakerTypes, PublisherTypes
<1> SUFFICES Core'
    BY <1>2 DEF Core, IInv, TypeOK
<1>3. CASE Ending
    BY <1>2, <1>3, EndingIsEnd, EndStep
<1>4. CASE Start \/ LoadFails \/ RunConnect
    BY <1>2, <1>4, StartupStep
<1>5. CASE RunSubscribe
    BY <1>2, <1>5, SubscribeStep
<1>6. CASE Consume \/ Tick \/ LoopShutdown
    BY <1>2, <1>6, LoopStep
<1>7. CASE FlushEmpty \/ FlushDenied \/ FinalSave \/ CloseSubscriber
    BY <1>2, <1>7, FlushReturnStep
<1>8. CASE FlushBegin
    BY <1>2, <1>8, FlushBeginStep
<1>9. CASE PublishChunk
    BY <1>2, <1>9, PublishChunkStep
<1>10. CASE PublishFails \/ CommitUnknown
    BY <1>2, <1>10, PublishFailureStep
<1>11. CASE FlushAck
    BY <1>2, <1>11, FlushAckStep
<1>12. CASE FlushSave
    BY <1>2, <1>12, FlushSaveStep
<1>13. CASE StreamStep
    BY <1>2, <1>13, StreamCore
<1>14. CASE \/ LinkBreaks \/ CloudDown \/ CloudRecovers \/ IntervalPasses
            \/ UNCHANGED vars
            \/ Signal /\ (SignalAware \/ pc \notin {"connect", "subscribe"})
    BY <1>2, <1>14, EnvironmentStep
<1> QED
    BY <1>3, <1>4, <1>5, <1>6, <1>7, <1>8, <1>9, <1>10, <1>11, <1>12, <1>13,
       <1>14
    DEF Next, Startup, Flush, Shutdown, Ending

\* The initial state satisfies the invariant.
LEMMA InitIInv == Init => IInv
<1> SUFFICES ASSUME Init PROVE IInv
    OBVIOUS
<1>1. TypeOK
    BY InitTypes
<1> USE DEF Init, NewSubscriber, PublisherInit, NewCircuitBreaker
<1>2. Stages /\ NoHoleInSession
    BY DEF Stages, NoHoleInSession
<1>3. Window
    BY EmptySeq DEF Window, Base, Consecutive
<1>4. SlotPosition /\ PositionCovered
    BY EventsAssumption DEF SlotPosition, PositionCovered
<1> QED
    BY <1>1, <1>2, <1>3, <1>4 DEF IInv

\* The pipeline invariant holds in every reachable state.
THEOREM EngineInductive == Spec => []IInv
<1>1. Init => IInv
    BY InitIInv
<1>2. IInv /\ [Next]_vars => IInv'
    BY InductiveStep
<1> QED
    BY <1>1, <1>2, PTL DEF Spec

\* Every variable has its type; the channel never exceeds its capacity.
THEOREM EngineTypeCorrect == Spec => []TypeOK
<1>1. IInv => TypeOK
    BY DEF IInv
<1> QED
    BY <1>1, EngineInductive, PTL

\* No retry, requeue, partial or ambiguous commit and no restart ever lets the
\* cloud have a change of the stream without the ones before it.
THEOREM EngineNeverSkips == Spec => []NoHoleInSession
<1>1. IInv => NoHoleInSession
    BY DEF IInv
<1> QED
    BY <1>1, EngineInductive, PTL

\* The positions that flush acknowledges, keeps and saves never run ahead of
\* what the cloud has, even when a batch ends inside a transaction.
THEOREM EnginePositionsCovered == Spec => []PositionCovered
<1>1. IInv => PositionCovered
    BY DEF IInv
<1> QED
    BY <1>1, EngineInductive, PTL

-----------------------------------------------------------------------------
(* What a step does to the slot and to the cloud.                          *)

\* A step commits a prefix of the stream, resumes the stream further on, or
\* leaves both the cloud and the point of resumption alone.
LEMMA CloudStep ==
    ASSUME IInv, [Next]_vars
    PROVE  \/ UNCHANGED <<start, cloud>>
           \/ /\ UNCHANGED start
              /\ \E k \in start..NEvents : cloud' = cloud \cup (start..k)
           \/ RunSubscribe /\ start' \in start..(NEvents + 1) /\ cloud' = cloud
<1>1. ASSUME pc = "publish", CommitChunk(Chunk(batch, done)), start' = start
      PROVE  /\ UNCHANGED start
             /\ \E k \in start..NEvents : cloud' = cloud \cup (start..k)
    BY <1>1, CommitExtendsPrefix
<1>2. CASE Ending
    BY <1>2, EndingIsEnd DEF End
<1>3. CASE RunSubscribe
    <2>1. Flags'
        BY FlagTypes DEF IInv, TypeOK, SubscriberTypeOK, PublisherTypeOK,
            BreakerTypeOK, EngineTypeOK, Flags
    <2> QED
        BY <1>3, <2>1, SubscribeStep DEF RunSubscribe, publisherVars
<1>4. CASE PublishChunk \/ CommitUnknown
    BY <1>1, <1>4 DEF PublishChunk, CommitUnknown, PublishError, subscriberVars
<1>5. CASE \/ Start \/ LoadFails \/ RunConnect \/ Consume \/ Tick
           \/ LoopShutdown \/ FlushEmpty \/ FlushDenied \/ FlushBegin
           \/ PublishFails \/ FlushAck \/ FlushSave \/ FinalSave
           \/ CloseSubscriber
    BY <1>5
    DEF Start, LoadFails, RunConnect, Connect, Consume, Tick, LoopShutdown,
        FlushEmpty, FlushDenied, FlushBegin, PublishFails, PublishError,
        ChunkFails, FlushAck, FlushSave, FinalSave, CloseSubscriber, Close,
        subscriberVars, publisherVars
<1>6. CASE StreamStep
    BY <1>6
    DEF StreamStep, ConsumeStream, ReceiveCall, RecvKeepalive, RecvData,
        RecvBegin, RecvChange, Emit, EmitDropped, RecvCommit, CommitAck,
        StreamExit, publisherVars
<1>7. CASE \/ LinkBreaks \/ CloudDown \/ CloudRecovers \/ IntervalPasses
           \/ UNCHANGED vars
           \/ Signal /\ (SignalAware \/ pc \notin {"connect", "subscribe"})
    BY <1>7
    DEF LinkBreaks, CloudDown, CloudRecovers, IntervalPasses, Signal, vars,
        subscriberVars, publisherVars
<1> QED
    BY <1>2, <1>3, <1>4, <1>5, <1>6, <1>7
    DEF Next, Startup, Flush, Shutdown, Ending

\* The engine implements in-order delivery: seen through the point where the
\* stream resumed and the set of applied changes, it only ever extends a prefix
\* or resumes further on.
THEOREM EngineImplementsInOrderDelivery == Spec => ImplementsInOrderDelivery
<1>1. Init => Delivery!Init
    BY DEF Init, NewSubscriber, PublisherInit, Delivery!Init
<1>2. IInv /\ [Next]_vars => [Delivery!Next]_<<start, cloud>>
    BY CloudStep DEF Delivery!Next, Delivery!Deliver, Delivery!Resume
<1> QED
    BY <1>1, <1>2, EngineInductive, PTL
    DEF Spec, ImplementsInOrderDelivery, Delivery!Spec

\* The process holds exactly the events of the window.
LEMMA InFlightIsWindow == IInv => InFlight = Base..(next - 1)
<1> SUFFICES ASSUME IInv PROVE InFlight = Base..(next - 1)
    OBVIOUS
<1>1. /\ Len(out) \in Nat /\ Len(buffer) \in Nat /\ Len(batch) \in Nat
      /\ Base \in Int /\ next \in Int
      /\ Base + Len(batch) + Len(buffer) + Len(out) = next
    BY WindowBounds DEF Base
<1>2. /\ batch \in Seq(ChangeEvent) /\ buffer \in Seq(ChangeEvent)
      /\ out \in Seq(ChangeEvent) /\ Consecutive(batch, Base)
      /\ Consecutive(buffer, Base + Len(batch))
      /\ Consecutive(out, next - Len(out))
    BY DEF IInv, TypeOK, SubscriberTypeOK, EngineTypeOK, Window
<1>3. /\ Ids(batch) = Base..(Base + Len(batch) - 1)
      /\ Ids(buffer) = (Base + Len(batch))..(Base + Len(batch) + Len(buffer) - 1)
      /\ Ids(out) = (next - Len(out))..(next - Len(out) + Len(out) - 1)
    BY <1>1, <1>2, IdsOfConsecutive
<1> QED
    BY <1>1, <1>3 DEF InFlight

\* While the process lives, the slot's position moves only to the LSN of a
\* transaction that has been received, and only a new stream moves its start.
LEMMA SlotStep ==
    ASSUME IInv, [Next]_vars, ~ProcessEnds
    PROVE  /\ \/ confirmed' = confirmed
              \/ /\ stream # "none" /\ stream' # "none"
                 /\ \A e \in next..NEvents : ~(Lsn[e] < confirmed')
           /\ stream' = "none" => stream = "none"
           /\ \/ RunSubscribe /\ stream = "none"
              \/ start' = start /\ next <= next'
<1>1. TypeOK /\ Stages /\ SlotPosition
    BY DEF IInv
<1>2. /\ confirmed \in Nat /\ next \in Int /\ lastAckedLSN \in Nat
      /\ txLSN \in Nat /\ next >= 1 /\ NEvents \in Nat
    BY <1>1, EventsAssumption DEF TypeOK, SubscriberTypeOK
<1>3. CASE Ending
    <2>1. pc' = "down" /\ UNCHANGED <<confirmed, start, next>>
        BY <1>3, EndingIsEnd DEF End
    <2>2. pc = "down"
        BY <2>1 DEF ProcessEnds
    <2>3. stream = "none"
        BY <1>1, <2>2 DEF Stages
    <2> QED
        BY <1>2, <2>1, <2>3
<1>4. CASE RunSubscribe
    BY <1>4 DEF RunSubscribe, Subscribe
<1>5. CASE FlushAck
    <2>1. /\ batch \in Seq(ChangeEvent) /\ batch # <<>> /\ stream # "none"
          /\ Consecutive(batch, Base) /\ Base \in Int /\ Base >= 1
          /\ Base + Len(batch) - 1 <= NEvents /\ Len(batch) \in Nat
          /\ Base + Len(batch) <= next
        BY <1>1, <1>5, WindowBounds
        DEF IInv, TypeOK, EngineTypeOK, Stages, Window, FlushAck
    <2>2. PICK i \in 1..Len(batch) : MaxLSN(batch) = Lsn[Base + i - 1]
        BY <2>1, MaxLSNIsAnLSN
    <2>3. Base + i - 1 \in 1..NEvents /\ Base + i - 1 < next
        BY <1>2, <2>1
    <2>4. \A e \in next..NEvents : ~(Lsn[e] < MaxLSN(batch))
        <3> SUFFICES ASSUME NEW e \in next..NEvents
                     PROVE  ~(Lsn[e] < Lsn[Base + i - 1])
            BY <2>2
        <3>1. e \in 1..NEvents /\ Base + i - 1 <= e
            BY <1>2, <2>3
        <3>2. Lsn[Base + i - 1] <= Lsn[e] /\ Lsn[e] \in Nat
              /\ Lsn[Base + i - 1] \in Nat
            BY <2>3, <3>1, EventsAssumption
        <3> QED
            BY <3>2
    <2>5. /\ confirmed' = confirmed \/ confirmed' = MaxLSN(batch)
          /\ UNCHANGED <<start, next, stream>>
        BY <1>5 DEF FlushAck, Acknowledge, MaxOf
    <2> QED
        BY <1>2, <2>1, <2>4, <2>5
<1>6. CASE StreamStep
    <2>1. stream # "none" /\ stream' # "none" /\ start' = start
          /\ (next' = next \/ next' = next + 1)
        BY <1>6
        DEF StreamStep, ConsumeStream, ReceiveCall, RecvKeepalive, RecvData,
            RecvBegin, RecvChange, Emit, EmitDropped, RecvCommit, CommitAck,
            StreamExit, Receives
    <2>2. confirmed' = confirmed \/ confirmed' = txLSN
        <3>1. CASE RecvKeepalive
            <4>1. lastAckedLSN <= confirmed
                BY <1>1, <3>1 DEF SlotPosition, RecvKeepalive, Receives
            <4> QED
                BY <1>2, <3>1, <4>1 DEF RecvKeepalive, Acknowledge, MaxOf
        <3>2. CASE CommitAck
            BY <3>2 DEF CommitAck, Acknowledge, MaxOf
        <3> QED
            BY <1>6, <3>1, <3>2
            DEF StreamStep, ConsumeStream, ReceiveCall, RecvData, RecvBegin,
                RecvChange, Emit, EmitDropped, RecvCommit, StreamExit
    <2>3. \A e \in next..NEvents : ~(Lsn[e] < txLSN)
        <3> SUFFICES ASSUME NEW e \in next..NEvents PROVE ~(Lsn[e] < txLSN)
            OBVIOUS
        <3>1. txLSN <= Lsn[e] /\ Lsn[e] \in Nat
            BY <1>1, <1>2, EventsAssumption DEF SlotPosition
        <3> QED
            BY <1>2, <3>1
    <2> QED
        BY <1>2, <2>1, <2>2, <2>3
<1>7. CASE \/ Start \/ LoadFails \/ RunConnect \/ Consume \/ Tick
           \/ LoopShutdown \/ FlushEmpty \/ FlushDenied \/ FlushBegin
           \/ PublishChunk \/ PublishFails \/ CommitUnknown \/ FlushSave
           \/ FinalSave \/ CloseSubscriber
    <2>1. UNCHANGED <<confirmed, start, next, stream>>
        BY <1>7
        DEF Start, LoadFails, RunConnect, Connect, Consume, Tick, LoopShutdown,
            FlushEmpty, FlushDenied, FlushBegin, PublishChunk, PublishFails,
            CommitUnknown, PublishError, FlushSave, FinalSave, CloseSubscriber,
            Close, subscriberVars
    <2> QED
        BY <1>2, <2>1
<1>8. CASE \/ LinkBreaks \/ CloudDown \/ CloudRecovers \/ IntervalPasses
           \/ UNCHANGED vars
           \/ Signal /\ (SignalAware \/ pc \notin {"connect", "subscribe"})
    <2>1. UNCHANGED <<confirmed, start, next, stream>>
        BY <1>8
        DEF LinkBreaks, CloudDown, CloudRecovers, IntervalPasses, Signal, vars,
            subscriberVars
    <2> QED
        BY <1>2, <2>1
<1> QED
    BY <1>3, <1>4, <1>5, <1>6, <1>7, <1>8
    DEF Next, Startup, Flush, Shutdown, Ending

\* What lies outside two intervals that meet lies outside their union.
LEMMA NotBetween ==
    \A e, s, b, n \in Int : \A d \in Nat :
        e \notin b..(n - 1) /\ e \notin s..(b + d - 1) => e < s \/ e >= n
OBVIOUS

\* A change that the slot has moved past and that a step of the living process
\* leaves neither in the cloud nor in flight was lost already.
LEMMA LossStep == IInv /\ IInv' /\ [Next]_vars /\ ~ProcessEnds => Lost' \subseteq Lost
<1> SUFFICES ASSUME IInv, IInv', [Next]_vars, ~ProcessEnds, NEW e \in Lost'
             PROVE  e \in Lost
    OBVIOUS
<1>1. /\ e \in 1..NEvents /\ Lsn[e] < confirmed' /\ e \notin cloud'
      /\ e \notin InFlight'
    BY DEF Lost, Event
<1>2. e \notin cloud
    BY <1>1, CloudStep
<1>3. /\ start \in Int /\ next \in Int /\ Base \in Int /\ NEvents \in Nat
      /\ start <= Base /\ Base <= next
    BY WindowBounds
<1>4. /\ start' \in Int /\ next' \in Int /\ Base' \in Int /\ Base' <= next'
      /\ done' \in Nat
    <2>1. start' \in Int /\ next' \in Int /\ Base' \in Int /\ Base' <= next'
        <3>1. /\ out' \in Seq(ChangeEvent) /\ buffer' \in Seq(ChangeEvent)
              /\ batch' \in Seq(ChangeEvent) /\ start' \in 1..(NEvents + 1)
              /\ next' \in start'..(NEvents + 1)
            BY DEF IInv, TypeOK, SubscriberTypeOK, EngineTypeOK
        <3> QED
            BY <1>3, <3>1, LenProperties DEF Base
    <2>2. done' \in Nat
        BY LenProperties DEF IInv, TypeOK, EngineTypeOK
    <2> QED
        BY <2>1, <2>2
<1>5. InFlight = Base..(next - 1) /\ (InFlight = Base..(next - 1))'
    BY InFlightIsWindow, PTL
<1>6. CASE stream' = "none"
    <2>1. stream = "none" /\ confirmed' = confirmed
        BY <1>6, SlotStep
    <2>2. InFlight = {}
        <3>1. out = <<>> /\ buffer = <<>> /\ batch = <<>>
            BY <2>1 DEF IInv, Stages
        <3> QED
            BY <3>1, EmptySeq DEF InFlight, Ids
    <2> QED
        BY <1>1, <1>2, <2>1, <2>2 DEF Lost, Event
<1>7. CASE stream' # "none"
    <2>1. e < start' \/ e >= next'
        <3>1. start'..(Base' + done' - 1) \subseteq cloud'
            BY <1>7 DEF IInv, Window
        <3>2. e \notin Base'..(next' - 1) /\ e \notin start'..(Base' + done' - 1)
            BY <1>1, <1>5, <3>1
        <3>3. e \in Int
            BY <1>1, <1>3
        <3> QED
            BY <1>4, <3>2, <3>3, NotBetween
    <2>2. CASE RunSubscribe /\ stream = "none"
        <3>1. confirmed' = confirmed
            BY <2>2, SlotStep
        <3>2. out = <<>> /\ buffer = <<>> /\ batch = <<>>
            BY <2>2 DEF IInv, Stages, RunSubscribe
        <3>3. InFlight = {}
            BY <3>2, EmptySeq DEF InFlight, Ids
        <3> QED
            BY <1>1, <1>2, <3>1, <3>3 DEF Lost, Event
    <2>3. CASE start' = start /\ next <= next'
        <3>1. e \notin InFlight
            BY <1>1, <1>3, <1>4, <1>5, <2>1, <2>3
        <3>2. Lsn[e] < confirmed
            <4>1. CASE e < start
                BY <1>1, <1>3, <4>1 DEF IInv, SlotPosition
            <4>2. CASE e >= next'
                <5>1. e \in next..NEvents
                    BY <1>1, <1>3, <1>4, <2>3, <4>2
                <5> QED
                    BY <1>1, <5>1, SlotStep
            <4> QED
                BY <2>1, <2>3, <4>1, <4>2
        <3> QED
            BY <1>1, <1>2, <3>1, <3>2 DEF Lost, Event
    <2> QED
        BY <2>2, <2>3, SlotStep
<1> QED
    BY <1>6, <1>7

\* While the process lives no step loses a change, for every batch size,
\* channel capacity, retry limit and breaker threshold.
THEOREM EngineLosesNothingWhileRunning == Spec => NoLossWhileRunning
<1>1. IInv /\ IInv' /\ [Next]_vars => [ProcessEnds \/ Lost' \subseteq Lost]_vars
    BY LossStep
<1> QED
    BY <1>1, EngineInductive, PTL DEF Spec, NoLossWhileRunning

-----------------------------------------------------------------------------
(* The circuit breaker.                                                    *)

\* A circuit that is not closed has seen the failures that opened it, so a
\* failed probe opens it again instead of leaving it half-open.
ProbeInv ==
    /\ circuit # "closed" => consecutiveFailures = FailureThreshold
    /\ ProbeSettled

\* Every step keeps it.
LEMMA ProbeStep == IInv /\ ProbeInv /\ [Next]_vars => ProbeInv'
<1> SUFFICES ASSUME IInv, ProbeInv, [Next]_vars PROVE ProbeInv'
    OBVIOUS
<1>1. /\ circuit # "closed" => consecutiveFailures = FailureThreshold
      /\ circuit = "half-open" => pc = "publish"
      /\ FailureThreshold \in Nat
      /\ consecutiveFailures \in 0..FailureThreshold
    BY ThresholdAssumption
    DEF ProbeInv, ProbeSettled, IInv, TypeOK, BreakerTypeOK
<1>2. ASSUME UNCHANGED breakerVars, pc = "publish" => pc' = "publish"
      PROVE  ProbeInv'
    BY <1>1, <1>2 DEF ProbeInv, ProbeSettled, breakerVars
<1>3. CASE Ending
    <2>1. circuit' = "closed"
        BY <1>3, EndingIsEnd DEF End
    <2> QED
        BY <2>1 DEF ProbeInv, ProbeSettled
<1>4. CASE FlushBegin
    <2>1. consecutiveFailures' = consecutiveFailures /\ pc' = "publish"
          /\ (circuit' = "half-open" => circuit = "open" \/ circuit = "half-open")
          /\ (circuit' # "half-open" => circuit' = circuit)
        BY <1>4 DEF FlushBegin, Allow
    <2> QED
        BY <1>1, <2>1 DEF ProbeInv, ProbeSettled
<1>5. CASE PublishChunk
    <2>1. \/ UNCHANGED <<circuit, consecutiveFailures, pc>>
          \/ circuit' = "closed"
        BY <1>5 DEF PublishChunk, RecordSuccess, breakerVars
    <2> QED
        BY <1>1, <2>1 DEF ProbeInv, ProbeSettled
<1>6. CASE PublishFails \/ CommitUnknown
    <2>1. \/ UNCHANGED <<circuit, consecutiveFailures, pc>>
          \/ /\ consecutiveFailures' = IF consecutiveFailures < FailureThreshold
                                       THEN consecutiveFailures + 1
                                       ELSE FailureThreshold
             /\ circuit' = IF consecutiveFailures' >= FailureThreshold
                           THEN "open" ELSE circuit
        BY <1>6
        DEF PublishFails, CommitUnknown, PublishError, RecordFailure, breakerVars
    <2> QED
        BY <1>1, <2>1 DEF ProbeInv, ProbeSettled
<1>7. CASE IntervalPasses
    BY <1>1, <1>7
    DEF IntervalPasses, BreakerCools, ProbeInv, ProbeSettled, engineVars
<1>8. CASE \/ Start \/ LoadFails \/ RunConnect \/ RunSubscribe \/ Consume \/ Tick
           \/ LoopShutdown \/ FlushEmpty \/ FlushDenied \/ FlushAck \/ FlushSave
           \/ FinalSave \/ CloseSubscriber
    BY <1>2, <1>8
    DEF Start, LoadFails, RunConnect, RunSubscribe, Consume, Tick, LoopShutdown,
        FlushEmpty, FlushDenied, FlushAck, FlushSave, FinalSave, CloseSubscriber
<1>9. CASE \/ StreamStep \/ LinkBreaks \/ CloudDown \/ CloudRecovers
           \/ UNCHANGED vars
           \/ Signal /\ (SignalAware \/ pc \notin {"connect", "subscribe"})
    BY <1>2, <1>9
    DEF StreamStep, LinkBreaks, CloudDown, CloudRecovers, Signal, vars,
        engineVars
<1> QED
    BY <1>3, <1>4, <1>5, <1>6, <1>7, <1>8, <1>9
    DEF Next, Startup, Flush, Shutdown, Ending

\* The breaker is never left half-open by a flush that has returned.
THEOREM EngineSettlesProbe == Spec => []ProbeSettled
<1>1. Init => ProbeInv
    BY DEF Init, NewCircuitBreaker, ProbeInv, ProbeSettled
<1>2. IInv /\ ProbeInv /\ [Next]_vars => ProbeInv'
    BY ProbeStep
<1>3. ProbeInv => ProbeSettled
    BY DEF ProbeInv
<1> QED
    BY <1>1, <1>2, <1>3, EngineInductive, PTL DEF Spec

-----------------------------------------------------------------------------
(* Closing the subscriber.                                                 *)

\* The connection is missing before Connect and after Close only.
ConnectionStages == replConn = "nil" => pc \in {"down", "connect", "closing"}

\* Every step keeps it.
LEMMA ConnectionStep == ConnectionStages /\ [Next]_vars => ConnectionStages'
<1> SUFFICES ASSUME ConnectionStages, [Next]_vars PROVE ConnectionStages'
    OBVIOUS
<1> USE DEF ConnectionStages
<1>1. CASE Ending
    BY <1>1
    DEF Ending, SubscribeFails, RunAborted, RunReturns, ShutdownTimeout, Crash,
        Panic, Signal, End
<1>2. CASE Start \/ LoadFails \/ RunConnect \/ RunSubscribe
    BY <1>2
    DEF Start, LoadFails, RunConnect, RunSubscribe, Connect, Subscribe,
        subscriberVars
<1>3. CASE Consume \/ Tick \/ LoopShutdown
    BY <1>3 DEF Consume, Tick, LoopShutdown, subscriberVars
<1>4. CASE FlushEmpty \/ FlushDenied \/ FlushBegin \/ FlushSave
    BY <1>4
    DEF FlushEmpty, FlushDenied, FlushBegin, FlushSave, FlushReturns,
        subscriberVars
<1>5. CASE PublishChunk \/ FlushAck
    BY <1>5 DEF PublishChunk, FlushAck, subscriberVars
<1>6. CASE PublishFails \/ CommitUnknown
    BY <1>6
    DEF PublishFails, CommitUnknown, PublishError, FlushReturns, subscriberVars
<1>7. CASE FinalSave \/ CloseSubscriber
    BY <1>7 DEF FinalSave, CloseSubscriber, Close, subscriberVars
<1>8. CASE StreamStep
    BY <1>8
    DEF StreamStep, ConsumeStream, ReceiveCall, RecvKeepalive, RecvData,
        RecvBegin, RecvChange, RecvCommit, Emit, EmitDropped, CommitAck,
        StreamExit, engineVars
<1>9. CASE \/ LinkBreaks \/ CloudDown \/ CloudRecovers \/ IntervalPasses
           \/ UNCHANGED vars
           \/ Signal /\ (SignalAware \/ pc \notin {"connect", "subscribe"})
    BY <1>9
    DEF LinkBreaks, CloudDown, CloudRecovers, IntervalPasses, Signal, vars,
        subscriberVars, engineVars
<1> QED
    BY <1>1, <1>2, <1>3, <1>4, <1>5, <1>6, <1>7, <1>8, <1>9
    DEF Next, Startup, Flush, Shutdown, Ending

\* The unsynchronised read of replConn meets nil only when the engine has
\* flushed, saved and is waiting in Close.
THEOREM EngineNilOnlyWhileClosing == Spec => []NilOnlyWhileClosing
<1>1. Init => ConnectionStages
    BY DEF Init, ConnectionStages
<1>2. ConnectionStages /\ [Next]_vars => ConnectionStages'
    BY ConnectionStep
<1>3. IInv /\ ConnectionStages => NilOnlyWhileClosing
    BY DEF IInv, Stages, ConnectionStages, NilOnlyWhileClosing, NilDereference
<1> QED
    BY <1>1, <1>2, <1>3, EngineInductive, PTL DEF Spec
=============================================================================
