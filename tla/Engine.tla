------------------------------- MODULE Engine -------------------------------
(***************************************************************************)
(* internal/engine/engine.go composed with the subscriber, the publisher   *)
(* and the circuit breaker it drives, and with the life of the process:    *)
(* start, signal, crash, restart.                                          *)
(*                                                                         *)
(* The engine goroutine is the program counter pc: the steps of Run, the   *)
(* select loop, the phases of flush, and shutdownWork.  consumeStream runs *)
(* beside it (Subscriber).  What outlives the process is the slot's        *)
(* position, the cloud database and the state file.                        *)
(***************************************************************************)
EXTENDS Subscriber, Publisher, CircuitBreaker

CONSTANTS
    BatchSize,     \* cfg.Replication.BatchSize
    MaxAttempts,   \* attempts of retry.Do around Publish (3)
    SignalAware,   \* TRUE: started by SignalAwareRun; FALSE: by Run
    Faults,        \* the kinds of fault this instance injects
    MaxFaults      \* bound on the faults of a behaviour

FaultKinds == {"crash", "link", "cloud", "commit", "subscribe", "disk",
               "sigterm", "timeout"}

ASSUME EngineAssumption ==
    /\ BatchSize \in Nat \ {0}
    /\ MaxAttempts \in Nat \ {0}
    /\ SignalAware \in BOOLEAN
    /\ Faults \subseteq FaultKinds
    /\ MaxFaults \in Nat

VARIABLES
    pc,           \* where the engine goroutine is
    stopping,     \* flush is called from shutdownWork, not from loop
    sig,          \* SIGTERM or SIGINT has been received
    shutdownErr,  \* shutdownErr # nil
    buffer,       \* Engine.buffer
    batch,        \* flush: the events taken out of buffer
    done,         \* Publish: how many of them are committed in this attempt
    attempt,      \* retry.Do: failed attempts so far
    lastLSN,      \* state.LastLSN in memory
    disk,         \* LastLSN in the state file
    exit,         \* how the process ended; "none" while it runs
    faults

engineVars == <<pc, stopping, sig, shutdownErr, buffer, batch, done, attempt,
                lastLSN, disk, exit, faults>>
vars == <<subscriberVars, publisherVars, breakerVars, engineVars>>

EngineTypeOK ==
    /\ pc \in {"down", "connect", "subscribe", "loop", "flush", "publish",
               "ack", "save", "final", "close", "closing"}
    /\ stopping \in BOOLEAN /\ sig \in BOOLEAN /\ shutdownErr \in BOOLEAN
    /\ buffer \in Seq(ChangeEvent) /\ batch \in Seq(ChangeEvent)
    /\ done \in 0..Len(batch)
    /\ attempt \in 0..(MaxAttempts - 1)
    /\ lastLSN \in Nat /\ disk \in Nat
    /\ exit \in {"none", "clean", "error", "timeout", "crash", "panic"}
    /\ faults \in 0..MaxFaults

\* Every variable has its type, and the channel never holds more events than
\* the buffered channel that Subscribe makes.
TypeOK ==
    /\ SubscriberTypeOK /\ PublisherTypeOK /\ BreakerTypeOK /\ EngineTypeOK

Init ==
    /\ NewSubscriber /\ PublisherInit /\ NewCircuitBreaker
    /\ pc = "down" /\ stopping = FALSE /\ sig = FALSE /\ shutdownErr = FALSE
    /\ buffer = <<>> /\ batch = <<>> /\ done = 0 /\ attempt = 0
    /\ lastLSN = 0 /\ disk = 0 /\ exit = "none" /\ faults = 0

\* A fault of this kind happens, within the bound.
Fault(kind) == kind \in Faults /\ faults < MaxFaults /\ faults' = faults + 1

\* The process ends: all its memory is gone.
End(how) ==
    /\ pc' = "down" /\ exit' = how
    /\ stopping' = FALSE /\ shutdownErr' = FALSE
    /\ buffer' = <<>> /\ batch' = <<>> /\ done' = 0 /\ attempt' = 0
    /\ lastLSN' = 0
    /\ replConn' = "nil" /\ lastAckedLSN' = 0 /\ serverTx' = 0
    /\ stream' = "none" /\ cancelled' = FALSE /\ txLSN' = 0 /\ out' = <<>>
    /\ circuit' = "closed" /\ consecutiveFailures' = 0 /\ cooled' = FALSE
    /\ UNCHANGED <<confirmed, start, next, cloud, cloudUp, disk>>

-----------------------------------------------------------------------------
(* Run, up to the loop.                                                    *)

\* Load the state file.
Start ==
    /\ pc = "down"
    /\ pc' = "connect" /\ exit' = "none" /\ sig' = FALSE
    /\ lastLSN' = disk
    /\ UNCHANGED <<subscriberVars, publisherVars, breakerVars, stopping,
                   shutdownErr, buffer, batch, done, attempt, disk, faults>>

\* The state file cannot be read: Run returns before it connects.
LoadFails ==
    /\ pc = "down"
    /\ Fault("disk")
    /\ exit' = "error" /\ sig' = FALSE
    /\ UNCHANGED <<subscriberVars, publisherVars, breakerVars, pc, stopping,
                   shutdownErr, buffer, batch, done, attempt, lastLSN, disk>>

\* SignalAwareRun's context is the one Connect and Subscribe run under.
CtxDone == SignalAware /\ sig

\* retry.Do without a limit: a failed attempt changes nothing.
RunConnect ==
    /\ pc = "connect" /\ ~CtxDone
    /\ Connect
    /\ pc' = "subscribe"
    /\ UNCHANGED <<publisherVars, breakerVars, stopping, sig, shutdownErr,
                   buffer, batch, done, attempt, lastLSN, disk, exit, faults>>

RunSubscribe ==
    /\ pc = "subscribe" /\ ~CtxDone
    /\ Subscribe
    /\ pc' = "loop"
    /\ UNCHANGED <<publisherVars, breakerVars, stopping, sig, shutdownErr,
                   buffer, batch, done, attempt, lastLSN, disk, exit, faults>>

\* Subscribe returns an error, on a link that has dropped for one, and so does
\* Run, without closing anything.
SubscribeFails ==
    /\ pc = "subscribe"
    /\ \/ replConn = "broken" /\ UNCHANGED faults
       \/ Fault("subscribe")
    /\ End("error") /\ UNCHANGED sig

\* The context is cancelled while Connect is retried or Subscribe works.
RunAborted ==
    /\ pc \in {"connect", "subscribe"} /\ CtxDone
    /\ End("error") /\ UNCHANGED <<sig, faults>>

-----------------------------------------------------------------------------
(* loop.                                                                   *)

\* case event, ok := <-eventCh
Consume ==
    /\ pc = "loop" /\ out # <<>>
    /\ buffer' = Append(buffer, Head(out))
    /\ out' = Tail(out)
    /\ pc' = IF Len(buffer') >= BatchSize THEN "flush" ELSE "loop"
    /\ UNCHANGED <<publisherVars, breakerVars, confirmed, start, next,
                   serverTx, replConn, lastAckedLSN, stream, cancelled, txLSN,
                   stopping, sig, shutdownErr, batch, done, attempt, lastLSN,
                   disk, exit, faults>>

\* case <-ticker.C, with something to flush
Tick ==
    /\ pc = "loop" /\ buffer # <<>>
    /\ pc' = "flush"
    /\ UNCHANGED <<subscriberVars, publisherVars, breakerVars, stopping, sig,
                   shutdownErr, buffer, batch, done, attempt, lastLSN, disk,
                   exit, faults>>

\* case <-ctx.Done(), or the channel is closed and drained
LoopShutdown ==
    /\ pc = "loop"
    /\ sig \/ (stream = "done" /\ out = <<>>)
    /\ stopping' = TRUE
    /\ pc' = "flush"
    /\ UNCHANGED <<subscriberVars, publisherVars, breakerVars, sig,
                   shutdownErr, buffer, batch, done, attempt, lastLSN, disk,
                   exit, faults>>

-----------------------------------------------------------------------------
(* flush.                                                                  *)

\* flush returns, to the loop or to shutdownWork.
FlushReturns(err) ==
    /\ pc' = IF stopping THEN "final" ELSE "loop"
    /\ shutdownErr' = (shutdownErr \/ (stopping /\ err))
    /\ UNCHANGED <<stopping, sig, exit>>

FlushEmpty ==
    /\ pc = "flush" /\ buffer = <<>>
    /\ FlushReturns(FALSE)
    /\ UNCHANGED <<subscriberVars, publisherVars, breakerVars, buffer, batch,
                   done, attempt, lastLSN, disk, faults>>

\* Mutation of FlushDenied: the batch is not put back.
FlushDeniedDropping ==
    /\ pc = "flush" /\ buffer # <<>> /\ ~Allowed
    /\ buffer' = <<>>
    /\ FlushReturns(TRUE)
    /\ UNCHANGED <<subscriberVars, publisherVars, breakerVars, batch, done,
                   attempt, lastLSN, disk, faults>>

\* Allow() is false: the batch goes back into the buffer it came from.
FlushDenied ==
    /\ pc = "flush" /\ buffer # <<>> /\ ~Allowed
    /\ FlushReturns(TRUE)
    /\ UNCHANGED <<subscriberVars, publisherVars, breakerVars, buffer, batch,
                   done, attempt, lastLSN, disk, faults>>

FlushBegin ==
    /\ pc = "flush" /\ buffer # <<>>
    /\ Allow
    /\ batch' = buffer /\ buffer' = <<>>
    /\ pc' = "publish"
    /\ UNCHANGED <<subscriberVars, publisherVars, stopping, sig, shutdownErr,
                   done, attempt, lastLSN, disk, exit, faults>>

\* One transaction of Publish; after the last one Publish returns nil.
PublishChunk ==
    /\ pc = "publish"
    /\ LET chunk == Chunk(batch, done) IN
       /\ CommitChunk(chunk)
       /\ IF done + Len(chunk) < Len(batch)
          THEN /\ done' = done + Len(chunk)
               /\ UNCHANGED <<pc, attempt, breakerVars>>
          ELSE /\ done' = 0 /\ attempt' = 0
               /\ pc' = "ack"
               /\ RecordSuccess
    /\ UNCHANGED <<subscriberVars, stopping, sig, shutdownErr, buffer, batch,
                   lastLSN, disk, exit, faults>>

\* Publish returned an error: retry.Do starts again from the first event, or
\* gives up, and flush puts the batch back in front of the buffer.
PublishError ==
    /\ done' = 0
    /\ IF attempt + 1 < MaxAttempts
       THEN /\ attempt' = attempt + 1
            /\ UNCHANGED <<pc, stopping, sig, shutdownErr, buffer, batch, exit,
                           breakerVars>>
       ELSE /\ attempt' = 0
            /\ RecordFailure
            /\ buffer' = batch \o buffer /\ batch' = <<>>
            /\ FlushReturns(TRUE)
    /\ UNCHANGED <<subscriberVars, lastLSN, disk>>

\* Mutation of PublishFails: Publish goes on with the chunk after a failed one.
PublishFailsSkipping ==
    /\ pc = "publish"
    /\ ChunkFails(Chunk(batch, done))
    /\ IF done + PublishBatch < Len(batch)
       THEN /\ done' = done + PublishBatch
            /\ UNCHANGED <<subscriberVars, breakerVars, pc, stopping, sig,
                           shutdownErr, buffer, batch, attempt, lastLSN, disk,
                           exit>>
       ELSE PublishError
    /\ UNCHANGED faults

PublishFails ==
    /\ pc = "publish"
    /\ ChunkFails(Chunk(batch, done))
    /\ PublishError
    /\ UNCHANGED faults

\* Commit takes effect but its answer is lost: Publish sees a failure.
CommitUnknown ==
    /\ pc = "publish"
    /\ Fault("commit")
    /\ CommitChunk(Chunk(batch, done))
    /\ PublishError

\* Mutation of MaxLSN: the position after the transaction, not its commit LSN.
MaxLSNPastEnd(events) ==
    1 + CHOOSE m \in {events[i].LSN : i \in DOMAIN events} :
            \A i \in DOMAIN events : events[i].LSN <= m

\* The highest LSN in the batch.
MaxLSN(events) ==
    CHOOSE m \in {events[i].LSN : i \in DOMAIN events} :
        \A i \in DOMAIN events : events[i].LSN <= m

FlushAck ==
    /\ pc = "ack"
    /\ Acknowledge(MaxLSN(batch))
    /\ lastLSN' = MaxLSN(batch)
    /\ pc' = "save"
    /\ UNCHANGED <<start, next, serverTx, replConn, stream, cancelled, txLSN,
                   out, publisherVars, breakerVars, stopping, sig,
                   shutdownErr, buffer, batch, done, attempt, disk, exit,
                   faults>>

\* stateStore.Save: a failure leaves the file as it was.
Save == disk' = lastLSN /\ UNCHANGED faults
SaveFails == Fault("disk") /\ UNCHANGED disk

\* A failed save is logged only.
FlushSave ==
    /\ pc = "save"
    /\ Save \/ SaveFails
    /\ batch' = <<>>
    /\ FlushReturns(FALSE)
    /\ UNCHANGED <<subscriberVars, publisherVars, breakerVars, buffer, done,
                   attempt, lastLSN>>

-----------------------------------------------------------------------------
(* shutdown.                                                               *)

\* Mutation of FinalSave: the subscriber is closed before the state is saved.
FinalSaveClosing ==
    /\ pc = "final"
    /\ Save /\ Close
    /\ pc' = "close"
    /\ UNCHANGED <<publisherVars, breakerVars, stopping, sig, shutdownErr,
                   buffer, batch, done, attempt, lastLSN, exit>>

FinalSave ==
    /\ pc = "final"
    /\ \/ Save /\ UNCHANGED shutdownErr
       \/ SaveFails /\ shutdownErr' = TRUE
    /\ pc' = "close"
    /\ UNCHANGED <<subscriberVars, publisherVars, breakerVars, stopping, sig,
                   buffer, batch, done, attempt, lastLSN, exit>>

CloseSubscriber ==
    /\ pc = "close"
    /\ Close
    /\ pc' = "closing"
    /\ UNCHANGED <<publisherVars, breakerVars, stopping, sig, shutdownErr,
                   buffer, batch, done, attempt, lastLSN, disk, exit, faults>>

\* Close has waited for the stream (or for 5 seconds) and closes the
\* connection, which may fail: Run returns.
RunReturns ==
    /\ pc = "closing"
    /\ \/ stream = "done" /\ UNCHANGED faults
       \/ stream # "done" /\ Fault("timeout")
    /\ \/ ~shutdownErr /\ End("clean")
       \/ End("error")
    /\ UNCHANGED sig

\* shutdownTimeout passes while shutdownWork is still busy.
ShutdownTimeout ==
    /\ stopping
    /\ Fault("timeout")
    /\ End("timeout") /\ UNCHANGED sig

-----------------------------------------------------------------------------
(* The environment.                                                        *)

\* A signal before Run has installed its handler kills the process.
Signal ==
    /\ pc # "down" /\ ~sig
    /\ Fault("sigterm")
    /\ sig' = TRUE
    /\ IF ~SignalAware /\ pc \in {"connect", "subscribe"}
       THEN End("crash")
       ELSE /\ cancelled' = (cancelled \/ (SignalAware /\ stream # "none"))
            /\ UNCHANGED <<confirmed, start, next, serverTx, replConn,
                           lastAckedLSN, stream, txLSN, out, publisherVars,
                           breakerVars, pc, stopping, shutdownErr, buffer,
                           batch, done, attempt, lastLSN, disk, exit>>

Crash ==
    /\ pc # "down"
    /\ Fault("crash")
    /\ End("crash") /\ UNCHANGED sig

Panic ==
    /\ NilDereference
    /\ End("panic") /\ UNCHANGED <<sig, faults>>

LinkBreaks ==
    /\ replConn = "open"
    /\ Fault("link")
    /\ replConn' = "broken"
    /\ UNCHANGED <<confirmed, start, next, serverTx, lastAckedLSN, stream,
                   cancelled, txLSN, out, publisherVars, breakerVars, pc,
                   stopping, sig, shutdownErr, buffer, batch, done, attempt,
                   lastLSN, disk, exit>>

CloudDown ==
    /\ cloudUp
    /\ Fault("cloud")
    /\ cloudUp' = FALSE
    /\ UNCHANGED <<cloud, subscriberVars, breakerVars, pc, stopping, sig,
                   shutdownErr, buffer, batch, done, attempt, lastLSN, disk,
                   exit>>

CloudRecovers ==
    /\ ~cloudUp
    /\ cloudUp' = TRUE
    /\ UNCHANGED <<cloud, subscriberVars, breakerVars, engineVars>>

IntervalPasses ==
    BreakerCools /\ UNCHANGED <<subscriberVars, publisherVars, engineVars>>

StreamStep ==
    ConsumeStream /\ UNCHANGED <<publisherVars, breakerVars, engineVars>>

-----------------------------------------------------------------------------
Startup == Start \/ RunConnect \/ RunSubscribe \/ SubscribeFails \/ RunAborted

Flush == \/ FlushEmpty \/ FlushDenied \/ FlushBegin \/ PublishChunk
         \/ PublishFails \/ FlushAck \/ FlushSave

Shutdown == FinalSave \/ CloseSubscriber \/ RunReturns

Next ==
    \/ Startup \/ LoadFails
    \/ Consume \/ Tick \/ LoopShutdown
    \/ Flush \/ CommitUnknown
    \/ Shutdown \/ ShutdownTimeout
    \/ StreamStep
    \/ Signal \/ Crash \/ Panic \/ LinkBreaks \/ CloudDown \/ CloudRecovers
    \/ IntervalPasses

Spec == Init /\ [][Next]_vars

\* Fairness.  Steps of the two goroutines do not stall.  Where Go's select
\* chooses among ready cases it chooses at random, so a case that is ready
\* again and again is taken: strong fairness of the cases of loop.  The slot
\* sends its data however many keepalives it sends in between.  The process
\* is restarted, outages end and the breaker's interval passes.
Fairness ==
    /\ WF_vars(Startup)
    /\ SF_vars(Consume) /\ SF_vars(Tick) /\ SF_vars(LoopShutdown)
    /\ WF_vars(Flush) /\ WF_vars(Shutdown)
    /\ WF_vars(StreamStep) /\ WF_vars(Panic)
    /\ SF_vars(RecvData /\ UNCHANGED <<publisherVars, breakerVars, engineVars>>)
    /\ WF_vars(CloudRecovers) /\ WF_vars(IntervalPasses)

FairSpec == Spec /\ Fairness
-----------------------------------------------------------------------------
(* Properties.                                                             *)

\* Events the process holds: in the channel, the buffer or a taken batch.
InFlight == Ids(out) \cup Ids(buffer) \cup Ids(batch)

\* Changes nobody will deliver any more: the slot has moved past them, the
\* cloud does not have them and no running process holds them.
Lost == {e \in Event : Lsn[e] < confirmed /\ e \notin cloud \cup InFlight}

\* Within a stream the cloud never has a change without all the earlier ones:
\* chunked commits, retries, the requeue after a failed flush and redelivery
\* after a restart never skip an event (flush and Publish).
NoHoleInSession ==
    \A e \in cloud : \A d \in start..(e - 1) : d \in cloud

\* The positions the engine itself reports never run ahead of the cloud: when
\* flush is about to acknowledge a batch, and in the LastLSN it keeps in
\* memory and in the state file, every change of the stream whose LSN lies
\* strictly below the position is applied.  A batch may end in the middle of
\* a transaction, so this rests on the position being the commit LSN itself
\* and on the slot keeping transactions that are not strictly below it.
PositionCovered ==
    \A e \in start..NEvents :
        /\ Lsn[e] < lastLSN => e \in cloud
        /\ Lsn[e] < disk => e \in cloud
        /\ pc = "ack" /\ Lsn[e] < MaxLSN(batch) => e \in cloud

\* A probe is always settled: the breaker is half-open only while the flush
\* that Allow() let through is publishing.  Allow() refuses everybody in the
\* half-open state, so a flush that returned without recording its outcome
\* would stop replication for good.
ProbeSettled == circuit = "half-open" => pc = "publish"

\* Close clears replConn under the mutex and consumeStream reads it without:
\* the nil dereference this race allows can only end a process that is already
\* waiting for the stream in Close, after the last flush and the last save.
NilOnlyWhileClosing == NilDereference => pc = "closing"

ProcessEnds == pc # "down" /\ pc' = "down"

\* While the process lives no step loses a change, although COMMIT is
\* acknowledged before its events are flushed: every event that the slot has
\* moved past stays in the channel, the buffer or the batch until it is
\* applied, through every failed, denied and repeated flush.
NoLossWhileRunning == [][ProcessEnds \/ Lost' \subseteq Lost]_vars

Delivery == INSTANCE InOrderDelivery WITH from <- start, applied <- cloud

\* The engine implements in-order delivery (InOrderDelivery): what a flush
\* commits always extends the prefix that began where the stream resumed.
ImplementsInOrderDelivery == Delivery!Spec

\* Every change that is not lost is eventually applied and stays applied:
\* outages end, the breaker closes again, requeued batches are flushed.
EventuallyReplicated == <>[](Event \subseteq cloud \cup Lost)

\* A signal ends the process, whatever flush, breaker and stream are doing.
ShutdownCompletes == sig ~> pc = "down"

\* No change is acknowledged to the slot and then lost (requirement 14.6).
NoAckedEventLost == Lost = {}

-----------------------------------------------------------------------------
(* Why the safety properties hold: the inductive invariant.                *)

\* The first event that is neither out of the pipeline nor before it.
Base == next - Len(out) - Len(buffer) - Len(batch)

\* s holds the consecutive events from b on, each stamped with its LSN.
Consecutive(s, b) ==
    \A i \in 1..Len(s) : s[i].id = b + i - 1 /\ s[i].LSN = Lsn[b + i - 1]

\* What each stage of the process has in memory.
Stages ==
    /\ (pc \in {"down", "connect", "subscribe"}) <=> (stream = "none")
    /\ stream = "none" =>
          /\ out = <<>> /\ buffer = <<>> /\ txLSN = 0 /\ serverTx = 0
          /\ lastAckedLSN = 0
    /\ pc = "down" => replConn = "nil" /\ lastLSN = 0
    /\ (pc \in {"publish", "ack", "save"}) <=> (batch # <<>>)
    /\ pc # "publish" => done = 0
    /\ pc = "publish" => done < Len(batch)

\* Batch, buffer and channel, in this order, are a window of consecutive
\* events that ends where the slot is about to send, and everything between
\* the point of resumption and the window is applied; so is the part of the
\* batch that the current attempt has committed.
Window ==
    /\ Base >= start
    /\ Consecutive(batch, Base)
    /\ Consecutive(buffer, Base + Len(batch))
    /\ Consecutive(out, next - Len(out))
    /\ stream # "none" => start..(Base + done - 1) \subseteq cloud
    /\ pc \in {"ack", "save"} => start..(Base + Len(batch) - 1) \subseteq cloud

\* The slot has moved past everything before the point of resumption, and no
\* event still to be sent is below the transaction being received.
SlotPosition ==
    /\ \A e \in 1..(start - 1) : Lsn[e] < confirmed
    /\ replConn = "open" => lastAckedLSN <= confirmed
    /\ \A e \in next..NEvents : txLSN <= Lsn[e]
    /\ serverTx # 0 => serverTx = txLSN
    /\ stream = "emit" => next <= NEvents /\ txLSN = Lsn[next]

\* Together with the two properties that it proves this is inductive.
IInv ==
    /\ TypeOK /\ Stages /\ Window /\ SlotPosition
    /\ NoHoleInSession /\ PositionCovered
=============================================================================
