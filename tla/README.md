# TLA+ specification of the state-sync engine

The repository replicates a local PostgreSQL database to a cloud copy and decides, with a lock
object in Google Cloud Storage, which side is the active writer. This directory holds TLA+ models of
its core, the TLC runs that check them on small instances, and theorems that TLAPS proves for every
value of the constants. Paths below are relative to `state-sync-engine/`.

## The system

| Part | State it keeps | Operations | Talks to |
|---|---|---|---|
| Engine (`internal/engine/engine.go`) | buffer, replication state, breaker | `Run`, `loop`, `flush`, `shutdown` | all of the next five |
| Subscriber (`internal/replication/subscriber.go`) | connection, last acknowledged LSN, relations; a goroutine `consumeStream` | `Connect`, `Subscribe`, `Acknowledge`, `Close` | PostgreSQL slot; a 256-event channel to the engine |
| Publisher (`internal/replication/publisher.go`) | connection pool | `Publish`, `HealthCheck` | cloud database |
| Circuit breaker (`internal/retry/circuitbreaker.go`) | state, failure count, time of last failure | `Allow`, `RecordSuccess`, `RecordFailure` | - |
| Retry (`internal/retry/backoff.go`) | - | `Do`, `Delay` | whatever it retries |
| State store (`internal/state/state.go`) | one JSON file | `Save`, `Load` | file system |
| Lock (`internal/lock/gcslock.go`) | one GCS object: holder, expiry | `Acquire`, `Renew`, `Release`, `GetHolder` | GCS |
| Failover manager (`internal/failover/failover.go`) | active node | periodic `check` | lock, coordinator, publisher |
| Coordinator (`internal/coordinator/coordinator.go`) | - (the database's read-only default) | `SetReadOnly`, `SetReadWrite`, `GetState` | local database |
| Servers, configuration, metrics, logging, `cmd/` | - | HTTP read-outs, loading, output | - |

What makes each part correct, and what is hard about it:

* **Engine, subscriber, publisher.** Changes must reach the cloud in order, none skipped, and a
  position may be acknowledged or saved only when the cloud has what lies before it. Hard: two
  goroutines, a bounded channel, batches that end inside a transaction, publishes that are applied in
  part or whose answer is lost, retries that start over, requeueing, signals, crashes and redelivery.
* **Breaker.** It must open, probe and close again, and never wait for a probe that nobody makes.
* **Lock.** At most one node holds an unexpired lease; a dead holder is replaced. Hard: every
  operation is several requests, requests of other nodes fall in between, every node has a clock of its
  own, and no caller is told when its lease ends.
* **Row changes.** A statement built from a change must do to the cloud's table what the change did to
  the source. Hard: NULLs, changed keys, long values that are not sent, old rows that are missing or
  incomplete, tables without a key, TRUNCATE, changes that are applied twice.
* **State store.** The file must stay readable and never be ahead of the cloud. Hard: every system call
  of `Save` can fail, and the process or the machine can stop between any two.
* **Failover, coordinator.** The local database must be read-only while the cloud is active and
  writable again afterwards. Hard: a check is a dozen remote calls that act on a holder read at its
  beginning, every call can fail before or after its effect, and PostgreSQL applies a new default to
  later sessions only.

`PROJECT.json` lists the components, the lines each definition models, and the hazards one by one.

## Modules

| Module | Models |
|---|---|
| `ChangeEvents` | the stream of row changes: an event is its number, `Lsn` gives its transaction's final LSN |
| `CircuitBreaker` | the breaker; time is the one test "the retry interval has passed" (`cooled`) |
| `Publisher` | `Publish`: slices of `PublishBatch` events, one transaction each; the cloud is the set of changes applied |
| `Subscriber` | the subscriber's methods, `consumeStream`, and the server's side of the slot |
| `Engine` | the three above composed with `engine.go` and the life of the process |
| `InOrderDelivery` | abstract: the copy receives a growing prefix of the stream, counted from where it last resumed |
| `RowApply` | what one change becomes: wire tuples, maps, statement, effect on the cloud's table |
| `StateStore` | `Save` and `Load`, one step per system call |
| `AtomicSave` | abstract: a file that a `Save` replaces in one step, as `Engine` has it |
| `GCSLock` | the lock: one step per GCS request |
| `Coordinator` | the coordinator's statements and the local database with its sessions |
| `Failover` | the failover manager composed with `Coordinator` and a lock that changes at any moment |
| `MCEngine`, `MCRowApply`, `MCStateStore`, `MCGCSLock`, `MCFailover` | instances for TLC |
| `EngineProofs`, `RowApplyProofs`, `StateStoreProofs`, `GCSLockProofs`, `FailoverProofs` | theorems and proofs |

`Engine` looks at the pipeline from above: it takes an event for its identity and a `Save` for one
step. `RowApply` and `StateStore` look inside these two, and that the second implements the one step is
checked and proved (`AtomicSave`). `Failover` takes the lock for an object whose
holder changes arbitrarily, which includes everything `GCSLock` can do to it.

### Engine

`pc` is the engine goroutine: `connect`, `subscribe`, `loop`, then inside `flush` the phases `flush`
(taking the batch, asking the breaker), `publish`, `ack`, `save`, and in `shutdownWork` `final`,
`close`, `closing`. `stopping` says who called `flush`. `stream` is the goroutine `consumeStream`:
`top` of its loop, `recv` (in `ReceiveMessage`), `emit` (in `emitEvent`), `commit` (COMMIT read, not
yet acknowledged), `done` (channel closed). Each phase is one action; its guard is the code's
condition and it makes all of the phase's state changes:

| Code | Actions |
|---|---|
| `Run` | `Start`, `LoadFails`, `RunConnect`, `RunSubscribe`, `SubscribeFails`, `RunAborted` |
| `loop` | `Consume`, `Tick`, `LoopShutdown` |
| `flush` | `FlushEmpty`, `FlushDenied`, `FlushBegin`, `PublishChunk`, `PublishFails`, `CommitUnknown`, `FlushAck`, `FlushSave` |
| `shutdown` | `FinalSave`, `CloseSubscriber`, `RunReturns`, `ShutdownTimeout` |
| `consumeStream` | `ReceiveCall`, `RecvKeepalive`, `RecvBegin`, `RecvChange`, `Emit`, `EmitDropped`, `RecvCommit`, `CommitAck`, `StreamExit`, `Panic` |
| environment | `Signal`, `Crash`, `LinkBreaks`, `CloudDown`, `CloudRecovers`, `IntervalPasses` |

Reading the connection field without the mutex is a data race with `Close`; the model lets the read
find the old connection (`ReceiveCall`) or nil (`Panic`). A link that has dropped between `Connect`
and `Subscribe` makes `Subscribe` fail without any further fault.

What survives the process is the slot's position (`confirmed`), the cloud and the state file
(`disk`). `End` drops the rest, and `Start` is the supervisor or the operator starting it again.
`SignalAware` tells the two entry points apart: under `SignalAwareRun` a signal also cancels the
stream's context; under plain `Run` the handler exists only once `Subscribe` has returned.

External behaviour, taken from how the code uses it: a slot's confirmed position never moves back; on
`START_REPLICATION` the server sends the transactions whose commit LSN is not below it; BEGIN's final
LSN and COMMIT's commit LSN are equal. A plain `INSERT` of a key that is there fails, an `UPDATE` or
`DELETE` may be repeated. `Inserts` are inserts of keys that no later change removes, `Invalid` the
events that `buildDML` rejects.

Left out: rows and statements (`RowApply` has them), counters and timestamps of the
state, delays. A connection attempt that fails and is retried changes nothing and is no step.

### GCSLock

Each node is at one request (`pc`). Only the create request has a precondition. A request may fail
without effect, and a create or an overwrite may take effect and lose its answer. Any number of nodes
may be down at a time.

Times are kept as what is left of them on a reference clock that no node reads:

* `left` of the object's `expires_at` and `exp` of the one a node is about to write. A node stamps it
  and judges it with its own `l.now()`; each such reading is 0 to `MaxSkew` ahead of the reference, a
  different amount each time, so an object may be found expired `MaxSkew` early and found valid until
  the reference reaches its `expires_at`. RFC 3339 drops the fraction of a second, up to `Second - 1`
  ticks (`Expiries`).
* `asked` of the TTL a caller has asked for, and `lease` of the lease it believes it has. `Acquire` and
  `Renew` return no expiry; all their caller can go by is the ttl of its call. The model's caller
  counts it from before the call, at the rate of the reference. One that counts from the return adds
  the duration of the call, for which nothing in the code accounts, and has no guarantee.

That the clocks differ by at most `MaxSkew` is an assumption about the deployment; the code neither
states nor checks it. `Margin = MaxSkew + Second - 1` is what follows: the end of a lease in which its
holder may not be alone. `fresh` and `stale` are history: which nodes' last read is still true of the
object, and whether a delete or overwrite has ever hit an object other than the one its caller read.

### Failover and Coordinator

`at` is the manager's next remote call, `"idle"` between two checks; `seen` is the holder that the
check has read and uses to its end; `after` is where `SetReadOnly` returns to, as it has two callers.
`activeNode` is the code's field. `forgotten` and `behind` are history: the database is read-only and
nothing in the manager remembers to change that; the cloud's application has written something that
the local database lacks. Nothing ever resets `behind`: replication runs from local to cloud, and
`recoverLocal` only asks whether the cloud is reachable before it makes the local database writable.
`check` also provides for a holder that is empty; `GCSLock.GetHolder` reports a missing lock as an
error instead, so that branch is not reached and has no action.

| Code | Actions |
|---|---|
| `check` | `HolderUnknown`, `CheckHolder` (with `HandleCloudActive`, `HandleLocalActive`) |
| `detectSplitBrain` | `DetectSplitBrain`, `DetectFails` |
| `SetReadOnly` | `RoConnect`, `RoAlter`, `RoRefused`, `RoTerminate`, `RoVerify`, `RoFails` |
| `recoverLocal` and `SetReadWrite` | `RecoverLocal`, `RwConnect`, `RwAlter`, `RwRefused`, `RwFails`, `RwVerify`, `RwVerifyFails` |
| `Release`, as `recoverLocal` calls it | `ReleaseRead`, `ReleaseDelete` |
| environment | `LockChanges`, `CloudWrites`, `Restart`, the sessions of the local application (`Application`) |

PostgreSQL's side: the database's `default_transaction_read_only` is what a session starts with. `ALTER
DATABASE` changes it for later sessions only and is refused in a session that started read-only;
`RESET` goes back to the value the session started with, so the verification at the end of both
methods shows the value before the change. A role with a setting of its own is `exempt`; both kinds of
role are checked. The two consequences for the code are that `SetReadOnly` reports failure after
success (its callers only log it) and that `SetReadWrite` fails for an ordinary role.

### RowApply

A row maps columns to values; the columns, their order in the `RELATION` message and in the alphabet,
the key, and the values of each column are constants. A table is a bag of rows. `log` holds the messages with
their tuples as PostgreSQL's replica identity makes them (`full`, `default`, and `keyless` tables);
`ExtractTuple` and `BuildDML` are the code, and a statement keeps the number of each placeholder
beside its column, so that a shifted argument would show. `Exec` is the statement's effect, with SQL's
comparison of NULL; a statement that violates the key fails and is not applied. `Redeliver` moves the
position back, as a restart or an ambiguous commit does. `lossy` records what the code cannot make good: an
old or new image that is incomplete, a row with identical copies, and the repetition of events in a
table without a key or of one that changed a key. `SourceTruncate` empties the source and makes no event,
as `consumeStream` has no case for the message; it is lossy too. `versions` and `reached` are history: the source
before each change, and the furthest that the position has been. `BuildWhereClause` states in closed
form what the code's loop counts: a bound column's number is the number of bound columns up to it.

### StateStore

`file` and `tmp` are the two files, `settled` what a power failure would leave of the first. Each
system call of `Save` is a step that may fail: `MkdirAll` and `WriteFile` end it, a failed `Rename` is
followed by `Remove`, whose error is ignored. `Crash` and `PowerFailure` may come at any point.
Seen through `file`, `settled`, `position` and whether the process lives, all of these steps but the
rename are no steps, and the rename is the `Save` of `AtomicSave`. `powerLost` marks the time after a power failure that met a file not yet written back, the one
case in which `Save`'s promise does not hold: nothing is synced before the rename.

## Runs

Passing:

| Run | Checks | Instance |
|---|---|---|
| `engine_safety` | `TypeOK`, `NoHoleInSession`, `PositionCovered`, `ProbeSettled`, `NilOnlyWhileClosing`, `NoLossWhileRunning`, refinement of `InOrderDelivery` | 4 events in 3 transactions, one of them rejected by `buildDML`, batch and chunk 2, channel 2, any three faults of all eight kinds |
| `engine_recovery` | `EventuallyReplicated`, `ShutdownCompletes` | 3 events, a transaction of two of them, chunks of 1, plain `Run`; any three outages, signals, lost links and crashes |
| `rows_images` | `ConvergesUnlessLossy`, `RowsAreImages` | 4 changes and TRUNCATEs between them, a key column with 2 keys, a nullable column with a short and a long text, the three kinds of table, 2 redeliveries |
| `state_save` | `TypeOK`, `SaveAtomic`, `Restarts`, refinement of `AtomicSave` | 3 positions, four faults of all kinds |
| `lock_lease` | `TypeOK`, `MutexUnlessStale`, `LiveLockKept`, `DeadHolderReplaced` | 2 nodes, TTL 5 ticks, 2 ticks a second, clocks that differ by up to 1 tick: a margin of 2 |
| `failover_modes` | `TypeOK`, `ReadOnlyExplained`, `ModeFollowsHolderRead`, `CloudWins`, `LocalRestored` | 2 cloud nodes, 2 application sessions, both kinds of role, three faults of all kinds |

Violated, each by a behaviour of the code that a document or comment of the repository rules out:

| Run | Property | What happens |
|---|---|---|
| `engine_loss` | `NoAckedEventLost` | COMMIT is acknowledged on receipt; shutdown flushes the buffer but not the channel, and what is in it is lost |
| `engine_redelivery` | `EventuallyReplicated` | the last transaction is sent again after a restart and its inserts fail for ever |
| `rows_identity` | `Converges` | with the default replica identity an UPDATE has no old row; its statement looks for the new one and changes nothing |
| `lock_mutex` | `Mutex` | with perfect clocks and no fraction to drop: an unconditional delete removes a live lock, one that was renewed or created after the read |
| `failover_restore` | `SetReadWriteRestores` | for an ordinary role `SetReadWrite` is refused by the default it is to lift; it is not tried again and the local database stays read-only while its node keeps the lock |
| `failover_cycle` | `SomePromiseKept` | an idle session keeps write access after `SetReadOnly`; the local database becomes writable while it lacks changes of the cloud; a released lock is an error to `check` and the local database stays read-only |

`failover_cycle` is about three promises: `NoWriterAfterSetReadOnly`, `SyncedWhenRestored` and
`WritableUnlessCloudActive`. Its property says that every behaviour keeps at least one of them, so its
counterexample is one failover without any fault that breaks all three, each separately visible in it.
`PROJECT.json` has a finding for each.

`EventuallyReplicated` and `NoAckedEventLost` are complementary: the first exempts changes that are
already lost, the second forbids losing them. `NoLossWhileRunning` is what remains true: losing takes
the end of the process. In the same way `MutexUnlessStale`, `ConvergesUnlessLossy`,
`ReadOnlyExplained` and `LocalRestored` say what remains true beside the violated properties, under
exceptions they name: a request that hit another object than the one read, and the margin of the
clocks; a message without a complete image; a restoration that failed or was forgotten, and cloud
changes that were not brought back. `CloudWins` is about the database's default only, not about the
sessions that are open already, and reads the lock as `check` does, expired or not, although
`docs/design.md:85` has a lock expire.

Four more behaviours to know of, without a run of their own. A dropped replication connection closes
the channel, and the engine takes that for a request to stop and returns success: replication goes on
only because something starts the process again, which `engine_recovery` assumes. And a batch of
several chunks that fails after the first cannot be repeated if that chunk holds inserts; the runs of
liveness therefore have no such inserts, except `engine_redelivery`, which shows the same blockage.
`Close`, which is to shut the stream down "gracefully" (`subscriber.go:168`, `interfaces.go:19`), clears
the connection that `consumeStream` reads without the mutex: the process may panic instead of
returning. `NilOnlyWhileClosing` shows that this comes after the last flush and the last save.
And a TRUNCATE of a replicated table never reaches the cloud, which keeps the rows.

**Bounds.** `NEvents`, `ChanCap`, `BatchSize`, `PublishBatch`, `MaxAttempts`, `FailureThreshold` and
`MaxFaults` are constants. Four events with batches of two make a batch end inside a transaction, give
a batch two chunks after a requeue, fill the channel and leave events behind the batch; three faults
allow an outage or a lost answer, then a crash, then a fault of the next process. Recovery
has a transaction of two events and single-event chunks, so that every fault can fall inside a batch and
inside a transaction. Two nodes are enough for every race of two requests of the lock; more nodes are
covered by the proof. A TTL of 5 leaves a lease three ticks before its margin begins, `Second` of 2
and `MaxSkew` of 1 make the dropped fraction and the difference of the clocks show separately and
together. `Truncates` switches TRUNCATE off in `rows_identity`, whose subject is UPDATE. Two cloud nodes let the lock pass from one to the other in the middle of a
check, and three faults let a call fail, a restart follow and a call of the next check fail. Four row
changes are an insert, a change of key, a change of value and a delete of the same row;
`MaxCopies` of 2 gives identical rows. `faults`, `redeliveries` and the length of
`log` are bounded counters; of these `faults` exists
for the bound's sake only; `consecutiveFailures` saturates at the threshold, which is
all the code compares it with. The proofs do not depend on any of these values.

**Deadlock** is not checked for the engine (the source has finitely many changes, and an idle engine
waits), the rows (the changes come to an end) and the state store (a torn file stops the process for
good). It is checked for the lock and the failover manager.

**Fairness.** Weak fairness of the steps of both goroutines: the Go scheduler does not starve them and
their calls return. Strong fairness of the three cases of `loop`'s select, because Go picks among
ready cases at random. Strong fairness of receiving data, because keepalives do not keep the server
from sending it. The process is started again, outages end, and the retry interval passes. Crashes,
signals, failures and timeouts are never fair. For the lock: time passes, a request is answered or
fails, an idle node tries to acquire the lock (its caller does, again and again; the code has no loop
of its own), and GCS does not for ever fail all creates, all reads or all deletes that are made.
For the failover manager: its ticker keeps firing and its calls return, with an answer or an error
(the code sets no deadline of its own; drivers and TCP do). For the state store: the process is started again.

## Proofs

`EngineProofs` proves, for any number of events, any grouping into transactions, any batch size, chunk
size, channel capacity, retry limit, threshold, and any number and mix of faults:

* `EngineTypeCorrect`, `EngineNeverSkips`, `EnginePositionsCovered` - `TypeOK`, `NoHoleInSession` and
  `PositionCovered` are invariants;
* `EngineLosesNothingWhileRunning` - `NoLossWhileRunning`;
* `EngineImplementsInOrderDelivery` - the refinement;
* `EngineSettlesProbe` - `ProbeSettled`;
* `EngineNilOnlyWhileClosing` - `NilOnlyWhileClosing`.

They rest on the named assumptions of the modules: sizes are positive and LSNs do not decrease along
the stream (`EventsAssumption`, `SubscriberAssumption`, `PublisherAssumption`, `ThresholdAssumption`,
`EngineAssumption`).

None of these properties is inductive. `IInv` adds three things. `Stages`: what the process has in
memory in each phase. `Window`: batch, buffer and channel, in this order, are consecutive events that
end where the slot is about to send, and everything between the point of resumption and the window is
applied. `SlotPosition`: what lies before the point of resumption is below the slot's position, and
nothing still to be sent is below the transaction being received. Consuming, flushing, requeueing and
emitting move events within the window without moving its ends; a commit applies the next piece of it
(`CommitExtendsPrefix`), which is why no hole can arise; and `flush` leaves the window only after all
of the batch is applied. That the highest LSN of a batch is safe to report follows from LSNs being
monotone. For `NoLossWhileRunning`, what is in flight is exactly the window (`InFlightIsWindow`), and
the slot moves only to LSNs that no unsent event is below (`SlotStep`). `ProbeSettled` needs that a
circuit that is not closed has reached the threshold, so that a failed probe opens it again.
`NilOnlyWhileClosing` needs `ConnectionStages`: in which phases the connection exists, and that the
stream has not ended while the engine is in them.

`RowApplyProofs` proves `RowsAreImagesHolds` and `Convergence` - `RowsAreImages` and
`ConvergesUnlessLossy` are invariants - for any columns in any two orders, any key, any values and NULLs,
any kind of table, and any number of changes, copies and redeliveries (`RowAssumption`). The argument
has three layers.

1. Statements. `RankFacts`: the numbers of the bound columns are distinct and are exactly those of the
   arguments. From it `WhereSelects`: a `WHERE` clause holds of a row exactly when the row equals the
   predicate in every column, wherever the NULLs are and however many arguments of `SET` come before;
   and `SetAssigns`: the row that is written is the new one. `ExecImages` draws the conclusion for
   incomplete messages too, which is why `RowsAreImages` needs no exception for lossy ones.
2. One event. `FirstTime`: applied to the version it changed, a complete message makes the next one.
   `ReplayRow`: applied again to a table with a key, a message that changes no key leaves under every
   key what the next version has there, or what was there; in the latter case it was not what the
   message had changed.
3. The invariant `IInv`. That the replica is a version of the source is not inductive: while events are
   repeated it is a mixture of versions. `Tracks` says what is: an event applied for the first time
   finds exactly the version that it changed and, before that, the replica has under every key what
   some version between the event due and the furthest one had there. Once the position has caught up
   these are one version, and a table with a key is known by what it has under every key (`SameTable`).

`GCSLockProofs` proves `LockTypeCorrect`, `LockMutualExclusion` and `LockKeptWhileLive` (`LiveLockKept`)
for any set of nodes, any bound on the difference of their clocks and any TTL of at least a second
(`LockAssumption`). `IInv` says that an `expires_at` about to be written covers what its caller counts
but for the fraction of a second, that a renewal never shortens a lease and, as long as no request has
hit an object its caller had not read, that a lease with more than `Margin` left is backed by the
object, and that what a node read is still true of it. The margin is needed twice: `expires_at` may be
`Second - 1` short of the lease, and another node may find it passed `MaxSkew` early.

`FailoverProofs` proves `FailoverTypeCorrect`, `FailoverReadOnlyExplained` and
`FailoverModeFollowsHolderRead` for any nodes, sessions, roles and faults (`FailoverAssumption`). `IInv` adds
`CheckStages`: although the lock may have changed hands since it was read, during a check `activeNode`
agrees with the holder that was read, read-only is imposed only for another holder and lifted only for
the own one, and the database stays writable between the restoration and the end of the recovery. This
is why the mode is never lost track of but by a failed restoration or a restart, and changes only as
the holder that was read calls for.

`StateStoreProofs` proves `StoreTypeCorrect`, `StoreSaveAtomic` and the refinement
`StoreImplementsAtomicSave` for any positions and faults (`StoreAssumption`). `IInv` adds that a living
process has the file it last saw or saved, that the temporary file is complete and has the position in
memory when it is about to be renamed, and that neither what was saved nor what is
being saved is torn.

Only model-checked: the liveness properties (`EventuallyReplicated`, `ShutdownCompletes`,
`DeadHolderReplaced`, `CloudWins`, `LocalRestored`, `Restarts`), since the prover handles neither
fairness nor `ENABLED`. Every invariant, action property and refinement of the passing runs is proved.
There is no recursive definition in the modules proved about; the count of the rows that an `UPDATE`
matches is a sum over a set, of which the proofs need the cases of no row and of one (`CountNone`,
`CountOne`), as a predicate that is a whole row matches no other.

## Not modelled

* The status and metrics servers: they read snapshots and change nothing. One behaviour of theirs is
  listed as a hazard: the lag they report is set by successful flushes only.
* Configuration, metrics, logging and the command: loading, comparing single fields, output. The
  command starts none of the components yet.
* The length of backoff delays and the counters and timestamps of the replication state.
* Changes of the schema: the relation cache is the fixed list of columns. The server sends the relation
  before the first change of every stream.
* `ensurePublication`: the stream is what the publication sends. An existing publication is used as it
  is, so a table added to the configuration later is not replicated.
* Messages that the subscriber skips. A keepalive or change that fails to parse is passed over
  (`subscriber.go:264-281`), and the transaction it belongs to is acknowledged all the same; a message that is
  no CopyData, such as an error of the server that does not end the connection, is passed over too
  (`subscriber.go:258-261`), and the stream may stall in silence. The server of the model sends
  well-formed messages until the link breaks.
* Terraform and scripts.

`LastLSN` is saved and loaded but the code never resumes from it: resumption is the slot's, and the
model follows the code.

## Plan

Done: the modules above, their runs and proofs. Next, in this order:

1. `Failover` composed with `GCSLock` itself instead of an arbitrary lock, with the manager as one of
   its nodes, to bound how long both sides can write.
2. `Backoff.Delay` and `Config.Validate` as operators against a reference.
