----------------------------- MODULE Publisher ------------------------------
(***************************************************************************)
(* internal/replication/publisher.go.  Publish splits a batch into chunks  *)
(* of PublishBatch events and applies each chunk in a transaction of its   *)
(* own, so a batch can be applied in part.  The cloud database is the set  *)
(* of changes applied to it at least once.                                 *)
(*                                                                         *)
(* INSERT is plain: repeating it on a key that is there fails.  UPDATE and *)
(* DELETE may be repeated.  buildDML refuses the events of Invalid (an     *)
(* unsafe identifier, an empty row, an unknown operation), always.         *)
(***************************************************************************)
EXTENDS ChangeEvents

CONSTANTS PublishBatch,   \* Publisher.batchSize
          Inserts,        \* inserts of a key that no later change removes
          Invalid         \* events that buildDML rejects

ASSUME PublisherAssumption ==
    /\ PublishBatch \in Nat \ {0}
    /\ Inserts \subseteq Event
    /\ Invalid \subseteq Event

VARIABLES cloud,     \* changes applied to the cloud database
          cloudUp    \* the cloud database answers

publisherVars == <<cloud, cloudUp>>

PublisherTypeOK ==
    /\ cloud \subseteq Event
    /\ cloudUp \in BOOLEAN

PublisherInit == cloud = {} /\ cloudUp = TRUE

\* Mutation of Chunk: an off-by-one in the lower bound of the slice.
ChunkOffByOne(events, done) ==
    SubSeq(events, done + 2,
           IF done + PublishBatch > Len(events) THEN Len(events)
                                                ELSE done + PublishBatch)

\* events[start:end] for start = done.
Chunk(events, done) ==
    SubSeq(events, done + 1,
           IF done + PublishBatch > Len(events) THEN Len(events)
                                                ELSE done + PublishBatch)

\* Every statement of the chunk is built and executes.
Applies(chunk) ==
    \A i \in DOMAIN chunk :
        /\ chunk[i].id \notin Invalid
        /\ chunk[i].id \in Inserts => chunk[i].id \notin cloud

\* BeginTx, every Exec and Commit succeed.
CommitChunk(chunk) ==
    /\ cloudUp
    /\ Applies(chunk)
    /\ cloud' = cloud \cup Ids(chunk)
    /\ UNCHANGED cloudUp

\* Some call returns an error before Commit has taken effect: rolled back.
ChunkFails(chunk) ==
    /\ ~cloudUp \/ ~Applies(chunk)
    /\ UNCHANGED publisherVars
=============================================================================
