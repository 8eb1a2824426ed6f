------------------------------ MODULE GCSLock -------------------------------
(***************************************************************************)
(* internal/lock/gcslock.go: the lease lock kept as one GCS object.        *)
(*                                                                         *)
(* Acquire, Renew and Release are sequences of GCS requests; each request  *)
(* is a step, so requests of several nodes interleave, and any of them may *)
(* fail, with its effect or without.  Only the create request has a        *)
(* precondition (DoesNotExist): delete and overwrite act on whatever       *)
(* object is there.                                                        *)
(*                                                                         *)
(* Times are kept as what is left of them on a reference clock.  Clocks:   *)
(* every node stamps and judges expires_at with its own l.now(), and every *)
(* such reading is ahead of the reference by anything from 0 to MaxSkew,   *)
(* another amount each time.  expires_at is that reading + TTL in RFC      *)
(* 3339, which drops the fraction of a second.                             *)
(*                                                                         *)
(* Leases: Acquire and Renew do not return expires_at.  All their caller   *)
(* knows is the ttl it asked for, which it counts from before its call.    *)
(***************************************************************************)
EXTENDS Integers

CONSTANTS Nodes,
          TTL,       \* the lease, in ticks
          Second,    \* ticks in a second
          MaxSkew,   \* how far two readings taken at once may differ
          Nobody     \* no lock object

ASSUME LockAssumption ==
    /\ Nobody \notin Nodes
    /\ Second \in Nat \ {0} /\ MaxSkew \in Nat
    /\ TTL \in Nat /\ TTL >= Second

VARIABLES
    holder,   \* the object's holder, Nobody when there is no object
    left,     \* time until the object's expires_at, 0 once it has passed
    pc,       \* the request each node is about to make
    exp,      \* expires_at of the metadata the node is about to write
    asked,    \* what is left of the TTL since the node's caller made its call
    lease,    \* what is left, by its caller's count, of the node's lease
    fresh,    \* nodes that act on the object they have read: it is still there
    stale     \* some delete or overwrite hit an object that was not

vars == <<holder, left, pc, exp, asked, lease, fresh, stale>>

\* Every variable has its type; no lease exceeds the TTL and no
\* expires_at the TTL on the fastest clock.
TypeOK ==
    /\ holder \in Nodes \cup {Nobody}
    /\ left \in 0..(TTL + MaxSkew)
    /\ pc \in [Nodes -> {"idle", "create", "read", "delete", "recreate",
                         "write", "remove", "stopped"}]
    /\ exp \in [Nodes -> 0..(TTL + MaxSkew)]
    /\ asked \in [Nodes -> 0..TTL]
    /\ lease \in [Nodes -> 0..TTL]
    /\ fresh \subseteq Nodes
    /\ stale \in BOOLEAN

Init ==
    /\ holder = Nobody /\ left = 0
    /\ pc = [n \in Nodes |-> "idle"]
    /\ exp = [n \in Nodes |-> 0]
    /\ asked = [n \in Nodes |-> 0]
    /\ lease = [n \in Nodes |-> 0]
    /\ fresh = {}
    /\ stale = FALSE

\* Mutation of Expiries: the fraction of a second is rounded up.
ExpiriesRoundedUp == {TTL + s + f : s \in 0..MaxSkew, f \in 0..(Second - 1)}

\* l.now().Add(ttl).Format(time.RFC3339), as time from the reference's now: s
\* is what the node's clock is ahead, f the fraction of a second.
Expiries == {TTL + s - f : s \in 0..MaxSkew, f \in 0..(Second - 1)}

\* What l.now().Before(expiresAt) may answer on a node's clock.
MayBeExpired == left <= MaxSkew
MayBeValid == left > 0

Goto(n, label) == pc' = [pc EXCEPT ![n] = label]

\* n stamps the metadata it will write.
Stamps(n) == \E e \in Expiries : exp' = [exp EXCEPT ![n] = e]

\* The caller of n's Acquire or Renew starts to count its ttl.
Counts(n) == asked' = [asked EXCEPT ![n] = TTL]

\* n's operation returns (or its process ends), and its locals are gone.
Leaves(n, label) ==
    /\ Goto(n, label)
    /\ exp' = [exp EXCEPT ![n] = 0]
    /\ asked' = [asked EXCEPT ![n] = 0]

\* n changes the object: what every other node has read of it is outdated.
Mutates == fresh' = {}

\* The object n acts on is not the one it read, and there is one.
HitsOther(n) == stale' = (stale \/ (holder # Nobody /\ n \notin fresh))

-----------------------------------------------------------------------------
(* Acquire.                                                                *)

Acquire(n) ==
    /\ pc[n] = "idle"
    /\ Goto(n, "create")
    /\ Stamps(n) /\ Counts(n)
    /\ UNCHANGED <<holder, left, lease, fresh, stale>>

\* tryCreate succeeds; granted is FALSE when the answer is lost.
Created(n, granted) ==
    /\ pc[n] \in {"create", "recreate"} /\ holder = Nobody
    /\ holder' = n /\ left' = exp[n]
    /\ lease' = IF granted THEN [lease EXCEPT ![n] = asked[n]] ELSE lease
    /\ Mutates
    /\ Leaves(n, "idle")
    /\ UNCHANGED stale

\* 412: the first tryCreate goes on to read the lock, the second gives up.
Exists(n) ==
    /\ holder # Nobody
    /\ \/ /\ pc[n] = "create"
          /\ Goto(n, "read")
          /\ exp' = [exp EXCEPT ![n] = 0]
          /\ UNCHANGED asked
       \/ /\ pc[n] = "recreate"
          /\ Leaves(n, "idle")
    /\ UNCHANGED <<holder, left, lease, fresh, stale>>

\* Mutation of ReadExisting: the expiry is not looked at before deleting.
ReadExistingUnchecked(n) ==
    /\ pc[n] = "read" /\ holder # Nobody
    /\ Goto(n, "delete")
    /\ fresh' = fresh \cup {n}
    /\ UNCHANGED <<holder, left, exp, asked, lease, stale>>

\* Mutation of ReadExisting: an expired lock counts as held.
ReadExistingHeld(n) ==
    /\ pc[n] = "read"
    /\ Leaves(n, "idle")
    /\ UNCHANGED <<holder, left, lease, fresh, stale>>

\* readMeta in Acquire: gone, expired, or still valid.
ReadExisting(n) ==
    /\ pc[n] = "read"
    /\ \/ /\ holder = Nobody
          /\ Goto(n, "recreate")
          /\ Stamps(n)
          /\ UNCHANGED <<asked, fresh>>
       \/ /\ holder # Nobody /\ MayBeExpired
          /\ Goto(n, "delete")
          /\ fresh' = fresh \cup {n}
          /\ UNCHANGED <<exp, asked>>
       \/ /\ holder # Nobody /\ MayBeValid
          /\ Leaves(n, "idle")
          /\ UNCHANGED fresh
    /\ UNCHANGED <<holder, left, lease, stale>>

\* obj.Delete without a precondition, then the second tryCreate.
DeleteExpired(n) ==
    /\ pc[n] = "delete"
    /\ HitsOther(n)
    /\ holder' = Nobody /\ left' = 0
    /\ Mutates
    /\ Goto(n, "recreate")
    /\ Stamps(n)
    /\ UNCHANGED <<asked, lease>>

-----------------------------------------------------------------------------
(* Renew and Release.                                                      *)

\* Renew reads the lock; not found and not the holder change nothing.
RenewRead(n) ==
    /\ pc[n] = "idle" /\ holder = n
    /\ Goto(n, "write")
    /\ Stamps(n) /\ Counts(n)
    /\ fresh' = fresh \cup {n}
    /\ UNCHANGED <<holder, left, lease, stale>>

\* writeMeta replaces, or creates, the object.
RenewWrite(n, granted) ==
    /\ pc[n] = "write"
    /\ HitsOther(n)
    /\ holder' = n /\ left' = exp[n]
    /\ lease' = IF granted THEN [lease EXCEPT ![n] = asked[n]] ELSE lease
    /\ Mutates
    /\ Leaves(n, "idle")

\* Mutation of ReleaseRead: the holder is not compared with the caller.
ReleaseReadAnyones(n) ==
    /\ pc[n] = "idle"
    /\ lease' = [lease EXCEPT ![n] = 0]
    /\ IF holder # Nobody
       THEN /\ Goto(n, "remove")
            /\ fresh' = fresh \cup {n}
       ELSE UNCHANGED <<pc, fresh>>
    /\ UNCHANGED <<holder, left, exp, asked, stale>>

\* Release reads the lock.  The caller has given the lease up.
ReleaseRead(n) ==
    /\ pc[n] = "idle"
    /\ lease' = [lease EXCEPT ![n] = 0]
    /\ IF holder = n
       THEN /\ Goto(n, "remove")
            /\ fresh' = fresh \cup {n}
       ELSE UNCHANGED <<pc, fresh>>
    /\ UNCHANGED <<holder, left, exp, asked, stale>>

ReleaseDelete(n) ==
    /\ pc[n] = "remove"
    /\ HitsOther(n)
    /\ holder' = Nobody /\ left' = 0
    /\ Mutates
    /\ Leaves(n, "idle")
    /\ UNCHANGED lease

-----------------------------------------------------------------------------
(* The environment.                                                        *)

\* A request fails without effect: the operation returns its error.
RequestFails(n) ==
    /\ pc[n] \notin {"idle", "stopped"}
    /\ Leaves(n, "idle")
    /\ fresh' = fresh \ {n}
    /\ UNCHANGED <<holder, left, lease, stale>>

\* The process of n ends, anywhere in an operation; any number may be down.
Stop(n) ==
    /\ pc[n] # "stopped"
    /\ Leaves(n, "stopped")
    /\ lease' = [lease EXCEPT ![n] = 0]
    /\ fresh' = fresh \ {n}
    /\ UNCHANGED <<holder, left, stale>>

Restart(n) ==
    /\ pc[n] = "stopped"
    /\ Goto(n, "idle")
    /\ UNCHANGED <<holder, left, exp, asked, lease, fresh, stale>>

Less(t) == IF t > 0 THEN t - 1 ELSE 0

\* The reference clock, which no node reads, and the callers' counts.
Tick ==
    /\ left' = Less(left)
    /\ exp' = [n \in Nodes |-> Less(exp[n])]
    /\ asked' = [n \in Nodes |-> Less(asked[n])]
    /\ lease' = [n \in Nodes |-> Less(lease[n])]
    /\ UNCHANGED <<holder, pc, fresh, stale>>

Request(n) ==
    \/ Created(n, TRUE) \/ Exists(n) \/ ReadExisting(n) \/ DeleteExpired(n)
    \/ RenewWrite(n, TRUE) \/ ReleaseDelete(n)

Next ==
    \/ Tick
    \/ \E n \in Nodes :
          \/ Acquire(n) \/ RenewRead(n) \/ ReleaseRead(n) \/ Request(n)
          \/ Created(n, FALSE) \/ RenewWrite(n, FALSE)
          \/ RequestFails(n) \/ Stop(n) \/ Restart(n)

Spec == Init /\ [][Next]_vars

\* tryCreate is answered.
TryCreate(n) == Created(n, TRUE) \/ Exists(n)

\* Time passes; a request is answered or fails, and an idle node tries to
\* acquire the lock; and GCS does not always fail the requests of one kind that
\* Acquire makes, if they are made again and again.
Fairness ==
    /\ WF_vars(Tick)
    /\ \A n \in Nodes : WF_vars(Acquire(n) \/ Request(n) \/ RequestFails(n))
    /\ SF_vars(\E n \in Nodes : TryCreate(n))
    /\ SF_vars(\E n \in Nodes : ReadExisting(n))
    /\ SF_vars(\E n \in Nodes : DeleteExpired(n))

FairSpec == Spec /\ Fairness

-----------------------------------------------------------------------------
(* Properties.                                                             *)

\* Two nodes never hold an unexpired lease at the same time: the lock is the
\* "single source of truth" that prevents two active writers.
Mutex == \A m, n \in Nodes : lease[m] > 0 /\ lease[n] > 0 => m = n

\* The end of a lease in which its holder may not be alone: a fast clock finds
\* the object expired MaxSkew early, and expires_at itself is up to a second
\* short of the ttl its caller counts.
Margin == MaxSkew + Second - 1

\* Requests that are lost or half done, crashes, expiry, clocks that differ by
\* up to MaxSkew and expires_at without its fraction never give two nodes a
\* lease that has more than Margin left.  Only a delete or an overwrite that
\* hits an object other than the one its caller had read can (Acquire's delete
\* of an expired lock, Renew's write, Release's delete: none of them names a
\* generation).
MutexUnlessStale ==
    ~stale => \A m, n \in Nodes : lease[m] > Margin /\ lease[n] > Margin => m = n

\* Nobody loses a lock that is not about to expire: with the same exception an
\* object goes away, or changes hands, only when some node's clock may have
\* reached its expires_at, or in its holder's own Release.  This protects also
\* a node that does not know that it holds the lock, because the answer to its
\* create or its renewal was lost.
LiveLockKept ==
    [][~stale' /\ holder \in Nodes /\ holder' # holder
          => left <= MaxSkew \/ pc[holder] = "remove"]_vars

\* A node that has stopped for good does not keep the lock: if another one
\* goes on running, again and again one of the others holds it.
DeadHolderReplaced ==
    \A n \in Nodes :
        /\ <>[](pc[n] = "stopped")
        /\ \E m \in Nodes \ {n} : <>[](pc[m] # "stopped")
        => []<>(holder \in Nodes \ {n})

-----------------------------------------------------------------------------
(* Why MutexUnlessStale holds: the inductive invariant.                    *)

\* expires_at covers what a caller counts but for the fraction of a second,
\* and a renewal never shortens a lease.
LeasesBounded ==
    \A n \in Nodes :
        /\ pc[n] \in {"create", "recreate", "write"}
              => asked[n] <= exp[n] + Second - 1
        /\ pc[n] = "write" => lease[n] <= asked[n]
        /\ pc[n] = "remove" => lease[n] = 0

\* A lease that has more than Margin left is backed by the object, and what a
\* node found when it read the object is still true of the object as long as
\* it is the same one.
LeasesBacked ==
    \A n \in Nodes :
        /\ lease[n] > Margin => holder = n /\ lease[n] <= left + Second - 1
        /\ n \in fresh /\ pc[n] = "delete" => left <= MaxSkew
        /\ n \in fresh /\ pc[n] \in {"write", "remove"} => holder = n

IInv == TypeOK /\ LeasesBounded /\ (~stale => LeasesBacked)
=============================================================================
