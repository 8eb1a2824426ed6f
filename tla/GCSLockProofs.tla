--------------------------- MODULE GCSLockProofs ----------------------------
(***************************************************************************)
(* The lock's safety for any set of nodes, any TTL, any length of a second *)
(* and any bound on the skew of the clocks: GCSLock's inductive invariant  *)
(* IInv is established, kept by every request, and implies mutual          *)
(* exclusion up to the margin and to stale mutations.                      *)
(***************************************************************************)
EXTENDS GCSLock, TLAPS

\* Initially nobody holds a lease.
LEMMA LockInitial == Init => IInv
<1> SUFFICES ASSUME Init PROVE IInv
    OBVIOUS
<1>0. \A n \in Nodes : pc[n] = "idle" /\ lease[n] = 0
    BY Zenon DEF Init
<1>1. TypeOK
    <2>1. /\ pc \in [Nodes -> {"idle"}] /\ exp \in [Nodes -> {0}]
          /\ asked \in [Nodes -> {0}] /\ lease \in [Nodes -> {0}]
          /\ stale \in BOOLEAN
        BY Zenon DEF Init
    <2>2. 0 \in 0..TTL /\ 0 \in 0..(TTL + MaxSkew)
        BY LockAssumption
    <2>3. /\ holder \in Nodes \cup {Nobody}
          /\ left \in 0..(TTL + MaxSkew)
          /\ fresh \subseteq Nodes
        BY <2>2 DEF Init
    <2> QED
        BY <2>1, <2>2, <2>3 DEF TypeOK
<1>2. LeasesBounded
    BY <1>0 DEF LeasesBounded
<1>3. LeasesBacked
    <2> SUFFICES ASSUME NEW n \in Nodes
                 PROVE  /\ ~(lease[n] > Margin)
                        /\ pc[n] \notin {"delete", "write", "remove"}
        BY DEF LeasesBacked
    <2>1. lease[n] = 0 /\ pc[n] = "idle"
        BY <1>0
    <2> QED
        BY <2>1, LockAssumption DEF Margin
<1> QED
    BY <1>1, <1>2, <1>3 DEF IInv

\* An expires_at written now covers the ttl but for less than a second, on any
\* clock, and exceeds it by no more than the skew.
LEMMA ExpiryRange ==
    \A e \in Expiries : e \in 0..(TTL + MaxSkew) /\ TTL <= e + Second - 1
<1> TAKE e \in Expiries
<1>1. PICK s \in 0..MaxSkew, f \in 0..(Second - 1) : e = TTL + s - f
    BY DEF Expiries
<1> QED
    BY <1>1, LockAssumption

\* Every step of every node, and the passing of time, keeps the types.
LEMMA LockTypes == TypeOK /\ [Next]_vars => TypeOK'
<1> SUFFICES ASSUME TypeOK, [Next]_vars PROVE TypeOK'
    OBVIOUS
<1> USE LockAssumption
    DEF TypeOK, Goto, Leaves, Stamps, Counts, Mutates, HitsOther, Less
<1>1. CASE Tick
    BY <1>1 DEF Tick
<1>2. ASSUME NEW n \in Nodes, Acquire(n) \/ RenewRead(n) PROVE TypeOK'
    BY <1>2, ExpiryRange DEF Acquire, RenewRead
<1>3. ASSUME NEW n \in Nodes, NEW g \in BOOLEAN,
             Created(n, g) \/ RenewWrite(n, g)
      PROVE  TypeOK'
    <2>1. stale' \in BOOLEAN
        BY <1>3, Zenon DEF Created, RenewWrite
    <2>2. lease' \in [Nodes -> 0..TTL]
        BY <1>3 DEF Created, RenewWrite
    <2> QED
        BY <1>3, <2>1, <2>2 DEF Created, RenewWrite
<1>4. ASSUME NEW n \in Nodes, Exists(n) PROVE TypeOK'
    BY <1>4 DEF Exists
<1>5. ASSUME NEW n \in Nodes, ReadExisting(n) PROVE TypeOK'
    BY <1>5, ExpiryRange DEF ReadExisting
<1>6. ASSUME NEW n \in Nodes, DeleteExpired(n) \/ ReleaseDelete(n) PROVE TypeOK'
    <2>1. stale' \in BOOLEAN
        BY <1>6, Zenon DEF DeleteExpired, ReleaseDelete
    <2> QED
        BY <1>6, <2>1, ExpiryRange DEF DeleteExpired, ReleaseDelete
<1>7. ASSUME NEW n \in Nodes, ReleaseRead(n) PROVE TypeOK'
    BY <1>7 DEF ReleaseRead
<1>8. ASSUME NEW n \in Nodes, RequestFails(n) \/ Stop(n) \/ Restart(n)
      PROVE  TypeOK'
    BY <1>8 DEF RequestFails, Stop, Restart
<1>9. CASE UNCHANGED vars
    BY <1>9 DEF vars
<1> QED
    BY <1>1, <1>2, <1>3, <1>4, <1>5, <1>6, <1>7, <1>8, <1>9 DEF Next, Request

\* The second conjunct of the invariant: what is stamped when a request is
\* prepared covers what its caller counts, and time takes from both alike.
LEMMA LockBounded == TypeOK /\ LeasesBounded /\ [Next]_vars => LeasesBounded'
<1> SUFFICES ASSUME TypeOK, LeasesBounded, [Next]_vars PROVE LeasesBounded'
    OBVIOUS
<1> USE LockAssumption
    DEF TypeOK, LeasesBounded, Goto, Leaves, Stamps, Counts, Mutates, HitsOther, Less
<1>1. CASE Tick
    BY <1>1 DEF Tick
<1>2. ASSUME NEW n \in Nodes, Acquire(n) \/ RenewRead(n) PROVE LeasesBounded'
    BY <1>2, ExpiryRange DEF Acquire, RenewRead
<1>3. ASSUME NEW n \in Nodes, NEW g \in BOOLEAN,
             Created(n, g) \/ RenewWrite(n, g)
      PROVE  LeasesBounded'
    BY <1>3 DEF Created, RenewWrite
<1>4. ASSUME NEW n \in Nodes, Exists(n) PROVE LeasesBounded'
    BY <1>4 DEF Exists
<1>5. ASSUME NEW n \in Nodes, ReadExisting(n) PROVE LeasesBounded'
    BY <1>5, ExpiryRange DEF ReadExisting
<1>6. ASSUME NEW n \in Nodes, DeleteExpired(n) \/ ReleaseDelete(n)
      PROVE  LeasesBounded'
    BY <1>6, ExpiryRange DEF DeleteExpired, ReleaseDelete
<1>7. ASSUME NEW n \in Nodes, ReleaseRead(n) PROVE LeasesBounded'
    BY <1>7 DEF ReleaseRead
<1>8. ASSUME NEW n \in Nodes, RequestFails(n) \/ Stop(n) \/ Restart(n)
      PROVE  LeasesBounded'
    BY <1>8 DEF RequestFails, Stop, Restart
<1>9. CASE UNCHANGED vars
    BY <1>9 DEF vars
<1> QED
    BY <1>1, <1>2, <1>3, <1>4, <1>5, <1>6, <1>7, <1>8, <1>9 DEF Next, Request

\* The third conjunct.  Until the first stale mutation an object is changed
\* only by a node that knows it: while a lease has more than Margin left, no
\* clock finds its object expired, and no other node overwrites it.
LEMMA LockBacked ==
    /\ TypeOK /\ LeasesBounded /\ (~stale => LeasesBacked) /\ [Next]_vars
    => (~stale => LeasesBacked)'
<1> SUFFICES ASSUME TypeOK, LeasesBounded, ~stale => LeasesBacked,
                    [Next]_vars, ~stale'
             PROVE  LeasesBacked'
    OBVIOUS
<1>0. ~stale
    BY DEF Next, Request, Tick, Acquire, Created, Exists, ReadExisting,
           DeleteExpired, RenewRead, RenewWrite, ReleaseRead, ReleaseDelete,
           RequestFails, Stop, Restart, HitsOther, vars
<1> USE LockAssumption, <1>0
    DEF TypeOK, LeasesBounded, LeasesBacked, Margin, Goto, Leaves, Stamps, Counts,
        Mutates, HitsOther, Less
<1>1. CASE Tick
    BY <1>1 DEF Tick
<1>2. ASSUME NEW n \in Nodes, Acquire(n) \/ RenewRead(n) PROVE LeasesBacked'
    BY <1>2 DEF Acquire, RenewRead
<1>3. ASSUME NEW n \in Nodes, NEW g \in BOOLEAN, Created(n, g)
      PROVE  LeasesBacked'
    BY <1>3 DEF Created
<1>10. ASSUME NEW n \in Nodes, NEW g \in BOOLEAN, RenewWrite(n, g)
       PROVE  LeasesBacked'
    <2>1. holder = Nobody \/ n \in fresh
        BY <1>10, Zenon DEF RenewWrite
    <2>2. \A m \in Nodes \ {n} : ~(lease[m] > Margin)
        BY <1>10, <2>1 DEF RenewWrite
    <2> QED
        BY <1>10, <2>2 DEF RenewWrite
<1>4. ASSUME NEW n \in Nodes, Exists(n) PROVE LeasesBacked'
    BY <1>4 DEF Exists
<1>5. ASSUME NEW n \in Nodes, ReadExisting(n) PROVE LeasesBacked'
    BY <1>5 DEF ReadExisting, MayBeExpired
<1>6. ASSUME NEW n \in Nodes, DeleteExpired(n) \/ ReleaseDelete(n)
      PROVE  LeasesBacked'
    <2>1. holder = Nobody \/ n \in fresh
        BY <1>6, Zenon DEF DeleteExpired, ReleaseDelete
    <2>2. \A m \in Nodes : ~(lease[m] > Margin)
        BY <1>6, <2>1 DEF DeleteExpired, ReleaseDelete
    <2> QED
        BY <1>6, <2>2 DEF DeleteExpired, ReleaseDelete
<1>7. ASSUME NEW n \in Nodes, ReleaseRead(n) PROVE LeasesBacked'
    BY <1>7 DEF ReleaseRead
<1>8. ASSUME NEW n \in Nodes, RequestFails(n) \/ Stop(n) \/ Restart(n)
      PROVE  LeasesBacked'
    BY <1>8 DEF RequestFails, Stop, Restart
<1>9. CASE UNCHANGED vars
    BY <1>9 DEF vars
<1> QED
    BY <1>1, <1>2, <1>3, <1>4, <1>5, <1>6, <1>7, <1>8, <1>9, <1>10
    DEF Next, Request

\* The inductive invariant holds throughout every execution of the lock.
THEOREM LockInductive == Spec => []IInv
<1>1. IInv /\ [Next]_vars => IInv'
    BY LockTypes, LockBounded, LockBacked DEF IInv
<1> QED
    BY LockInitial, <1>1, PTL DEF Spec

\* Types: in particular no lease outlasts the TTL, and no expires_at the TTL on
\* the fastest clock.
THEOREM LockTypeCorrect == Spec => []TypeOK
<1>1. IInv => TypeOK
    BY DEF IInv
<1> QED
    BY LockInductive, <1>1, PTL

\* Mutual exclusion for every number of nodes, every TTL and every bound on the
\* skew, up to the last Margin of a lease and as long as no delete and no
\* overwrite has hit an object its caller had not read.
THEOREM LockMutualExclusion == Spec => []MutexUnlessStale
<1>1. IInv => MutexUnlessStale
    BY DEF IInv, MutexUnlessStale, LeasesBacked
<1> QED
    BY LockInductive, <1>1, PTL

\* Only a delete takes the object away, and only from a node that has asked
\* for it or whose lock the caller's clock has found expired.
LEMMA TakenAway ==
    ASSUME IInv, [Next]_vars, holder \in Nodes, holder' # holder, ~stale'
    PROVE  left <= MaxSkew \/ pc[holder] = "remove"
<1>1. PICK n \in Nodes :
         DeleteExpired(n) \/ ReleaseDelete(n) \/ \E g \in BOOLEAN : RenewWrite(n, g)
    BY LockAssumption
    DEF Next, Request, Tick, Acquire, Created, Exists, ReadExisting, RenewRead,
        ReleaseRead, RequestFails, Stop, Restart, vars
<1>2. n \in fresh /\ ~stale
    BY <1>1, LockAssumption, Zenon DEF DeleteExpired, ReleaseDelete, RenewWrite, HitsOther
<1>3. LeasesBacked
    BY <1>2 DEF IInv
<1>4. CASE DeleteExpired(n)
    BY <1>2, <1>3, <1>4 DEF DeleteExpired, LeasesBacked
<1>5. CASE ReleaseDelete(n)
    BY <1>2, <1>3, <1>5 DEF ReleaseDelete, LeasesBacked
<1>6. ASSUME NEW g \in BOOLEAN, RenewWrite(n, g)
      PROVE  FALSE
    BY <1>2, <1>3, <1>6 DEF RenewWrite, LeasesBacked
<1> QED
    BY <1>1, <1>4, <1>5, <1>6

\* No lock is taken from its holder before a clock has reached its expires_at,
\* for any number of nodes and any skew, unless a request hits an object that
\* its caller had not read.
THEOREM LockKeptWhileLive == Spec => LiveLockKept
<1>1. IInv /\ [Next]_vars
         => [~stale' /\ holder \in Nodes /\ holder' # holder
                => left <= MaxSkew \/ pc[holder] = "remove"]_vars
    BY TakenAway
<1> QED
    BY <1>1, LockInductive, PTL DEF Spec, LiveLockKept
=============================================================================
