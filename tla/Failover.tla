------------------------------ MODULE Failover ------------------------------
(***************************************************************************)
(* internal/failover/failover.go: the manager's periodic check, composed   *)
(* with the coordinator and the local database, and with the lock as the   *)
(* manager sees it: an object whose holder other clients change at any     *)
(* moment (GCSLock says how).                                              *)
(*                                                                         *)
(* A check is a sequence of remote calls; at is the call the manager is    *)
(* about to make.  The holder is read first and used until the check ends. *)
(***************************************************************************)
EXTENDS Integers, Coordinator

CONSTANTS
    Self,       \* the manager's nodeID, the local node
    Others,     \* the node IDs of the cloud side
    Nobody,     \* no lock object
    Exempt,     \* the deployments considered: is the role exempt?
    Faults,     \* the kinds of fault this instance injects
    MaxFaults   \* bound on the faults of a behaviour

ASSUME FailoverAssumption ==
    /\ Self \notin Others /\ Nobody \notin Others \cup {Self}
    /\ Exempt \subseteq BOOLEAN
    /\ Faults \subseteq {"lock", "db", "crash"}
    /\ MaxFaults \in Nat

VARIABLES
    holder,      \* the holder in the lock object, Nobody when there is none
    behind,      \* history: the cloud has changes the local database lacks
    at,          \* the manager's next call, "idle" between two checks
    seen,        \* check: the holder it has read
    after,       \* where SetReadOnly returns to
    activeNode,
    forgotten,   \* history: read-only, and nothing remembers to change it
    faults

cloudVars == <<holder, behind>>
managerVars == <<at, seen, after, activeNode, forgotten>>
vars == <<databaseVars, cloudVars, managerVars, faults>>

LockState == Others \cup {Self, Nobody}

\* Every variable has its type.
TypeOK ==
    /\ DatabaseTypeOK
    /\ holder \in LockState /\ behind \in BOOLEAN /\ seen \in LockState
    /\ at \in {"idle", "roConnect", "roAlter", "roTerminate", "roVerify",
               "recover", "rwConnect", "rwAlter", "rwVerify", "release",
               "delete", "detect"}
    /\ after \in {"idle", "detect"}
    /\ activeNode \in {"local", "cloud"}
    /\ forgotten \in BOOLEAN
    /\ faults \in 0..MaxFaults

\* NewManager, with the local side active.
Init ==
    /\ dflt = "rw" /\ exempt \in Exempt /\ own = "rw"
    /\ conns = [s \in Sessions |-> "closed"] /\ busy = {}
    /\ holder \in LockState /\ behind = FALSE
    /\ at = "idle" /\ seen = Nobody /\ after = "idle"
    /\ activeNode = "local" /\ forgotten = FALSE
    /\ faults = 0

Fault(kind) == kind \in Faults /\ faults < MaxFaults /\ faults' = faults + 1

\* The manager moves on, remembering what it knew.
Goto(label) ==
    /\ at' = label
    /\ UNCHANGED <<seen, after, activeNode, forgotten>>

-----------------------------------------------------------------------------
(* check.                                                                  *)

\* GetHolder fails, or finds no lock (ErrLockNotFound): check returns.
HolderUnknown ==
    /\ at = "idle"
    /\ \/ holder = Nobody /\ UNCHANGED faults
       \/ Fault("lock")
    /\ UNCHANGED <<databaseVars, cloudVars, managerVars>>

\* Mutation of HandleCloudActive: activeNode is not set.
HandleCloudActiveForgetful ==
    IF activeNode = "cloud"
    THEN at' = "detect" /\ UNCHANGED <<after, activeNode, forgotten>>
    ELSE /\ at' = "roConnect" /\ after' = "detect"
         /\ UNCHANGED <<activeNode, forgotten>>

\* Mutation of HandleCloudActive: the holder's name is taken for a node type.
HandleCloudActiveNamed ==
    /\ activeNode' = holder
    /\ at' = "roConnect" /\ after' = "detect"
    /\ forgotten' = FALSE

\* handleCloudActive
HandleCloudActive ==
    IF activeNode = "cloud"
    THEN at' = "detect" /\ UNCHANGED <<after, activeNode, forgotten>>
    ELSE /\ activeNode' = "cloud"
         /\ at' = "roConnect" /\ after' = "detect"
         /\ forgotten' = FALSE

\* Mutation of HandleLocalActive: recoverLocal is not called.
HandleLocalActiveOnly ==
    /\ activeNode' = "local"
    /\ at' = "detect"
    /\ UNCHANGED <<after, forgotten>>

\* handleLocalActive
HandleLocalActive ==
    IF activeNode = "local"
    THEN at' = "detect" /\ UNCHANGED <<after, activeNode, forgotten>>
    ELSE /\ activeNode' = "local"
         /\ at' = "recover"
         /\ UNCHANGED <<after, forgotten>>

\* Mutation of CheckHolder: ErrLockNotFound is not told from another holder.
CheckHolderMissing ==
    /\ at = "idle"
    /\ seen' = holder
    /\ IF holder # Self THEN HandleCloudActive ELSE HandleLocalActive
    /\ UNCHANGED <<databaseVars, cloudVars, faults>>

\* GetHolder returns a holder.  (check also provides for an empty one, which
\* GCSLock.GetHolder never returns: it reports a missing lock as an error.)
CheckHolder ==
    /\ at = "idle" /\ holder # Nobody
    /\ seen' = holder
    /\ IF holder # Self THEN HandleCloudActive ELSE HandleLocalActive
    /\ UNCHANGED <<databaseVars, cloudVars, faults>>

\* Mutation of DetectSplitBrain: it trusts activeNode instead of the holder.
DetectSplitBrainTrusting ==
    /\ at = "detect"
    /\ Connected
    /\ IF activeNode # "cloud" /\ ShownState' = "rw" /\ seen # Self
       THEN at' = "roConnect" /\ after' = "idle"
       ELSE at' = "idle" /\ UNCHANGED after
    /\ UNCHANGED <<dflt, exempt, conns, busy, cloudVars, seen, activeNode,
                   forgotten, faults>>

\* detectSplitBrain: GetState, then perhaps SetReadOnly.
DetectSplitBrain ==
    /\ at = "detect"
    /\ Connected
    /\ IF seen # Self /\ ShownState' = "rw"
       THEN at' = "roConnect" /\ after' = "idle"
       ELSE at' = "idle" /\ UNCHANGED after
    /\ UNCHANGED <<dflt, exempt, conns, busy, cloudVars, seen, activeNode,
                   forgotten, faults>>

DetectFails ==
    /\ at = "detect"
    /\ Fault("db")
    /\ Goto("idle")
    /\ UNCHANGED <<databaseVars, cloudVars>>

-----------------------------------------------------------------------------
(* SetReadOnly.  Its error is logged; handleCloudActive and                *)
(* detectSplitBrain go on either way.                                      *)

RoConnect ==
    /\ at = "roConnect"
    /\ Connected
    /\ Goto("roAlter")
    /\ UNCHANGED <<dflt, exempt, conns, busy, cloudVars, faults>>

RoAlter ==
    /\ at = "roAlter"
    /\ AlterDatabase("ro")
    /\ Goto("roTerminate")
    /\ UNCHANGED <<cloudVars, faults>>

\* Refused: the session is read-only itself.
RoRefused ==
    /\ at = "roAlter" /\ own = "ro"
    /\ Goto(after)
    /\ UNCHANGED <<databaseVars, cloudVars, faults>>

RoTerminate ==
    /\ at = "roTerminate"
    /\ TerminateActive
    /\ Goto("roVerify")
    /\ UNCHANGED <<cloudVars, faults>>

\* Verified or not, the caller only logs.
RoVerify ==
    /\ at = "roVerify"
    /\ Goto(after)
    /\ UNCHANGED <<databaseVars, cloudVars, faults>>

\* A request fails, or the answer to a request that took effect is lost.
RoFails ==
    /\ at \in {"roConnect", "roAlter", "roTerminate"}
    /\ Fault("db")
    /\ \/ UNCHANGED databaseVars
       \/ at = "roAlter" /\ AlterDatabase("ro")
       \/ at = "roTerminate" /\ TerminateActive
    /\ Goto(after)
    /\ UNCHANGED cloudVars

-----------------------------------------------------------------------------
(* recoverLocal.                                                           *)

\* publisher.HealthCheck: whatever it says, recovery goes on, and nothing is
\* copied from the cloud.
RecoverLocal ==
    /\ at = "recover"
    /\ Goto("rwConnect")
    /\ UNCHANGED <<databaseVars, cloudVars, faults>>

RwConnect ==
    /\ at = "rwConnect"
    /\ Connected
    /\ Goto("rwAlter")
    /\ UNCHANGED <<dflt, exempt, conns, busy, cloudVars, faults>>

RwAlter ==
    /\ at = "rwAlter"
    /\ AlterDatabase("rw")
    /\ forgotten' = FALSE
    /\ at' = "rwVerify"
    /\ UNCHANGED <<seen, after, activeNode, cloudVars, faults>>

\* recoverLocal returns on the error of SetReadWrite; activeNode is local.
RecoveryFails ==
    /\ at' = "detect"
    /\ forgotten' = (forgotten \/ dflt' = "ro")
    /\ UNCHANGED <<seen, after, activeNode, cloudVars>>

RwRefused ==
    /\ at = "rwAlter" /\ own = "ro"
    /\ UNCHANGED <<databaseVars, faults>>
    /\ RecoveryFails

RwFails ==
    /\ at \in {"rwConnect", "rwAlter"}
    /\ Fault("db")
    /\ UNCHANGED databaseVars \/ (at = "rwAlter" /\ AlterDatabase("rw"))
    /\ RecoveryFails

\* The session still shows what it started with; anything else is an error.
RwVerify ==
    /\ at = "rwVerify"
    /\ Goto(IF ShownState = "rw" THEN "release" ELSE "detect")
    /\ UNCHANGED <<databaseVars, cloudVars, faults>>

RwVerifyFails ==
    /\ at = "rwVerify"
    /\ Fault("db")
    /\ Goto("detect")
    /\ UNCHANGED <<databaseVars, cloudVars>>

\* lock.Release reads the lock and deletes it if it is the manager's own ...
ReleaseRead ==
    /\ at = "release"
    /\ \/ Goto(IF holder = Self THEN "delete" ELSE "detect") /\ UNCHANGED faults
       \/ Fault("lock") /\ Goto("detect")
    /\ UNCHANGED <<databaseVars, cloudVars>>

\* ... whosever it is by then.
ReleaseDelete ==
    /\ at = "delete"
    /\ \/ holder' = Nobody /\ UNCHANGED faults
       \/ Fault("lock") /\ holder' \in {holder, Nobody}
    /\ Goto("detect")
    /\ UNCHANGED <<databaseVars, behind>>

-----------------------------------------------------------------------------
(* The environment.                                                        *)

\* A client of the lock creates, deletes, takes over or overwrites it.
LockChanges ==
    /\ holder' \in LockState \ {holder}
    /\ UNCHANGED <<databaseVars, behind, managerVars, faults>>

\* The application on the active cloud node writes to the cloud's database.
\* Replication runs from local to cloud only: nothing clears behind again.
CloudWrites ==
    /\ holder \in Others /\ ~behind
    /\ behind' = TRUE
    /\ UNCHANGED <<databaseVars, holder, managerVars, faults>>

\* The process ends between two calls and is started again: NewManager.
Restart ==
    /\ Fault("crash")
    /\ at' = "idle" /\ seen' = Nobody /\ after' = "idle"
    /\ activeNode' = "local"
    /\ forgotten' = (dflt = "ro")
    /\ UNCHANGED <<databaseVars, cloudVars>>

ApplicationStep == Application /\ UNCHANGED <<cloudVars, managerVars, faults>>

-----------------------------------------------------------------------------
\* One step of the manager: the ticker fires, a call returns.
Manager ==
    \/ HolderUnknown \/ CheckHolder
    \/ DetectSplitBrain \/ DetectFails
    \/ RoConnect \/ RoAlter \/ RoRefused \/ RoTerminate \/ RoVerify \/ RoFails
    \/ RecoverLocal \/ RwConnect \/ RwAlter \/ RwRefused \/ RwFails
    \/ RwVerify \/ RwVerifyFails \/ ReleaseRead \/ ReleaseDelete

Next == Manager \/ LockChanges \/ CloudWrites \/ Restart \/ ApplicationStep

Spec == Init /\ [][Next]_vars

\* The manager's ticker keeps firing and its calls return.
FairSpec == Spec /\ WF_vars(Manager)

-----------------------------------------------------------------------------
(* Properties.                                                             *)

Recovering == at \in {"recover", "rwConnect", "rwAlter"}

\* The manager never loses track of the mode it has imposed: a read-only
\* database is one it holds for the cloud, one it is just restoring, or one
\* whose restoration has failed or was interrupted by a restart (activeNode is
\* set before SetReadWrite is tried and lives in memory only).
ReadOnlyExplained ==
    dflt = "ro" => activeNode = "cloud" \/ Recovering \/ forgotten

\* The mode is changed only as the holder read at the beginning of the same
\* check calls for: to read-only for a node of the cloud, to writable for the
\* local node, and never for a lock that was missing or could not be read, or
\* for a holder read before a restart; and activeNode already says so.
ModeFollowsHolderRead ==
    [][dflt' # dflt =>
          \/ dflt' = "ro" /\ seen \in Others /\ activeNode = "cloud"
          \/ dflt' = "rw" /\ seen = Self /\ activeNode = "local"]_vars

\* Once a node of the cloud keeps the lock, the local database's default becomes
\* and stays read-only, through failed calls, restarts and checks that began
\* when the lock was somebody else's (GetHolder, handleCloudActive and
\* detectSplitBrain).  It says nothing of the sessions that are open already.
CloudWins == (\E n \in Others : <>[](holder = n)) => <>[](dflt = "ro")

\* Once the local node keeps the lock and the cloud has no change that the
\* local database lacks, the local database becomes and stays writable, unless
\* restoring it has failed or a restart has forgotten it.
LocalRestored ==
    <>[](holder = Self) => <>[](dflt = "rw" \/ forgotten \/ behind)

-----------------------------------------------------------------------------
(* What the comments and the documents promise of a failover.              *)

\* "SetReadWrite enables writes on the target database": once the local node
\* keeps the lock, recoverLocal makes its database writable.
SetReadWriteRestores == <>[](holder = Self) => <>[](dflt = "rw")

\* After SetReadOnly has terminated the active sessions nobody can write to
\* the local database any more.
NoWriterAfterSetReadOnly ==
    at = "roVerify" => \A s \in Sessions : conns[s] # "rw"

\* Cloud changes are synchronised before the local database is made writable.
SyncedWhenRestored == at = "rwVerify" => ~behind

\* Whenever the cloud does not hold the lock, because the local node does or
\* because nobody does, the local database ends up writable: "We hold the lock
\* or no one does - local is active" (check).
WritableUnlessCloudActive ==
    <>[](holder \notin Others) => <>[](dflt = "rw")

\* Every failover keeps at least one of the three promises: the other writers
\* are fenced off, the cloud's changes are brought back, the database is given
\* back.  A behaviour that refutes this breaks all three of them.
SomePromiseKept ==
    \/ []NoWriterAfterSetReadOnly
    \/ []SyncedWhenRestored
    \/ WritableUnlessCloudActive

-----------------------------------------------------------------------------
(* Why the safety properties hold: the inductive invariant.                *)

SettingReadOnly == at \in {"roConnect", "roAlter", "roTerminate", "roVerify"}
Restoring == Recovering \/ at \in {"rwVerify", "release", "delete"}

\* During a check there is a holder read and activeNode agrees with it; read-only
\* is imposed for another holder and lifted for the own one; between ALTER
\* DATABASE and the end of the recovery the database stays writable.
CheckStages ==
    /\ at # "idle" => seen # Nobody /\ (activeNode = "cloud" <=> seen # Self)
    /\ SettingReadOnly => seen # Self
    /\ Restoring => seen = Self
    /\ at \in {"rwVerify", "release", "delete"} => dflt = "rw"

IInv == TypeOK /\ CheckStages /\ ReadOnlyExplained
=============================================================================
