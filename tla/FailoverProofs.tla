--------------------------- MODULE FailoverProofs ---------------------------
(***************************************************************************)
(* What holds of the failover manager for every set of nodes, application  *)
(* sessions and faults, and however other clients change the lock.         *)
(***************************************************************************)
EXTENDS Failover, TLAPS

\* The initial state satisfies the invariant.
LEMMA InitIInv == Init => IInv
<1> SUFFICES ASSUME Init PROVE IInv
    OBVIOUS
<1>1. TypeOK
    <2>1. DatabaseTypeOK
        BY FailoverAssumption DEF Init, DatabaseTypeOK
    <2>2. faults \in 0..MaxFaults
        BY FailoverAssumption DEF Init
    <2> QED
        BY <2>1, <2>2 DEF Init, TypeOK, LockState
<1>2. CheckStages /\ ReadOnlyExplained
    BY DEF Init, CheckStages, SettingReadOnly, Restoring, Recovering,
        ReadOnlyExplained
<1> QED
    BY <1>1, <1>2 DEF IInv

\* check and detectSplitBrain.
LEMMA CheckStep ==
    ASSUME IInv, HolderUnknown \/ CheckHolder \/ DetectSplitBrain \/ DetectFails
    PROVE  IInv'
<1> USE DEF HolderUnknown, CheckHolder, HandleCloudActive, HandleLocalActive,
        DetectSplitBrain, DetectFails, Connected, ShownState, Goto, Fault,
        databaseVars, cloudVars, managerVars
<1>1. TypeOK'
    <2>1. DatabaseTypeOK'
        BY DEF IInv, TypeOK, DatabaseTypeOK
    <2>2. faults' \in 0..MaxFaults
        BY FailoverAssumption DEF IInv, TypeOK
    <2>3. forgotten' \in BOOLEAN
        BY DEF IInv, TypeOK
    <2> QED
        BY <2>1, <2>2, <2>3 DEF IInv, TypeOK, LockState
<1>2. CheckStages'
    BY DEF IInv, TypeOK, CheckStages, SettingReadOnly, Restoring, Recovering
<1>3. ReadOnlyExplained'
    BY DEF IInv, TypeOK, CheckStages, Restoring, ReadOnlyExplained, Recovering
<1> QED
    BY <1>1, <1>2, <1>3 DEF IInv

\* SetReadOnly.
LEMMA SetReadOnlyStep ==
    ASSUME IInv,
           RoConnect \/ RoAlter \/ RoRefused \/ RoTerminate \/ RoVerify \/ RoFails
    PROVE  IInv'
<1> USE DEF RoConnect, RoAlter, RoRefused, RoTerminate, RoVerify, RoFails,
        Connected, AlterDatabase, TerminateActive, Goto, Fault, databaseVars, cloudVars
<1>1. TypeOK'
    BY FailoverAssumption DEF IInv, TypeOK, DatabaseTypeOK
<1>2. CheckStages'
    BY DEF IInv, TypeOK, CheckStages, SettingReadOnly, Restoring, Recovering
<1>3. ReadOnlyExplained'
    BY DEF IInv, TypeOK, CheckStages, SettingReadOnly, ReadOnlyExplained,
        Recovering
<1> QED
    BY <1>1, <1>2, <1>3 DEF IInv

\* recoverLocal: SetReadWrite and Release.
LEMMA RecoverStep ==
    ASSUME IInv,
           \/ RecoverLocal \/ RwConnect \/ RwAlter \/ RwRefused \/ RwFails
           \/ RwVerify \/ RwVerifyFails \/ ReleaseRead \/ ReleaseDelete
    PROVE  IInv'
<1> USE DEF RecoverLocal, RwConnect, RwAlter, RwRefused, RwFails, RwVerify,
        RwVerifyFails, ReleaseRead, ReleaseDelete, RecoveryFails, Connected,
        AlterDatabase, ShownState, Goto, Fault, databaseVars, cloudVars
<1>1. TypeOK'
    <2>1. DatabaseTypeOK'
        BY DEF IInv, TypeOK, DatabaseTypeOK
    <2>2. faults' \in 0..MaxFaults
        BY FailoverAssumption DEF IInv, TypeOK
    <2>3. forgotten' \in BOOLEAN
        BY DEF IInv, TypeOK
    <2> QED
        BY <2>1, <2>2, <2>3 DEF IInv, TypeOK, LockState
<1>2. CheckStages'
    BY DEF IInv, TypeOK, CheckStages, SettingReadOnly, Restoring, Recovering
<1>3. ReadOnlyExplained'
    BY DEF IInv, TypeOK, CheckStages, Restoring, ReadOnlyExplained, Recovering
<1> QED
    BY <1>1, <1>2, <1>3 DEF IInv

\* Other clients of the lock, restarts and the applications on both sides.
LEMMA EnvironmentStep ==
    ASSUME IInv,
           LockChanges \/ CloudWrites \/ Restart \/ ApplicationStep \/ UNCHANGED vars
    PROVE  IInv'
<1> USE DEF LockChanges, CloudWrites, Restart, ApplicationStep, Application, OpenSession,
        CloseSession, StartStatement, EndStatement, Fault, databaseVars, cloudVars,
        managerVars, vars
<1>1. TypeOK'
    <2>1. DatabaseTypeOK'
        BY DEF IInv, TypeOK, DatabaseTypeOK
    <2>2. faults' \in 0..MaxFaults
        BY FailoverAssumption DEF IInv, TypeOK
    <2>3. forgotten' \in BOOLEAN
        BY DEF IInv, TypeOK
    <2> QED
        BY <2>1, <2>2, <2>3 DEF IInv, TypeOK, LockState
<1>2. CheckStages' /\ ReadOnlyExplained'
    BY DEF IInv, TypeOK, DatabaseTypeOK, CheckStages, SettingReadOnly,
        Restoring, Recovering, ReadOnlyExplained
<1> QED
    BY <1>1, <1>2 DEF IInv

\* Every step keeps the invariant.
LEMMA InductiveStep == IInv /\ [Next]_vars => IInv'
<1> SUFFICES ASSUME IInv, [Next]_vars PROVE IInv'
    OBVIOUS
<1> QED
    BY CheckStep, SetReadOnlyStep, RecoverStep, EnvironmentStep
    DEF Next, Manager

\* The manager's invariant holds in every reachable state.
THEOREM FailoverInductive == Spec => []IInv
<1>1. Init => IInv
    BY InitIInv
<1>2. IInv /\ [Next]_vars => IInv'
    BY InductiveStep
<1> QED
    BY <1>1, <1>2, PTL DEF Spec

\* Every variable has its type.
THEOREM FailoverTypeCorrect == Spec => []TypeOK
<1>1. IInv => TypeOK
    BY DEF IInv
<1> QED
    BY <1>1, FailoverInductive, PTL

\* A read-only local database is held for the cloud, being restored, or left
\* behind by a failed restoration or a restart; nothing else explains it.
THEOREM FailoverReadOnlyExplained == Spec => []ReadOnlyExplained
<1>1. IInv => ReadOnlyExplained
    BY DEF IInv
<1> QED
    BY <1>1, FailoverInductive, PTL

\* Only SetReadOnly and SetReadWrite change the default, in a session that is
\* not read-only itself.
LEMMA ModeStep ==
    ASSUME IInv, [Next]_vars, dflt' # dflt
    PROVE  /\ own = "rw"
           /\ \/ at = "roAlter" /\ dflt' = "ro"
              \/ at = "rwAlter" /\ dflt' = "rw"
<1>1. RoAlter \/ RoFails \/ RwAlter \/ RwFails
    <2>1. ~LockChanges /\ ~CloudWrites /\ ~Restart /\ ~ApplicationStep /\ ~UNCHANGED vars
        BY DEF LockChanges, CloudWrites, Restart, ApplicationStep, Application, OpenSession,
            CloseSession, StartStatement, EndStatement, databaseVars, cloudVars, vars
    <2>2. ~HolderUnknown /\ ~CheckHolder /\ ~DetectSplitBrain /\ ~DetectFails
        BY DEF HolderUnknown, CheckHolder, DetectSplitBrain, DetectFails,
            databaseVars, cloudVars
    <2>3. ~RoConnect /\ ~RoRefused /\ ~RoTerminate /\ ~RoVerify
        BY DEF RoConnect, RoRefused, RoTerminate, RoVerify, TerminateActive,
            databaseVars, cloudVars
    <2>4. /\ ~RecoverLocal /\ ~RwConnect /\ ~RwRefused /\ ~RwVerify
          /\ ~RwVerifyFails /\ ~ReleaseRead /\ ~ReleaseDelete
        BY DEF RecoverLocal, RwConnect, RwRefused, RwVerify, RwVerifyFails,
            ReleaseRead, ReleaseDelete, databaseVars, cloudVars
    <2> QED
        BY <2>1, <2>2, <2>3, <2>4 DEF Next, Manager
<1>2. CASE RoAlter \/ RoFails
    BY <1>2 DEF RoAlter, RoFails, AlterDatabase, TerminateActive, databaseVars, cloudVars
<1>3. CASE RwAlter \/ RwFails
    BY <1>3 DEF RwAlter, RwFails, AlterDatabase, databaseVars, cloudVars
<1> QED
    BY <1>1, <1>2, <1>3

\* However the lock changes hands during a check, and whatever calls fail and
\* processes restart, the mode changes only as the holder read calls for.
THEOREM FailoverModeFollowsHolderRead == Spec => ModeFollowsHolderRead
<1>1. IInv /\ [Next]_vars =>
         [dflt' # dflt =>
             \/ dflt' = "ro" /\ seen \in Others /\ activeNode = "cloud"
             \/ dflt' = "rw" /\ seen = Self /\ activeNode = "local"]_vars
    <2> SUFFICES ASSUME IInv, [Next]_vars, dflt' # dflt
                 PROVE  \/ dflt' = "ro" /\ seen \in Others /\ activeNode = "cloud"
                        \/ dflt' = "rw" /\ seen = Self /\ activeNode = "local"
        OBVIOUS
    <2>1. seen \in Others \cup {Self, Nobody} /\ activeNode \in {"local", "cloud"}
        BY DEF IInv, TypeOK, LockState
    <2>2. CASE at = "roAlter" /\ dflt' = "ro"
        BY <2>1, <2>2 DEF IInv, CheckStages, SettingReadOnly
    <2>3. CASE at = "rwAlter" /\ dflt' = "rw"
        BY <2>1, <2>3 DEF IInv, CheckStages, Restoring, Recovering
    <2> QED
        BY <2>2, <2>3, ModeStep
<1> QED
    BY <1>1, FailoverInductive, PTL DEF Spec, ModeFollowsHolderRead
=============================================================================
