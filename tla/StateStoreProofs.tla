-------------------------- MODULE StateStoreProofs --------------------------
(***************************************************************************)
(* Save is atomic for any positions and any number of faults.              *)
(***************************************************************************)
EXTENDS StateStore, TLAPS

\* Every step keeps the variables in their types.
LEMMA TypeStep == ASSUME TypeOK, [Next]_vars PROVE TypeOK'
<1> USE DEF TypeOK, Content
<1>1. CASE Load \/ SetPosition \/ SaveBegin \/ WriteFile \/ Rename \/ RemoveTmp
    BY <1>1, StoreAssumption
    DEF Load, SetPosition, SaveBegin, WriteFile, Rename, RemoveTmp, SaveFails
<1>2. CASE MkdirFails \/ WriteFileFails \/ RenameFails
    <2>1. faults' \in 0..MaxFaults
        BY <1>2, StoreAssumption
        DEF MkdirFails, WriteFileFails, RenameFails, Fault
    <2> QED
        BY <1>2, <2>1 DEF MkdirFails, WriteFileFails, RenameFails, SaveFails
<1>3. CASE Crash \/ PowerFailure
    <2>1. faults' \in 0..MaxFaults
        BY <1>3, StoreAssumption DEF Crash, PowerFailure, Fault
    <2> QED
        BY <1>3, <2>1, StoreAssumption DEF Crash, PowerFailure, Dies
<1>4. CASE Writeback \/ UNCHANGED vars
    BY <1>4 DEF Writeback, vars
<1> QED
    BY <1>1, <1>2, <1>3, <1>4 DEF Next, Process

\* Every step keeps the invariant.
LEMMA InductiveStep == ASSUME IInv, [Next]_vars PROVE IInv'
<1>1. TypeOK'
    BY TypeStep DEF IInv
<1> USE DEF IInv, TypeOK, SaveAtomic
<1>2. CASE Load \/ SetPosition \/ SaveBegin
    BY <1>1, <1>2, StoreAssumption DEF Load, SetPosition, SaveBegin
<1>3. CASE MkdirFails \/ WriteFile \/ WriteFileFails
    BY <1>1, <1>3 DEF MkdirFails, WriteFile, WriteFileFails, SaveFails
<1>4. CASE Rename \/ RenameFails \/ RemoveTmp
    BY <1>1, <1>4 DEF Rename, RenameFails, RemoveTmp, SaveFails
<1>5. CASE Crash \/ PowerFailure
    BY <1>1, <1>5 DEF Crash, PowerFailure, Dies
<1>6. CASE Writeback \/ UNCHANGED vars
    BY <1>1, <1>6 DEF Writeback, vars
<1> QED
    BY <1>2, <1>3, <1>4, <1>5, <1>6 DEF Next, Process

\* The invariant of the state file holds in every reachable state.
THEOREM StoreInductive == Spec => []IInv
<1>1. Init => IInv
    <2> SUFFICES ASSUME Init PROVE IInv
        OBVIOUS
    <2>1. faults \in 0..MaxFaults
        BY StoreAssumption DEF Init
    <2>2. TypeOK
        BY <2>1, StoreAssumption DEF Init, TypeOK, Content
    <2> QED
        BY <2>2, StoreAssumption DEF Init, IInv, SaveAtomic
<1>2. IInv /\ [Next]_vars => IInv'
    BY InductiveStep
<1> QED
    BY <1>1, <1>2, PTL DEF Spec

\* Every variable has its type.
THEOREM StoreTypeCorrect == Spec => []TypeOK
<1>1. IInv => TypeOK
    BY DEF IInv
<1> QED
    BY <1>1, StoreInductive, PTL

\* Failed calls and the death of the process at any moment of a Save leave the
\* state file as the last or the interrupted Save wrote it.
THEOREM StoreSaveAtomic == Spec => []SaveAtomic
<1>1. IInv => SaveAtomic
    BY DEF IInv
<1> QED
    BY <1>1, StoreInductive, PTL

\* Every system call, failure and crash is a step of AtomicSave or no step.
LEMMA AtomicStep ==
    ASSUME IInv, [Next]_vars
    PROVE  [Atomic!Next]_<<file, settled, mode # "down", position>>
<1> USE DEF IInv, TypeOK
<1>1. CASE Load
    <2>1. Atomic!Start
        BY <1>1 DEF Load, Atomic!Start
    <2> QED
        BY <2>1 DEF Atomic!Next
<1>2. CASE SetPosition
    <2>1. Atomic!Advance
        BY <1>2 DEF SetPosition, Atomic!Advance
    <2> QED
        BY <2>1 DEF Atomic!Next
<1>3. CASE SaveBegin \/ MkdirFails \/ WriteFile \/ WriteFileFails \/ RenameFails \/ RemoveTmp
    BY <1>3 DEF SaveBegin, MkdirFails, WriteFile, WriteFileFails, RenameFails,
        RemoveTmp, SaveFails
<1>4. CASE Rename
    <2>1. Atomic!Save
        BY <1>4 DEF Rename, Atomic!Save
    <2> QED
        BY <2>1 DEF Atomic!Next
<1>5. CASE Writeback
    <2>1. Atomic!Settle
        BY <1>5 DEF Writeback, Atomic!Settle
    <2> QED
        BY <2>1 DEF Atomic!Next
<1>6. CASE Crash
    <2>1. Atomic!End
        BY <1>6 DEF Crash, Dies, Atomic!End
    <2> QED
        BY <2>1 DEF Atomic!Next
<1>7. CASE PowerFailure
    <2>1. Atomic!PowerFails
        BY <1>7 DEF PowerFailure, Dies, Atomic!PowerFails
    <2> QED
        BY <2>1 DEF Atomic!Next
<1>8. CASE UNCHANGED vars
    BY <1>8 DEF vars
<1> QED
    BY <1>1, <1>2, <1>3, <1>4, <1>5, <1>6, <1>7, <1>8 DEF Next, Process

\* Seen from the engine a Save is one step, although it is several system calls
\* and the process may die between any two of them.
THEOREM StoreImplementsAtomicSave == Spec => ImplementsAtomicSave
<1>1. Init => Atomic!Init
    BY DEF Init, Atomic!Init
<1>2. IInv /\ [Next]_vars => [Atomic!Next]_<<file, settled, mode # "down", position>>
    BY AtomicStep
<1> QED
    BY <1>1, <1>2, StoreInductive, PTL DEF Spec, Atomic!Spec, ImplementsAtomicSave
=============================================================================
