----------------------------- MODULE StateStore -----------------------------
(***************************************************************************)
(* internal/state/state.go: Save writes path + ".tmp" and renames it over  *)
(* path, Load reads path when the process starts.  Engine takes a Save for *)
(* one atomic step; here it is what the file system sees of it, with the   *)
(* process dying, calls failing and the power going off at any moment.     *)
(*                                                                         *)
(* The file system (external) renames atomically, but nothing is synced:   *)
(* until a file is written back a power failure may undo the rename or     *)
(* keep it and lose the data.                                              *)
(***************************************************************************)
EXTENDS Integers

CONSTANTS
    Position,    \* the positions LastLSN takes, in any order
    Fresh,       \* the position of a zero-valued ReplicationState
    Absent,      \* no file
    Torn,        \* a file that json.Unmarshal rejects
    Faults,      \* the kinds of fault this instance injects
    MaxFaults    \* bound on the faults of a behaviour

ASSUME StoreAssumption ==
    /\ Fresh \in Position
    /\ Absent \notin Position /\ Torn \notin Position \cup {Absent}
    /\ Faults \subseteq {"io", "crash", "power"}
    /\ MaxFaults \in Nat

VARIABLES
    file,       \* the content of path
    tmp,        \* the content of path + ".tmp"
    settled,    \* the content of path that a power failure leaves
    mode,       \* the process: "down", "running", or inside Save
    position,   \* state.LastLSN
    acked,      \* history: what the last successful Save or Load has seen
    writing,    \* history: what a Save in progress writes, acked otherwise
    powerLost,  \* history: down since a power failure took a file not
                \* yet written back
    faults

vars == <<file, tmp, settled, mode, position, acked, writing, powerLost, faults>>

Content == Position \cup {Absent, Torn}

\* Every variable has its type.
TypeOK ==
    /\ file \in Content /\ tmp \in Content /\ settled \in Content
    /\ mode \in {"down", "running", "write", "rename", "remove"}
    /\ position \in Position
    /\ acked \in Content /\ writing \in Content
    /\ powerLost \in BOOLEAN
    /\ faults \in 0..MaxFaults

Init ==
    /\ file = Absent /\ tmp = Absent /\ settled = Absent
    /\ mode = "down" /\ position = Fresh
    /\ acked = Absent /\ writing = Absent /\ powerLost = FALSE
    /\ faults = 0

Fault(kind) == kind \in Faults /\ faults < MaxFaults /\ faults' = faults + 1

-----------------------------------------------------------------------------
(* Load.                                                                   *)

\* Mutation of Load: a missing file is an error as any other.
LoadRequiresFile ==
    /\ mode = "down" /\ file \in Position
    /\ mode' = "running" /\ position' = file
    /\ acked' = file /\ writing' = file /\ powerLost' = FALSE
    /\ UNCHANGED <<file, tmp, settled, faults>>

\* Mutation of Load: a missing file yields no state at all.
LoadNothing ==
    /\ mode = "down" /\ file # Torn
    /\ mode' = "running" /\ position' = file
    /\ acked' = file /\ writing' = file /\ powerLost' = FALSE
    /\ UNCHANGED <<file, tmp, settled, faults>>

\* A missing file is a fresh start; one that does not parse is an error, and
\* the process ends before it has begun.
Load ==
    /\ mode = "down" /\ file # Torn
    /\ mode' = "running"
    /\ position' = IF file = Absent THEN Fresh ELSE file
    /\ acked' = file /\ writing' = file /\ powerLost' = FALSE
    /\ UNCHANGED <<file, tmp, settled, faults>>

-----------------------------------------------------------------------------
(* Save.                                                                   *)

\* Mutation of SetPosition: the next flush does not wait for the Save.
SetPositionWhileSaving ==
    /\ mode # "down"
    /\ position' \in Position
    /\ UNCHANGED <<file, tmp, settled, mode, acked, writing, powerLost, faults>>

\* A flush sets LastLSN, to a lower value too when events are redelivered.
SetPosition ==
    /\ mode = "running"
    /\ position' \in Position
    /\ UNCHANGED <<file, tmp, settled, mode, acked, writing, powerLost, faults>>

SaveBegin ==
    /\ mode = "running"
    /\ mode' = "write" /\ writing' = position
    /\ UNCHANGED <<file, tmp, settled, position, acked, powerLost, faults>>

\* Save returns an error: the position stays in memory only.
SaveFails ==
    /\ mode' = "running" /\ writing' = acked
    /\ UNCHANGED <<file, settled, position, acked, powerLost>>

\* MkdirAll fails.
MkdirFails == mode = "write" /\ Fault("io") /\ SaveFails /\ UNCHANGED tmp

WriteFile ==
    /\ mode = "write"
    /\ tmp' = writing /\ mode' = "rename"
    /\ UNCHANGED <<file, settled, position, acked, writing, powerLost, faults>>

\* Mutation of WriteFileFails: the error is not looked at.
WriteFileFailsUnseen ==
    /\ mode = "write" /\ Fault("io")
    /\ tmp' \in {tmp, Torn} /\ mode' = "rename"
    /\ UNCHANGED <<file, settled, position, acked, writing, powerLost>>

\* The temporary file is not touched, or it is left truncated.
WriteFileFails ==
    /\ mode = "write" /\ Fault("io")
    /\ tmp' \in {tmp, Torn}
    /\ SaveFails

Rename ==
    /\ mode = "rename"
    /\ file' = tmp /\ tmp' = Absent
    /\ mode' = "running" /\ acked' = writing
    /\ UNCHANGED <<settled, position, writing, powerLost, faults>>

RenameFails ==
    /\ mode = "rename" /\ Fault("io")
    /\ mode' = "remove"
    /\ UNCHANGED <<file, tmp, settled, position, acked, writing, powerLost>>

\* The error of Remove is ignored.
RemoveTmp ==
    /\ mode = "remove"
    /\ tmp' \in {Absent, tmp}
    /\ SaveFails
    /\ UNCHANGED faults

-----------------------------------------------------------------------------
(* The environment.                                                        *)

\* The file system writes the data of path back.
Writeback ==
    /\ file # settled
    /\ settled' = file
    /\ UNCHANGED <<file, tmp, mode, position, acked, writing, powerLost, faults>>

\* The process dies; a write under way may have got anywhere.
Dies ==
    /\ mode' = "down" /\ position' = Fresh
    /\ UNCHANGED <<acked, writing>>

Crash ==
    /\ mode # "down" /\ Fault("crash")
    /\ Dies
    /\ tmp' \in {tmp} \cup (IF mode = "write" THEN {Torn, writing} ELSE {})
    /\ UNCHANGED <<file, settled, powerLost>>

PowerFailure ==
    /\ Fault("power")
    /\ Dies
    /\ tmp' \in {tmp, Torn, Absent}
    /\ IF file = settled THEN UNCHANGED <<file, powerLost>>
       ELSE file' \in {file, settled, Torn} /\ powerLost' = TRUE
    /\ settled' = file'

-----------------------------------------------------------------------------
Process ==
    \/ Load \/ SetPosition \/ SaveBegin \/ MkdirFails \/ WriteFile
    \/ WriteFileFails \/ Rename \/ RenameFails \/ RemoveTmp

Next == Process \/ Writeback \/ Crash \/ PowerFailure

Spec == Init /\ [][Next]_vars

\* The process is started again whenever it has ended.
FairSpec == Spec /\ WF_vars(Load)

-----------------------------------------------------------------------------
(* Properties.                                                             *)

\* Save is atomic: the state file always has what the last Save that returned
\* nil wrote or, while a Save runs or after it was cut short by the death of
\* the process, what that Save writes; never a torn file, and nothing of a
\* Save that returned an error.  Only a power failure before the file was
\* written back, which Save does not wait for, is excepted.
SaveAtomic == ~powerLost => file \in {acked, writing}

Atomic == INSTANCE AtomicSave
    WITH stored <- file, durable <- settled, up <- (mode # "down"), memory <- position

\* The system calls of Save implement the one step that Engine takes a Save
\* for (AtomicSave): the file changes by a rename alone, and then to the
\* position in memory; a Save that returns an error or dies on the way has
\* changed nothing; and a process starts with what the file says.
ImplementsAtomicSave == Atomic!Spec

\* The engine comes back after every failure: the first start finds no file
\* and begins afresh, a later one finds a file that parses, unless the power
\* failed before the file was written back.
Restarts == mode = "down" ~> mode = "running" \/ powerLost

-----------------------------------------------------------------------------
(* Why SaveAtomic and ImplementsAtomicSave hold.                           *)

\* A living process has the file it has last seen or saved until it renames a
\* complete temporary file over it, which has the position in memory, and
\* neither of the two is torn.
IInv ==
    /\ TypeOK /\ SaveAtomic
    /\ mode # "down" => file = acked
    /\ mode = "rename" => tmp = writing
    /\ mode = "running" => writing = acked
    /\ mode \notin {"down", "running"} => writing = position
    /\ powerLost => mode = "down"
    /\ acked # Torn /\ writing # Torn
=============================================================================
