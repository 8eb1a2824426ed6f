----------------------------- MODULE AtomicSave -----------------------------
(***************************************************************************)
(* What the engine takes the state store for: a file that a Save replaces  *)
(* in one step by the position in memory, whatever happens on the way, and *)
(* that the next process finds as the last Save left it.  The one thing    *)
(* that a Save does not promise is to survive a power failure before the   *)
(* file has settled on the disk.                                           *)
(***************************************************************************)
CONSTANTS Position, Fresh, Absent, Torn

VARIABLES stored,    \* what the state file says
          durable,   \* what a power failure leaves of it
          up,        \* the process is running
          memory     \* the position it has in memory

Init == stored = Absent /\ durable = Absent /\ up = FALSE /\ memory = Fresh

\* A process begins with what the file says.
Start ==
    /\ ~up /\ stored # Torn
    /\ up' = TRUE
    /\ memory' = IF stored = Absent THEN Fresh ELSE stored
    /\ UNCHANGED <<stored, durable>>

Advance == up /\ memory' \in Position /\ UNCHANGED <<stored, durable, up>>

\* A Save that fails, or is cut short, does nothing.
Save == up /\ stored' = memory /\ UNCHANGED <<durable, up, memory>>

Settle == durable' = stored /\ UNCHANGED <<stored, up, memory>>

End == up' = FALSE /\ memory' = Fresh /\ UNCHANGED <<stored, durable>>

PowerFails ==
    /\ stored' \in {stored, durable} \cup (IF stored = durable THEN {} ELSE {Torn})
    /\ durable' = stored'
    /\ up' = FALSE /\ memory' = Fresh

Next == Start \/ Advance \/ Save \/ Settle \/ End \/ PowerFails

Spec == Init /\ [][Next]_<<stored, durable, up, memory>>
=============================================================================
