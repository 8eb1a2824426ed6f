---------------------------- MODULE Coordinator -----------------------------
(***************************************************************************)
(* internal/coordinator/coordinator.go: the SQL of SetReadOnly,            *)
(* SetReadWrite and GetState, with the local database they act on.         *)
(*                                                                         *)
(* PostgreSQL (external): default_transaction_read_only of the database is *)
(* what a session starts with.  ALTER DATABASE changes it for sessions     *)
(* opened later and for no other, RESET brings back the value the session  *)
(* started with, and a session that started read-only may not execute      *)
(* ALTER DATABASE at all.  A role that has a setting of its own is exempt  *)
(* from the database's.                                                    *)
(***************************************************************************)

CONSTANT Sessions   \* connections of the local application

VARIABLES
    dflt,     \* the database's default: "ro" or "rw"
    exempt,   \* the coordinator's role has its own setting, off
    own,      \* what the coordinator's session started with
    conns,    \* what each application session started with, or "closed"
    busy      \* application sessions whose state is 'active'

databaseVars == <<dflt, exempt, own, conns, busy>>

DatabaseTypeOK ==
    /\ dflt \in {"rw", "ro"} /\ own \in {"rw", "ro"}
    /\ exempt \in BOOLEAN
    /\ conns \in [Sessions -> {"closed", "rw", "ro"}]
    /\ busy \subseteq Sessions

-----------------------------------------------------------------------------
(* The coordinator's requests.                                             *)

\* connect: a session of its own for every call.
Connected == own' = (IF exempt THEN "rw" ELSE dflt)

\* Exec(ALTER DATABASE ... SET default_transaction_read_only = mode)
AlterDatabase(mode) ==
    /\ own = "rw"
    /\ dflt' = mode
    /\ UNCHANGED <<exempt, own, conns, busy>>

\* pg_terminate_backend of the sessions with state = 'active'.
TerminateActive ==
    /\ conns' = [s \in Sessions |-> IF s \in busy THEN "closed" ELSE conns[s]]
    /\ busy' = {}
    /\ UNCHANGED <<dflt, exempt, own>>

\* getStateWithConn: RESET, then SHOW.
ShownState == own

-----------------------------------------------------------------------------
(* The application.                                                        *)

OpenSession(s) ==
    /\ conns[s] = "closed"
    /\ conns' = [conns EXCEPT ![s] = dflt]
    /\ UNCHANGED <<dflt, exempt, own, busy>>

CloseSession(s) ==
    /\ conns[s] # "closed" /\ s \notin busy
    /\ conns' = [conns EXCEPT ![s] = "closed"]
    /\ UNCHANGED <<dflt, exempt, own, busy>>

StartStatement(s) ==
    /\ conns[s] # "closed" /\ s \notin busy
    /\ busy' = busy \cup {s}
    /\ UNCHANGED <<dflt, exempt, own, conns>>

EndStatement(s) ==
    /\ s \in busy
    /\ busy' = busy \ {s}
    /\ UNCHANGED <<dflt, exempt, own, conns>>

Application ==
    \E s \in Sessions : \/ OpenSession(s) \/ CloseSession(s)
                        \/ StartStatement(s) \/ EndStatement(s)
=============================================================================
