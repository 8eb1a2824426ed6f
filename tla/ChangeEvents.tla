---------------------------- MODULE ChangeEvents ----------------------------
(***************************************************************************)
(* The rows changed on the local database, in commit order, as the logical *)
(* replication stream presents them (pkg/interfaces ChangeEvent).          *)
(*                                                                         *)
(* An event is a number, its place in the stream.  Lsn[e] is the final LSN *)
(* of the transaction that e belongs to: pgoutput announces it in BEGIN    *)
(* and every event of the transaction carries it, so events of one         *)
(* transaction are exactly the consecutive events with one LSN.            *)
(***************************************************************************)
EXTENDS Integers, Sequences, FiniteSets

CONSTANTS NEvents,   \* how many changes the source commits in a behaviour
          Lsn        \* the final LSN of each event's transaction

ASSUME EventsAssumption ==
    /\ NEvents \in Nat \ {0}
    /\ Lsn \in [1..NEvents -> Nat \ {0}]
    /\ \A d, e \in 1..NEvents : d <= e => Lsn[d] <= Lsn[e]

Event == 1..NEvents

\* A ChangeEvent value: which change it is, and the LSN it was stamped with.
ChangeEvent == [id : Event, LSN : Nat]

\* The changes that a sequence of ChangeEvent values carries.
Ids(s) == {s[i].id : i \in DOMAIN s}
=============================================================================
