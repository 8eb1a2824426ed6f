--------------------------- MODULE InOrderDelivery --------------------------
(***************************************************************************)
(* What replication promises about order, without saying how it is done:   *)
(* between two resumptions the cloud database receives the changes of the  *)
(* source as a growing prefix, counted from where the stream last resumed; *)
(* no change is ever applied ahead of an earlier one of the same stream,   *)
(* none is taken back, and the point of resumption never moves backwards.  *)
(***************************************************************************)
EXTENDS Integers

CONSTANT NEvents

VARIABLES from,      \* the change at which the stream last resumed
          applied    \* the changes applied to the copy

Init == from = 1 /\ applied = {}

Deliver ==
    /\ \E k \in from..NEvents : applied' = applied \cup (from..k)
    /\ UNCHANGED from

Resume ==
    /\ \E k \in from..NEvents + 1 : from' = k
    /\ UNCHANGED applied

Next == Deliver \/ Resume

Spec == Init /\ [][Next]_<<from, applied>>
=============================================================================
