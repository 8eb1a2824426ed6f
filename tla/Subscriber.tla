----------------------------- MODULE Subscriber -----------------------------
(***************************************************************************)
(* internal/replication/subscriber.go: the goroutine consumeStream and the *)
(* methods the engine calls, with the server side of the replication slot. *)
(*                                                                         *)
(* The slot (external) keeps confirmed, its confirmed_flush_lsn, which     *)
(* only moves forward, and when streaming starts it sends the transactions *)
(* whose commit LSN is not below it.  A transaction arrives as BEGIN, its  *)
(* changes and COMMIT.                                                     *)
(***************************************************************************)
EXTENDS ChangeEvents

CONSTANT ChanCap   \* capacity of the event channel (256 in the code)

ASSUME SubscriberAssumption == ChanCap \in Nat \ {0}

VARIABLES
    confirmed,     \* slot: confirmed_flush_lsn (survives the process)
    start,         \* slot: first event of the current stream
    next,          \* slot: next event to be sent
    serverTx,      \* slot: LSN of the transaction being sent, 0 for none
    replConn,      \* "nil", "open", or "broken" (the link dropped)
    lastAckedLSN,
    stream,        \* where consumeStream is: "none" before Subscribe, "top"
                   \* of the loop, "recv", "emit", "commit", "done"
    cancelled,     \* streamCtx is cancelled
    txLSN,
    out            \* the event channel; closed once stream is "done"

subscriberVars == <<confirmed, start, next, serverTx, replConn,
                    lastAckedLSN, stream, cancelled, txLSN, out>>

SubscriberTypeOK ==
    /\ confirmed \in Nat
    /\ start \in 1..NEvents + 1
    /\ next \in start..NEvents + 1
    /\ serverTx \in Nat
    /\ replConn \in {"nil", "open", "broken"}
    /\ lastAckedLSN \in Nat
    /\ stream \in {"none", "top", "recv", "emit", "commit", "done"}
    /\ cancelled \in BOOLEAN
    /\ txLSN \in Nat
    /\ out \in Seq(ChangeEvent)
    /\ Len(out) <= ChanCap

NewSubscriber ==
    /\ confirmed = 0 /\ start = 1 /\ next = 1 /\ serverTx = 0
    /\ replConn = "nil" /\ lastAckedLSN = 0
    /\ stream = "none" /\ cancelled = FALSE /\ txLSN = 0 /\ out = <<>>

MaxOf(a, b) == IF a >= b THEN a ELSE b

-----------------------------------------------------------------------------
(* Methods called by the engine.                                           *)

Connect ==
    /\ replConn = "nil"
    /\ replConn' = "open"
    /\ lastAckedLSN' = 0
    /\ UNCHANGED <<confirmed, start, next, serverTx, stream, cancelled,
                   txLSN, out>>

\* k is the first event of a transaction that the slot still has to send.
ResumesAt(k) ==
    /\ \A e \in 1..(k - 1) : Lsn[e] < MaxOf(confirmed, lastAckedLSN)
    /\ k <= NEvents => Lsn[k] >= MaxOf(confirmed, lastAckedLSN)

\* StartReplication(startLSN = lastAckedLSN), then "go s.consumeStream".
Subscribe ==
    /\ replConn = "open"
    /\ stream = "none"
    /\ \E k \in 1..NEvents + 1 : ResumesAt(k) /\ start' = k /\ next' = k
    /\ stream' = "top"
    /\ UNCHANGED <<confirmed, serverTx, replConn, lastAckedLSN, cancelled,
                   txLSN, out>>

\* SendStandbyStatusUpdate: it reaches the slot, or it is written to a link
\* that has dropped and the slot never sees it, or it fails.
Acknowledge(lsn) ==
    \/ /\ replConn = "open"
       /\ confirmed' = MaxOf(confirmed, lsn)
       /\ lastAckedLSN' = MaxOf(lastAckedLSN, lsn)
    \/ /\ replConn = "broken"
       /\ lastAckedLSN' = MaxOf(lastAckedLSN, lsn)
       /\ UNCHANGED confirmed
    \/ /\ replConn # "open"
       /\ UNCHANGED <<confirmed, lastAckedLSN>>

\* Mutation of Close: the stream is not cancelled.
CloseWithoutCancel ==
    /\ replConn' = "nil"
    /\ UNCHANGED <<confirmed, start, next, serverTx, lastAckedLSN, stream,
                   cancelled, txLSN, out>>

\* The first half of Close: forget the connection, cancel the stream.
Close ==
    /\ replConn' = "nil"
    /\ cancelled' = (stream # "none")
    /\ UNCHANGED <<confirmed, start, next, serverTx, lastAckedLSN, stream,
                   txLSN, out>>

-----------------------------------------------------------------------------
(* consumeStream.                                                          *)

\* s.replConn is read without the mutex, so a read that races with Close may
\* still find the connection ...
ReceiveCall ==
    /\ stream = "top"
    /\ stream' = "recv"
    /\ UNCHANGED <<confirmed, start, next, serverTx, replConn, lastAckedLSN,
                   cancelled, txLSN, out>>

\* ... or nil, which ReceiveMessage dereferences.
NilDereference == stream = "top" /\ replConn = "nil"

Receives == stream = "recv" /\ replConn = "open" /\ ~cancelled

RecvKeepalive ==
    /\ Receives
    /\ Acknowledge(lastAckedLSN)
    /\ stream' = "top"
    /\ UNCHANGED <<start, next, serverTx, replConn, cancelled, txLSN, out>>

RecvBegin ==
    /\ Receives
    /\ serverTx = 0 /\ next <= NEvents
    /\ serverTx' = Lsn[next]
    /\ txLSN' = Lsn[next]
    /\ stream' = "top"
    /\ UNCHANGED <<confirmed, start, next, replConn, lastAckedLSN, cancelled,
                   out>>

MoreInTx == next <= NEvents /\ Lsn[next] = serverTx

RecvChange ==
    /\ Receives
    /\ MoreInTx
    /\ stream' = "emit"
    /\ UNCHANGED <<confirmed, start, next, serverTx, replConn, lastAckedLSN,
                   cancelled, txLSN, out>>

\* Mutation of Emit: the channel is not bounded.
EmitUnbounded ==
    /\ stream = "emit"
    /\ out' = Append(out, [id |-> next, LSN |-> txLSN])
    /\ next' = next + 1
    /\ stream' = "top"
    /\ UNCHANGED <<confirmed, start, serverTx, replConn, lastAckedLSN,
                   cancelled, txLSN>>

\* emitEvent: blocks while the channel is full ...
Emit ==
    /\ stream = "emit"
    /\ Len(out) < ChanCap
    /\ out' = Append(out, [id |-> next, LSN |-> txLSN])
    /\ next' = next + 1
    /\ stream' = "top"
    /\ UNCHANGED <<confirmed, start, serverTx, replConn, lastAckedLSN,
                   cancelled, txLSN>>

\* ... and gives the event up once the context is cancelled.
EmitDropped ==
    /\ stream = "emit" /\ cancelled
    /\ stream' = "top"
    /\ UNCHANGED <<confirmed, start, next, serverTx, replConn, lastAckedLSN,
                   cancelled, txLSN, out>>

RecvCommit ==
    /\ Receives
    /\ serverTx # 0 /\ ~MoreInTx
    /\ txLSN' = serverTx
    /\ serverTx' = 0
    /\ stream' = "commit"
    /\ UNCHANGED <<confirmed, start, next, replConn, lastAckedLSN, cancelled,
                   out>>

\* COMMIT is acknowledged as soon as it is read, whatever the engine has
\* done with the events of the transaction.
CommitAck ==
    /\ stream = "commit"
    /\ Acknowledge(txLSN)
    /\ stream' = "top"
    /\ UNCHANGED <<start, next, serverTx, replConn, cancelled, txLSN, out>>

\* ReceiveMessage returns an error: the channel is closed, nothing retries.
StreamExit ==
    /\ stream = "recv" /\ (cancelled \/ replConn # "open")
    /\ stream' = "done"
    /\ UNCHANGED <<confirmed, start, next, serverTx, replConn, lastAckedLSN,
                   cancelled, txLSN, out>>

RecvData == RecvBegin \/ RecvChange \/ RecvCommit

ConsumeStream ==
    \/ ReceiveCall \/ RecvKeepalive \/ RecvData \/ Emit \/ EmitDropped
    \/ CommitAck \/ StreamExit
=============================================================================
