----------------------------- MODULE BatchQueue -----------------------------
(***************************************************************************)
(* What bulk upload promises, without the device: a durable queue of the   *)
(* samples of one batch and a durable cursor.  A record is delivered at    *)
(* least once, the cursor passes it only afterwards, and the batch is      *)
(* given up only when all of it was delivered or the server reconfigures   *)
(* the device.  A power failure is no action of this module: the promise   *)
(* is that it cannot be seen.  BulkDelivery shows how BulkUpload keeps it. *)
(***************************************************************************)
EXTENDS Naturals, SequencesExt

CONSTANT Records    \* what may be sampled

VARIABLES
    queue,     \* the records of the batch, in sampling order
    cursor,    \* how many of them the device takes as delivered
    got,       \* the records of the batch the broker has
    resetting  \* a configuration message is being applied

vars == <<queue, cursor, got, resetting>>

Init ==
    /\ queue = <<>>
    /\ cursor = 0
    /\ got = {}
    /\ resetting = FALSE

-----------------------------------------------------------------------------
\* The sample that completes a batch starts its delivery at the first record.
Put(r) ==
    /\ r \in Records \ Range(queue)
    /\ queue' = Append(queue, r)
    /\ cursor' \in {cursor, 0}
    /\ UNCHANGED <<got, resetting>>

\* The next record reaches the broker, possibly once more.
Deliver ==
    /\ cursor < Len(queue)
    /\ got' = got \cup {queue[cursor + 1]}
    /\ UNCHANGED <<queue, cursor, resetting>>

Advance ==
    /\ cursor < Len(queue)
    /\ queue[cursor + 1] \in got
    /\ cursor' = cursor + 1
    /\ UNCHANGED <<queue, got, resetting>>

Empty == queue' = <<>> /\ cursor' = 0 /\ got' = {}

Finish ==
    /\ queue # <<>>
    /\ Range(queue) \subseteq got
    /\ Empty
    /\ UNCHANGED resetting

Discard ==
    /\ resetting
    /\ Empty
    /\ UNCHANGED resetting

Reconfigure ==
    /\ resetting' = ~ resetting
    /\ UNCHANGED <<queue, cursor, got>>

Next ==
    \/ \E r \in Records : Put(r)
    \/ Deliver
    \/ Advance
    \/ Finish
    \/ Discard
    \/ Reconfigure

Spec == Init /\ [][Next]_vars
=============================================================================
