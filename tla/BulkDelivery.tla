---------------------------- MODULE BulkDelivery ----------------------------
(***************************************************************************)
(* BulkUpload implements BatchQueue.  The queue is what a restart would    *)
(* find in flash; a save that has deleted the old configuration counts as  *)
(* done.  The module names the conditions under which the device keeps the *)
(* promise; each of them is needed, and the README says what happens       *)
(* without it.                                                             *)
(***************************************************************************)
EXTENDS BulkUpload

\* Power fails where no flash operation of the step is still missing.
BetweenSteps ==
    {<<"none", "idle">>, <<"upload", "read">>, <<"upload", "sent">>,
     <<"upload", "save">>, <<"update", "wipe">>}

DeliveryConditions ==
    /\ CrashAt \subseteq BetweenSteps
    /\ Faults \subseteq {"store", "link", "ping"}
    /\ BulkSamples <= Retained
    /\ \A m \in Messages \ {Malformed} :
          "bulk_upload_sampling_cnt" \in DOMAIN m =>
              m["bulk_upload_sampling_cnt"] % U16 <= BulkSamples

-----------------------------------------------------------------------------
(* The refinement mapping *)

DurableCfg == IF pc = "write" THEN cfg ELSE Load
DurableBatch == IF pc = "write" THEN batch ELSE nvsBatch

Queue == INSTANCE BatchQueue WITH
    Records <- Samples,
    queue <- DurableBatch,
    cursor <- DurableCfg.uploaded,
    got <- sent \cap Range(DurableBatch),
    resetting <- op = "update"

\* Whatever happens in RAM, in the session and to the power, what flash holds
\* is a queue that loses nothing: a record is passed only after its delivery
\* and a batch is dropped only when it was delivered or the server asked for
\* another one (config.c:67-98, main.c:815-843).
DurableQueue == Queue!Spec
=============================================================================
