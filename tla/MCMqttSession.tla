---------------------------- MODULE MCMqttSession ----------------------------
(* Small instances of MqttSession. *)
EXTENDS MqttSession

\* The server switches bulk upload, restarts the periodic work and restarts
\* the bulk work; a batch is BulkSamples records, or empty.
AllMessages ==
    {Malformed,
     [bulk_upload |-> 1, bulk_upload_sampling_freq |-> 5],
     [bulk_upload |-> 0, upload_period |-> 10],
     [bulk_upload_sampling_cnt |-> 0]}

NoMessages == {}

AllFaults == FaultKinds
NoFaults == {}
=============================================================================
