---------------------------- MODULE MCBulkUpload ----------------------------
(* Small instances of BulkUpload. *)
EXTENDS BulkUpload, TLC

\* The server switches bulk upload and changes the batch size; any message may
\* arrive again.  No batch is larger than BulkSamples.
GrowingBatches ==
    {[bulk_upload |-> 1], [bulk_upload |-> 0],
     [bulk_upload_sampling_cnt |-> 1],
     [bulk_upload |-> 1, bulk_upload_sampling_cnt |-> 2]}

\* BulkSamples = 1: a batch the parser can shrink without a reset, an empty
\* one, and numbers that do not fit a uint16_t.
AllMessages ==
    {Malformed,
     [bulk_upload |-> 1], [bulk_upload |-> 0],
     [bulk_upload_sampling_cnt |-> 2],
     [bulk_upload_sampling_cnt |-> U16],
     [bulk_upload |-> -1, data_channel |-> -1,
      bulk_upload_sampling_freq |-> 5, upload_period |-> 0]}

Everywhere == Ops \X Pcs

\* Power fails anywhere but between the two flash operations of a save.
NotInSave == {x \in Everywhere : x[2] # "write"}

AllFaults == FaultKinds
\* The save itself works.
ResumeFaults == FaultKinds \ {"delete", "write"}

Symmetry == Permutations(Samples)
=============================================================================
