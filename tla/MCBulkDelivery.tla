--------------------------- MODULE MCBulkDelivery ---------------------------
(* An instance of BulkDelivery that meets its conditions. *)
EXTENDS BulkDelivery, MCBulkUpload

RetryFaults == {"link", "ping", "store"}

ASSUME DeliveryConditions
=============================================================================
