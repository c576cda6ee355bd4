----------------------------- MODULE MCSlotTable -----------------------------
(* Instances of SlotTable: small tables of threads and of public queues. *)
EXTENDS SlotTable

Both == {"th_vec", "mq_table"}
=============================================================================
