---------------------------- MODULE MCExtractBatch ----------------------------
(* Batches that share the tokens: the task's and one of ScanBlock; and a batch *)
(* with one beside it that has no transactions.                              *)
EXTENDS ExtractBatch

MCBatch == {"task", "scan"}
MCSize  == [b \in MCBatch |-> IF b = "task" THEN 3 ELSE 1]

LoneBatch == {"task", "empty"}
LoneSize  == [b \in LoneBatch |-> IF b = "task" THEN 2 ELSE 0]
=============================================================================
