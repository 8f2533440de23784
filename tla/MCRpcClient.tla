----------------------------- MODULE MCRpcClient -----------------------------
(* The scanner's thread, which makes plain calls, and two of the wallet's.     *)
EXTENDS RpcClient

MCCaller == {"scanner", "wallet1", "wallet2"}

MCCalls == [c \in MCCaller |-> IF c = "wallet2" THEN 2 ELSE 1]

MCAddresses ==
  [c \in MCCaller |-> CASE c = "scanner" -> 0 [] c = "wallet1" -> 2 [] c = "wallet2" -> 1]
=============================================================================
