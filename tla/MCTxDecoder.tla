------------------------------ MODULE MCTxDecoder ------------------------------
(* A chain that forks above its irreversible block and outgrows the numbers, *)
(* a transfer, and a summary of the same account.                             *)
EXTENDS TxDecoder

MCHash == {"a1", "a2", "a3", "a4", "a5", "a6", "a7", "b3", "b4", "c6", "c7"}

MCMain == <<"a1", "a2", "a3", "a4", "a5", "a6", "a7">>

MCChains ==
  {SubSeq(MCMain, 1, n) : n \in {2, 3, 5, 6, 7}}
    \cup {<<"a1", "a2", "b3", "b4">>, <<"a1", "a2", "a3", "a4", "a5", "c6", "c7">>}

MCStart == <<"a1", "a2">>

\* A transfer of two and a half, and a summary that retains a half.
MCRaw == {"transfer", "summary"}
MCRequest == [r \in MCRaw |->
  [kind |-> r, amount |-> IF r = "transfer" THEN 5 ELSE 0, min |-> IF r = "summary" THEN 3 ELSE 0,
   retained |-> IF r = "summary" THEN 1 ELSE 0, self |-> FALSE]]
=============================================================================
