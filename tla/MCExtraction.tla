----------------------------- MODULE MCExtraction -----------------------------
(* Every block of two transactions, of up to two operations and one.           *)
EXTENDS Extraction

MCAddress == {"a", "a2", "b", "x"}
MCAccountOf ==
  [s \in MCAddress |-> CASE s \in {"a", "a2"} -> "A" [] s = "b" -> "B" [] s = "x" -> None]

Transfer(from, to) == [empty |-> FALSE, type |-> "transfer", amount |-> Symbol,
                       from |-> from, to |-> to, strings |-> TRUE]

\* Between accounts, within one, from and to a stranger; of another coin; not a transfer;
\* without the other party, and without a memo too; and the amounts and the lists that the
\* code does not take.
Kinds ==
  LET ab == Transfer("a", "b") IN
  {ab, Transfer("a", "a2"), Transfer("x", "a"), Transfer("b", "x"),
   [ab EXCEPT !.amount = OtherCoin], [ab EXCEPT !.type = "other"],
   [ab EXCEPT !.to = None, !.strings = FALSE], [ab EXCEPT !.strings = FALSE],
   [ab EXCEPT !.type = None],
   [ab EXCEPT !.amount = None], [ab EXCEPT !.amount = "unsplit"],
   [ab EXCEPT !.amount = "number"], [ab EXCEPT !.empty = TRUE]}

UpTo(n) == UNION {[1..i -> Kinds] : i \in 0..n}

Ids == {<<"t1", "t2">>, <<"t1", "">>, <<"t1">>, <<>>}

MCBlocks ==
  {[txs |-> <<s, t>>, ids |-> i] : s \in UpTo(2), t \in UpTo(1), i \in {<<"t1", "t2">>}}
    \cup {[txs |-> <<s, t>>, ids |-> i] : s \in UpTo(1), t \in UpTo(1), i \in Ids}
=============================================================================
