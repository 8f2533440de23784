------------------------------- MODULE TxDecoder -------------------------------
(***************************************************************************)
(* The TransactionDecoder of futurepia/tx_decode.go: a transfer or a       *)
(* summary is created from three or four separate calls to the node, then  *)
(* signed, verified and submitted in calls of the wallet's own, while the  *)
(* node's chain grows and reorganises, its irreversible block moves on and *)
(* the account's balance changes, back to what it was at the fork where    *)
(* blocks are dropped.                                                     *)
(*                                                                         *)
(* One action is one call to the node, with the local work up to the next. *)
(* RawTransaction.To has one entry, as the openwallet framework and        *)
(* CreateSummaryRawTransaction fill it.                                    *)
(***************************************************************************)
EXTENDS Integers, Sequences

CONSTANTS
  Hash, Genesis, Chains, InitChain, MaxHeight,  \* as in BlockScan
  RefMod,      \* 2^16: the width of ref_block_num
  Lag,         \* the node's irreversible block is at most this far below its head
  Life,        \* the blocks it makes from GetDynamicGlobal until the transaction expires
  Fine,        \* parts of the chain's smallest amount a request may be given in
  Raw,         \* the raw transactions
  Request,     \* what each asks for, amounts in those parts
  MaxKeys,     \* bound: the addresses the wallet has for the account
  MaxSigs,     \* bound: the signatures repeated verification gives a raw transaction
  InitBalance, \* the account's balance, in the chain's smallest amount
  MaxBalance   \* bound: deposits stop there

ASSUME ChainAssumption ==
  /\ Genesis \notin Hash
  /\ MaxHeight \in Nat
  /\ Chains \subseteq Seq(Hash)
  /\ \A c \in Chains : Len(c) \in 1..MaxHeight
  /\ InitChain \in Chains

\* Far fewer than 2^16 blocks are made in the 30 minutes of a transaction's life and the
\* get_block call before them.
ASSUME RefAssumption ==
  /\ RefMod \in Nat /\ Lag \in Nat \ {0} /\ Life \in Nat
  /\ Lag + Life + 1 < RefMod
  /\ Len(InitChain) <= Lag + 1

ASSUME RequestAssumption ==
  /\ Fine \in Nat \ {0} /\ InitBalance \in Nat /\ MaxBalance \in Nat
  /\ MaxKeys \in Nat \ {0} /\ MaxSigs \in Nat
  /\ InitBalance <= MaxBalance
  /\ Request \in [Raw -> [kind : {"transfer", "summary"}, amount : Nat, min : Nat,
                          retained : Nat, self : BOOLEAN]]

VARIABLES
  chain, lib, \* the node: its chain and last irreversible block
  balance,   \* the account's balance after each block that is not behind lib
  block,     \* the block of the chain that holds each raw transaction; 0 if none does
  pc,        \* how far each raw transaction is
  seen,      \* accountBalance, as GetBalance returned it
  irr,       \* apiHead.LastIrreversible
  tx,        \* the transaction built: RawHex
  txAmount,  \* RawTransaction.TxAmount
  asked,     \* history: the head height at GetDynamicGlobal
  left,      \* history: the balance each left when the node executed it
  disturbed  \* history: those which, after seen was read, another payment crossed or a
             \* reorganisation took money from, and those a reorganisation undid

nodeVars  == <<chain, lib, balance, block>>
rawVars   == <<pc, seen, irr, tx, txAmount, asked>>
trackVars == <<left, disturbed>>
vars      == <<nodeVars, rawVars, trackVars>>

\* What GetBalance answers.
Balance == balance[Len(chain)]

NoTx == [num |-> 0, prefix |-> Genesis, sent |-> 0, keys |-> 0, sigs |-> 0]

States == {"new", "from", "to", "head", "built", "signed", "verified", "submitted", "failed"}

\* Those whose transaction is built.
Built(r) == pc[r] \in {"built", "signed", "verified", "submitted"}

\* Those the node has executed, on the chain it holds.
Paid == {r \in Raw : block[r] # 0}

\* Those that may still be executed on what was read for them.
Underway == {r \in Raw \ Paid : pc[r] \notin {"new", "failed"}}

TypeOK ==
  /\ chain \in Chains
  /\ lib \in 1..Len(chain)
  /\ balance \in [lib..Len(chain) -> 0..MaxBalance]
  /\ block \in [Raw -> Nat]
  /\ pc \in [Raw -> States]
  /\ seen \in [Raw -> Nat]
  /\ irr \in [Raw -> Nat]
  /\ tx \in [Raw -> [num : 0..(RefMod - 1), prefix : Hash \cup {Genesis}, sent : Nat,
                     keys : 0..MaxKeys, sigs : 0..MaxSigs]]
  /\ txAmount \in [Raw -> Int]
  /\ asked \in [Raw -> Nat]
  /\ left \in [Raw -> Nat]
  /\ disturbed \subseteq Raw

-----------------------------------------------------------------------------
(* The node, outside src/.                                                 *)

HashAt(h) == IF h = 0 THEN Genesis ELSE chain[h]

\* Longer branches replace shorter ones, above the irreversible block only. With the blocks
\* above the fork go the deposits and payments in them; what the new branch has of these is
\* a Deposit, SubmitRawTransaction or Reapply after it.
NodeAdvance ==
  \E c \in Chains, fork \in lib..Len(chain) :
    /\ Len(c) > Len(chain)
    /\ Len(c) - lib <= Lag
    /\ \A h \in 1..fork : c[h] = chain[h]
    /\ fork < Len(chain) => c[fork + 1] # chain[fork + 1]
    /\ chain' = c
    /\ balance' = [h \in lib..Len(c) |-> IF h <= fork THEN balance[h] ELSE balance[fork]]
    /\ block' = [r \in Raw |-> IF block[r] > fork THEN 0 ELSE block[r]]
    /\ disturbed' = disturbed \cup {r \in Raw : block[r] > fork}
                       \cup (IF balance[fork] < Balance THEN Underway ELSE {})
    /\ UNCHANGED <<lib, rawVars, left>>

Finalise ==
  /\ lib' \in (lib + 1)..Len(chain)
  /\ balance' = [h \in lib'..Len(chain) |-> balance[h]]
  /\ UNCHANGED <<chain, block, rawVars, trackVars>>

\* In the newest block.
Deposit ==
  /\ \E b \in (Balance + 1)..MaxBalance : balance' = [balance EXCEPT ![Len(chain)] = b]
  /\ UNCHANGED <<chain, lib, block, rawVars, trackVars>>

Expired(r) == Len(chain) > asked[r] + Life

\* The reference check: among the last RefMod blocks, the one of that number has that hash.
RefHolds(r) ==
  \E h \in 0..Len(chain) : /\ h > Len(chain) - RefMod
                           /\ h % RefMod = tx[r].num
                           /\ HashAt(h) = tx[r].prefix

-----------------------------------------------------------------------------
(* CreateRawTransaction and CreateSummaryRawTransactionWithError.          *)

\* A bug: the smallest transfer is not looked at.
AnyBalance(q, bal) == bal > 0

\* A summary is made of a balance of at least the smallest transfer.
EnoughFor(q, bal) == bal > 0 /\ bal * Fine >= q.min

\* GetBalance of the sender. A summary compares at once, a transfer after the next call.
ReadBalance(r) ==
  LET q == Request[r] IN
  /\ pc[r] = "new"
  /\ q.kind = "summary" => q.min >= q.retained
  /\ seen' = [seen EXCEPT ![r] = Balance]
  /\ pc' = [pc EXCEPT ![r] =
              CASE q.kind = "transfer" -> "from"
                [] q.kind = "summary" /\ EnoughFor(q, Balance) -> "to"
                [] OTHER -> "failed"]
  /\ UNCHANGED <<nodeVars, irr, tx, txAmount, asked, trackVars>>

\* A bug: the amount is not compared.
AnyAmount(q, bal) == bal > 0

\* A transfer is made of a balance of at least its amount.
Affords(q, bal) == bal * Fine >= q.amount

\* GetBalance of the receiver, which must exist; then the comparison with the balance read
\* before.
CheckTo(r) ==
  /\ pc[r] = "from"
  /\ pc' = [pc EXCEPT ![r] = IF Affords(Request[r], seen[r]) THEN "to" ELSE "failed"]
  /\ UNCHANGED <<nodeVars, seen, irr, tx, txAmount, asked, trackVars>>

\* A bug: the head block is referred to.
HeadNumber(l, top) == top

\* The block the transaction refers to is read at the irreversible height.
RefHeight(l, top) == l

\* createRawTransaction: GetDynamicGlobal.
ReadHead(r) ==
  /\ pc[r] = "to"
  /\ irr' = [irr EXCEPT ![r] = RefHeight(lib, Len(chain))]
  /\ asked' = [asked EXCEPT ![r] = Len(chain)]
  /\ pc' = [pc EXCEPT ![r] = "head"]
  /\ UNCHANGED <<nodeVars, seen, tx, txAmount, trackVars>>

\* Bugs: the number of the block itself; the number not cut to 16 bits.
OwnBlockNum(l) == l % RefMod
WideBlockNum(l) == l - 1

\* GetRefBlockNum: the block below the irreversible one, & 0xFFFF.
RefBlockNum(l) == (l - 1) % RefMod

\* GetRefBlockPrefix: of the irreversible block's previous hash.
RefBlockPrefix(l) == HashAt(l - 1)

\* A bug: the retained balance is not kept back.
AllOfIt(q, bal) == IF q.kind = "summary" THEN bal * Fine ELSE q.amount

\* What is to be sent; a summary sends what is above the retained balance.
AmountOf(q, bal) == IF q.kind = "summary" THEN bal * Fine - q.retained ELSE q.amount

\* Shift by the decimals and IntPart: the rest is cut off.
SentOf(amount) == amount \div Fine

\* createRawTransaction: GetGetBlock of the irreversible block, then the transaction, with a
\* signature to be made for every address the wallet has for the account then (487 to 496).
Build(r) ==
  LET amount == AmountOf(Request[r], seen[r]) IN
  /\ pc[r] = "head"
  /\ irr[r] \in 1..Len(chain)
  /\ \E keys \in 1..MaxKeys :
       tx' = [tx EXCEPT ![r] =
                [num |-> RefBlockNum(irr[r]), prefix |-> RefBlockPrefix(irr[r]),
                 sent |-> SentOf(amount), keys |-> keys, sigs |-> 0]]
  /\ txAmount' = [txAmount EXCEPT ![r] = IF Request[r].self THEN 0 ELSE -amount]
  /\ seen' = [seen EXCEPT ![r] = 0]
  /\ irr' = [irr EXCEPT ![r] = 0]
  /\ pc' = [pc EXCEPT ![r] = "built"]
  /\ UNCHANGED <<nodeVars, asked, trackVars>>

\* A refused or broken call, an unknown account, one without an address, a key the wallet
\* does not find: the raw transaction is given up. What fails of a verified one changes
\* nothing: it may be verified or submitted again, or never.
Fails(r) ==
  /\ pc[r] \notin {"verified", "submitted", "failed"}
  /\ pc' = [pc EXCEPT ![r] = "failed"]
  /\ seen' = [seen EXCEPT ![r] = 0]
  /\ irr' = [irr EXCEPT ![r] = 0]
  /\ tx' = [tx EXCEPT ![r] = NoTx]
  /\ txAmount' = [txAmount EXCEPT ![r] = 0]
  /\ asked' = [asked EXCEPT ![r] = 0]
  /\ UNCHANGED <<nodeVars, trackVars>>

-----------------------------------------------------------------------------
(* Sign, verify, submit.                                                   *)

SignRawTransaction(r) ==
  /\ pc[r] = "built"
  /\ pc' = [pc EXCEPT ![r] = "signed"]
  /\ UNCHANGED <<nodeVars, seen, irr, tx, txAmount, asked, trackVars>>

\* One signature for each address is appended to those RawHex has: verified twice, they are
\* there twice.
VerifyRawTransaction(r) ==
  /\ pc[r] \in {"signed", "verified"}
  /\ tx[r].sigs + tx[r].keys <= MaxSigs
  /\ tx' = [tx EXCEPT ![r].sigs = @ + tx[r].keys]
  /\ pc' = [pc EXCEPT ![r] = "verified"]
  /\ UNCHANGED <<nodeVars, seen, irr, txAmount, asked, trackVars>>

\* What the node finds valid: the account signs with one key, and with a signature too many,
\* of another key or the same one again, a transaction is refused.
Accepts(r) == tx[r].sigs = 1 /\ RefHolds(r) /\ ~Expired(r) /\ tx[r].sent <= Balance

\* The node executes a transaction it finds valid, once on its chain, in the newest block.
Execute(r) ==
  LET rest == IF Request[r].self THEN Balance ELSE Balance - tx[r].sent IN
  /\ r \notin Paid
  /\ Accepts(r)
  /\ balance' = [balance EXCEPT ![Len(chain)] = rest]
  /\ block' = [block EXCEPT ![r] = Len(chain)]
  /\ left' = [left EXCEPT ![r] = rest]
  /\ disturbed' = disturbed \cup (Underway \ {r})

\* PushTransaction: executed; executed and the answer lost, so that it is submitted again
\* or given up; or the answer says it expired before that, which the caller does not look
\* at. A refusal changes nothing.
SubmitRawTransaction(r) ==
  /\ pc[r] = "verified"
  /\ \/ Execute(r) /\ pc' \in {pc, [pc EXCEPT ![r] = "submitted"]}
     \/ /\ Expired(r)
        /\ pc' = [pc EXCEPT ![r] = "submitted"]
        /\ UNCHANGED <<balance, block, trackVars>>
  /\ UNCHANGED <<chain, lib, seen, irr, tx, txAmount, asked>>

\* The node takes a submitted transaction, which a reorganisation undid, up again.
Reapply(r) ==
  /\ pc[r] = "submitted"
  /\ Execute(r)
  /\ UNCHANGED <<chain, lib, rawVars>>

-----------------------------------------------------------------------------
(* The specification.                                                      *)

Init ==
  /\ chain = InitChain
  /\ lib = 1
  /\ balance = [h \in 1..Len(InitChain) |-> InitBalance]
  /\ block = [r \in Raw |-> 0]
  /\ pc = [r \in Raw |-> "new"]
  /\ seen = [r \in Raw |-> 0]
  /\ irr = [r \in Raw |-> 0]
  /\ tx = [r \in Raw |-> NoTx]
  /\ txAmount = [r \in Raw |-> 0]
  /\ asked = [r \in Raw |-> 0]
  /\ left = [r \in Raw |-> 0]
  /\ disturbed = {}

Next ==
  \/ NodeAdvance \/ Finalise \/ Deposit
  \/ \E r \in Raw : \/ ReadBalance(r) \/ CheckTo(r) \/ ReadHead(r) \/ Build(r) \/ Fails(r)
                    \/ SignRawTransaction(r) \/ VerifyRawTransaction(r)
                    \/ SubmitRawTransaction(r) \/ Reapply(r)

Spec == Init /\ [][Next]_vars

-----------------------------------------------------------------------------
(* Properties.                                                             *)

\* However the chain is reorganised after (or between) the two calls that read it, a built
\* transaction names, by number and by hash, one block of it, and one no branch can replace.
RefIsFinal ==
  \A r \in Raw : Built(r) =>
    \E h \in 0..(lib - 1) : h % RefMod = tx[r].num /\ HashAt(h) = tx[r].prefix

\* As long as it has not expired, the node finds the reference good: no block since has the
\* same 16-bit number.
RefHoldsForLife ==
  \A r \in Raw : Built(r) /\ ~Expired(r) => RefHolds(r)

\* A summary leaves the retained balance on the account, whatever came in after the balance
\* was read and whichever branch it is executed on, unless another payment of the account
\* crossed it or a reorganisation took money back that was there when it was read (then it
\* may leave less: the code looks at the balance once, at line 329).
LeavesRetained ==
  \A r \in Paid \ disturbed : Request[r].kind = "summary" =>
    left[r] * Fine >= Request[r].retained

\* A summary moves no less than the smallest transfer asked for exceeds the retained balance,
\* but for the rest the chain cannot express: where the two differ by the chain's smallest
\* amount, no summary of nothing is built.
SummaryMovesEnough ==
  \A r \in Raw : Built(r) /\ Request[r].kind = "summary" =>
    (tx[r].sent + 1) * Fine > Request[r].min - Request[r].retained

\* What carries one signature (verified once, of an account with one address) and has not
\* expired is a transaction the node accepts, on whichever branch, although the balance was
\* read before everything else (line 67) and is not looked at again: for as long as no other
\* payment crossed it and no reorganisation took money back.
GoodToSend ==
  \A r \in Raw \ (Paid \cup disturbed) :
    pc[r] = "verified" /\ tx[r].sigs = 1 /\ ~Expired(r) => Accepts(r)

-----------------------------------------------------------------------------
(* The inductive invariant behind them.                                    *)

\* The two calls of a creation, and what the transaction kept of them.
RefSound(r) ==
  /\ pc[r] = "head" => irr[r] \in 1..lib /\ asked[r] - irr[r] <= Lag
  /\ Built(r) => \E h \in 0..(lib - 1) : /\ h % RefMod = tx[r].num
                                         /\ HashAt(h) = tx[r].prefix
                                         /\ asked[r] - h <= Lag + 1

\* Of any raw transaction: before the amount is fixed, the balance seen is one the account
\* still has, unless it was disturbed; from then on, the amount is.
CoverSound(r) ==
  /\ r \in Paid => pc[r] \in {"verified", "submitted"}
  /\ pc[r] \in {"from", "to", "head"} /\ r \notin disturbed => seen[r] <= Balance
  /\ pc[r] \in {"to", "head"} /\ Request[r].kind = "transfer"
       => seen[r] * Fine >= Request[r].amount
  /\ Built(r) /\ r \notin disturbed \cup Paid => tx[r].sent <= Balance

\* A summary's amount, before and after it is fixed, and what it left.
FundsSound(r) ==
  LET q == Request[r] IN
  q.kind = "summary" =>
    /\ pc[r] # "from"
    /\ pc[r] \in {"to", "head"} => seen[r] * Fine >= q.retained /\ seen[r] * Fine >= q.min
    /\ Built(r) => (tx[r].sent + 1) * Fine > q.min - q.retained
    /\ Built(r) /\ r \notin disturbed \cup Paid
         => (Balance - tx[r].sent) * Fine >= q.retained
    /\ r \in Paid \ disturbed => left[r] * Fine >= q.retained

IInv == /\ TypeOK
        /\ Len(chain) - lib <= Lag
        /\ \A r \in Raw : RefSound(r) /\ CoverSound(r) /\ FundsSound(r)

-----------------------------------------------------------------------------
(* What a comment of the code says and the code does not do.               *)

\* The comment above TxAmount, "the amount the account actually transfers": what is recorded
\* is what the transaction moves.
RecordedIsSent ==
  \A r \in Raw : Built(r) /\ ~Request[r].self => txAmount[r] = -(tx[r].sent * Fine)

=============================================================================
