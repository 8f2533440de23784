---------------------------- MODULE TxDecoderProofs ----------------------------
(***************************************************************************)
(* Proofs about TxDecoder, for all chains, requests and values of the      *)
(* bounds: its types, that a built transaction refers to a block no branch *)
(* can replace and that the node finds the reference good as long as the   *)
(* transaction lives, that it is accepted, and what a summary leaves, when *)
(* neither another payment nor a reorganisation takes from the balance     *)
(* that was read.                                                          *)
(***************************************************************************)
EXTENDS TxDecoder, TLAPS

-----------------------------------------------------------------------------
(* The numbers.                                                            *)

\* An amount is cut off, never rounded up.
LEMMA CutOff ==
  ASSUME NEW a \in Nat
  PROVE  SentOf(a) \in Nat /\ SentOf(a) * Fine <= a
  <1>1. Fine \in Nat /\ Fine > 0
    BY RequestAssumption
  <1> QED
    BY <1>1 DEF SentOf

\* What is cut off is less than one.
LEMMA CutOffLess ==
  ASSUME NEW a \in Nat
  PROVE  (SentOf(a) + 1) * Fine > a
  <1>1. Fine \in Nat /\ Fine > 0
    BY RequestAssumption
  <1>2. /\ a = Fine * (a \div Fine) + (a % Fine)
        /\ a % Fine < Fine /\ a \div Fine \in Nat
    BY <1>1
  <1>3. (a \div Fine + 1) * Fine = Fine * (a \div Fine) + Fine /\ a % Fine \in Nat
    BY <1>1, <1>2
  <1>4. Fine * (a \div Fine) \in Nat
    BY <1>1, <1>2
  <1> QED
    BY <1>1, <1>2, <1>3, <1>4 DEF SentOf

LEMMA NumFits ==
  ASSUME NEW l \in Nat, l >= 1
  PROVE  RefBlockNum(l) \in 0..(RefMod - 1)
  <1>1. RefMod \in Nat /\ RefMod > 0
    BY RefAssumption
  <1> QED
    BY <1>1 DEF RefBlockNum

\* Amounts in parts keep the order.
LEMMA MoreParts ==
  ASSUME NEW a \in Int, NEW b \in Int, a <= b
  PROVE  a * Fine <= b * Fine
  <1>1. Fine \in Nat
    BY RequestAssumption
  <1>2. (b - a) * Fine >= 0
    BY <1>1
  <1>3. (b - a) * Fine = b * Fine - a * Fine
    BY <1>1
  <1> QED
    BY <1>1, <1>2, <1>3

\* And amounts in parts that keep the order come from amounts that do.
LEMMA FewerParts ==
  ASSUME NEW a \in Int, NEW b \in Int, a * Fine <= b * Fine
  PROVE  a <= b
  <1>1. Fine \in Nat /\ Fine >= 1
    BY RequestAssumption
  <1> SUFFICES ASSUME a >= b + 1 PROVE FALSE
    OBVIOUS
  <1>2. (b + 1) * Fine <= a * Fine
    BY MoreParts
  <1>3. (b + 1) * Fine = b * Fine + Fine /\ b * Fine \in Int /\ a * Fine \in Int
    BY <1>1
  <1> QED
    BY <1>1, <1>2, <1>3

\* What is below a number is below any larger one.
LEMMA StaysBelow ==
  ASSUME NEW a \in Nat, NEW b \in Nat, a <= b, NEW h \in 0..(a - 1)
  PROVE  h \in 0..(b - 1)
  OBVIOUS

LEMMA RequestTypes ==
  ASSUME NEW r \in Raw
  PROVE  /\ Request[r].kind \in {"transfer", "summary"} /\ MaxKeys \in Nat /\ MaxSigs \in Nat
         /\ Request[r].amount \in Nat /\ Request[r].min \in Nat
         /\ Request[r].retained \in Nat /\ Request[r].self \in BOOLEAN
  BY RequestAssumption

LEMMA ChainTypes ==
  ASSUME NEW c \in Chains
  PROVE  /\ Len(c) \in Nat /\ Len(c) >= 1
         /\ \A h \in 1..Len(c) : c[h] \in Hash
  BY ChainAssumption

-----------------------------------------------------------------------------
(* The steps.                                                              *)

LEMMA InitInv == Init => IInv
  <1> SUFFICES ASSUME Init PROVE IInv
    OBVIOUS
  <1>1. /\ Len(chain) \in Nat /\ Len(chain) >= 1 /\ Len(chain) <= Lag + 1 /\ Lag \in Nat
        /\ RefMod \in Nat /\ RefMod > 0
    BY ChainAssumption, ChainTypes, RefAssumption DEF Init
  <1>2. TypeOK
    BY <1>1, ChainAssumption, RequestAssumption DEF Init, TypeOK, NoTx, States
  <1>3. Len(chain) - lib <= Lag
    BY <1>1 DEF Init
  <1>4. \A r \in Raw : RefSound(r) /\ CoverSound(r) /\ FundsSound(r)
    BY DEF Init, RefSound, CoverSound, FundsSound, Built, Paid
  <1> QED
    BY <1>2, <1>3, <1>4 DEF IInv

\* What the node's variables are.
LEMMA NodeTypes ==
  ASSUME TypeOK
  PROVE  /\ chain \in Chains /\ Len(chain) \in Nat /\ lib \in Nat
         /\ lib >= 1 /\ lib <= Len(chain) /\ Lag \in Nat
         /\ Balance \in Nat /\ Balance <= MaxBalance /\ MaxBalance \in Nat
  <1>1. /\ chain \in Chains /\ Len(chain) \in Nat /\ lib \in 1..Len(chain) /\ Lag \in Nat
        /\ MaxBalance \in Nat
    BY ChainTypes, RequestAssumption, RefAssumption DEF TypeOK
  <1>2. Len(chain) \in lib..Len(chain)
    BY <1>1
  <1>3. Balance \in 0..MaxBalance
    BY <1>2 DEF TypeOK, Balance
  <1> QED
    BY <1>1, <1>3

\* The node leaves a raw transaction's part of the invariant alone if it disturbs it, and
\* otherwise neither undoes it nor lets the balance sink below what is still to be paid of.
LEMMA NodeKeeps ==
  ASSUME IInv, NEW r \in Raw, UNCHANGED <<rawVars, left>>, Balance' \in Nat,
         disturbed \subseteq disturbed', r \in Paid' => r \in Paid,
         r \notin disturbed' /\ r \in Paid => r \in Paid',
         r \notin disturbed' /\ r \in Underway => Balance <= Balance'
  PROVE  CoverSound(r)' /\ FundsSound(r)'
  <1>1. /\ Balance \in Nat /\ seen[r] \in Nat /\ tx[r].sent \in Nat
        /\ Request[r].retained \in Nat
    BY NodeTypes, RequestTypes DEF IInv, TypeOK
  <1>2. UNCHANGED <<pc, seen, irr, tx, txAmount, asked, left>>
    BY DEF rawVars
  <1>3. CoverSound(r) /\ FundsSound(r)
    BY DEF IInv
  <1>4. pc[r] \in {"from", "to", "head"} \/ (Built(r) /\ r \notin Paid) => r \in Underway
    BY <1>3 DEF Underway, CoverSound, Built
  <1>5. CoverSound(r)'
    <2>1. ASSUME r \notin disturbed', r \in Underway
          PROVE  /\ seen[r] <= Balance => seen[r] <= Balance'
                 /\ tx[r].sent <= Balance => tx[r].sent <= Balance'
      BY <1>1, <2>1
    <2> QED
      BY <1>2, <1>3, <1>4, <2>1 DEF CoverSound, Built
  <1>6. FundsSound(r)'
    <2>1. ASSUME r \notin disturbed', r \in Underway,
                 (Balance - tx[r].sent) * Fine >= Request[r].retained
          PROVE  (Balance' - tx[r].sent) * Fine >= Request[r].retained
      <3>1. (Balance - tx[r].sent) * Fine <= (Balance' - tx[r].sent) * Fine
        BY <1>1, <2>1, MoreParts
      <3>2. (Balance - tx[r].sent) * Fine \in Int /\ (Balance' - tx[r].sent) * Fine \in Int
        BY <1>1, RequestAssumption
      <3> QED
        BY <1>1, <2>1, <3>1, <3>2
    <2> QED
      BY <1>2, <1>3, <1>4, <2>1 DEF FundsSound, Built
  <1> QED
    BY <1>5, <1>6

\* A branch switch: the balance falls to that of the fork only for those it disturbs.
LEMMA AdvanceKeeps ==
  ASSUME IInv, NodeAdvance
  PROVE  /\ chain' \in Chains /\ Len(chain') \in Nat /\ lib <= Len(chain') /\ lib' = lib
         /\ \A h \in 1..lib : chain'[h] = chain[h]
         /\ Len(chain') - lib <= Lag
         /\ balance' \in [lib..Len(chain') -> 0..MaxBalance]
         /\ block' \in [Raw -> Nat] /\ disturbed \subseteq disturbed' /\ disturbed' \subseteq Raw
         /\ UNCHANGED <<rawVars, left>>
         /\ \A r \in Raw : /\ r \in Paid' => r \in Paid
                           /\ r \notin disturbed' /\ r \in Paid => r \in Paid'
                           /\ r \notin disturbed' /\ r \in Underway => Balance <= Balance'
  <1>1. PICK c \in Chains, fork \in lib..Len(chain) :
          /\ Len(c) > Len(chain)
          /\ Len(c) - lib <= Lag
          /\ \A h \in 1..fork : c[h] = chain[h]
          /\ chain' = c
          /\ balance' = [h \in lib..Len(c) |-> IF h <= fork THEN balance[h] ELSE balance[fork]]
          /\ block' = [r \in Raw |-> IF block[r] > fork THEN 0 ELSE block[r]]
          /\ disturbed' = disturbed \cup {r \in Raw : block[r] > fork}
                             \cup (IF balance[fork] < Balance THEN Underway ELSE {})
          /\ UNCHANGED <<lib, rawVars, left>>
    BY DEF NodeAdvance
  <1>2. /\ Len(chain) \in Nat /\ lib \in Nat /\ lib >= 1 /\ lib <= Len(chain)
        /\ Len(c) \in Nat /\ Balance \in Nat
        /\ balance \in [lib..Len(chain) -> 0..MaxBalance] /\ block \in [Raw -> Nat]
        /\ disturbed \subseteq Raw /\ Underway \subseteq Raw
    BY NodeTypes, ChainTypes DEF IInv, TypeOK, Underway
  <1>3. balance[fork] \in 0..MaxBalance
    BY <1>2
  <1>4. balance' \in [lib..Len(c) -> 0..MaxBalance]
    <2>1. ASSUME NEW h \in lib..Len(c), h <= fork PROVE h \in lib..Len(chain)
      BY <1>2, <2>1
    <2>2. \A h \in lib..Len(c) :
            (IF h <= fork THEN balance[h] ELSE balance[fork]) \in 0..MaxBalance
      BY <1>2, <1>3, <2>1
    <2> QED
      BY <1>1, <2>2
  <1>5. Balance' = balance[fork]
    <2>1. Len(c) \in lib..Len(c) /\ ~(Len(c) <= fork)
      BY <1>1, <1>2
    <2> QED
      BY <1>1, <2>1 DEF Balance
  <1>6. ASSUME NEW r \in Raw
        PROVE  /\ r \in Paid' => r \in Paid
               /\ r \notin disturbed' /\ r \in Paid => r \in Paid'
               /\ r \notin disturbed' /\ r \in Underway => Balance <= Balance'
    <2>1. block'[r] = IF block[r] > fork THEN 0 ELSE block[r]
      BY <1>1
    <2>2. r \notin disturbed' => /\ ~(block[r] > fork)
                                 /\ r \in Underway => ~(balance[fork] < Balance)
      BY <1>1
    <2>3. balance[fork] \in Nat
      BY <1>3, RequestAssumption
    <2> QED
      BY <1>2, <1>5, <2>1, <2>2, <2>3 DEF Paid
  <1>7. /\ \A h \in 1..lib : chain'[h] = chain[h]
        /\ block' \in [Raw -> Nat]
    BY <1>1, <1>2
  <1>8. lib <= Len(c) /\ disturbed \subseteq disturbed' /\ disturbed' \subseteq Raw
    BY <1>1, <1>2
  <1> QED
    BY <1>1, <1>2, <1>4, <1>6, <1>7, <1>8

\* A raw transaction that keeps its place does not mind what the node does.
LEMMA NodeStep ==
  ASSUME IInv, NodeAdvance \/ Finalise \/ Deposit PROVE IInv'
  <1>1. /\ chain' \in Chains /\ Len(chain') \in Nat /\ lib \in Nat /\ lib' \in Nat
        /\ Len(chain) \in Nat
        /\ lib >= 1 /\ lib <= lib' /\ lib' <= Len(chain') /\ Lag \in Nat
        /\ \A h \in 1..lib : chain'[h] = chain[h]
        /\ Len(chain') - lib' <= Lag
        /\ balance' \in [lib'..Len(chain') -> 0..MaxBalance]
        /\ block' \in [Raw -> Nat] /\ disturbed \subseteq disturbed' /\ disturbed' \subseteq Raw
        /\ UNCHANGED <<rawVars, left>>
        /\ \A r \in Raw : /\ r \in Paid' => r \in Paid
                          /\ r \notin disturbed' /\ r \in Paid => r \in Paid'
                          /\ r \notin disturbed' /\ r \in Underway => Balance <= Balance'
    <2>1. /\ chain \in Chains /\ Len(chain) \in Nat /\ lib \in Nat
          /\ lib >= 1 /\ lib <= Len(chain) /\ Lag \in Nat
          /\ Balance \in Nat /\ Balance <= MaxBalance /\ MaxBalance \in Nat
          /\ balance \in [lib..Len(chain) -> 0..MaxBalance] /\ block \in [Raw -> Nat]
          /\ disturbed \subseteq Raw /\ Len(chain) - lib <= Lag
      BY NodeTypes DEF IInv, TypeOK
    <2>2. CASE NodeAdvance
      BY <2>1, <2>2, AdvanceKeeps
    <2>3. CASE Finalise
      <3>1. /\ lib' \in (lib + 1)..Len(chain)
            /\ balance' = [h \in lib'..Len(chain) |-> balance[h]]
            /\ UNCHANGED <<chain, block, rawVars, left, disturbed>>
        BY <2>3 DEF Finalise, trackVars
      <3>2. Len(chain) \in lib'..Len(chain) /\ \A h \in lib'..Len(chain) : h \in lib..Len(chain)
        BY <2>1, <3>1
      <3>3. /\ balance' \in [lib'..Len(chain') -> 0..MaxBalance]
            /\ Balance' = Balance
        BY <2>1, <3>1, <3>2 DEF Balance
      <3>4. Len(chain) - lib' <= Lag
        BY <2>1, <3>1
      <3> QED
        BY <2>1, <3>1, <3>3, <3>4 DEF Paid
    <2>4. CASE Deposit
      <3>1. PICK b \in (Balance + 1)..MaxBalance : balance' = [balance EXCEPT ![Len(chain)] = b]
        BY <2>4 DEF Deposit
      <3>2. UNCHANGED <<chain, lib, block, rawVars, left, disturbed>>
        BY <2>4 DEF Deposit, trackVars
      <3>3. Len(chain) \in lib..Len(chain) /\ b \in 0..MaxBalance /\ Balance <= b
        BY <2>1
      <3>4. balance' \in [lib..Len(chain) -> 0..MaxBalance] /\ Balance' = b
        BY <2>1, <3>1, <3>2, <3>3 DEF Balance
      <3> QED
        BY <2>1, <3>2, <3>3, <3>4 DEF Paid
    <2> QED
      BY <2>2, <2>3, <2>4
  <1>2. UNCHANGED <<pc, seen, irr, tx, txAmount, asked, left>>
    BY <1>1 DEF rawVars
  <1>3. TypeOK'
    BY <1>1, <1>2 DEF IInv, TypeOK
  <1>4. ASSUME NEW r \in Raw PROVE RefSound(r)'
    <2>1. ASSUME pc[r] = "head" PROVE irr'[r] \in 1..lib' /\ asked'[r] - irr'[r] <= Lag
      BY <1>1, <1>2, <2>1 DEF IInv, RefSound
    <2>2. ASSUME Built(r)
          PROVE  \E h \in 0..(lib' - 1) : /\ h % RefMod = tx'[r].num
                                          /\ HashAt(h)' = tx'[r].prefix
                                          /\ asked'[r] - h <= Lag + 1
      <3>1. PICK h \in 0..(lib - 1) : /\ h % RefMod = tx[r].num
                                      /\ HashAt(h) = tx[r].prefix
                                      /\ asked[r] - h <= Lag + 1
        BY <2>2 DEF IInv, RefSound
      <3>2. h \in 0..(lib' - 1)
        BY <1>1, StaysBelow
      <3>3. h # 0 => h \in 1..lib
        BY <1>1
      <3>4. HashAt(h)' = HashAt(h)
        BY <1>1, <3>3 DEF HashAt
      <3> QED
        BY <1>2, <3>1, <3>2, <3>4
    <2> QED
      BY <1>2, <2>1, <2>2 DEF RefSound, Built
  <1>5. ASSUME NEW r \in Raw PROVE CoverSound(r)' /\ FundsSound(r)'
    <2>1. Len(chain') \in lib'..Len(chain')
      BY <1>1
    <2>2. Balance' \in Nat
      BY <1>1, <2>1, RequestAssumption DEF Balance
    <2> QED
      BY <1>1, <2>2, NodeKeeps
  <1> QED
    BY <1>1, <1>3, <1>4, <1>5 DEF IInv

\* A step of one raw transaction that leaves the node and the history alone: the others
\* keep their part, so that what is to be shown is its own and the types.
LEMMA OwnStep ==
  ASSUME IInv, NEW r \in Raw, TypeOK', RefSound(r)', CoverSound(r)', FundsSound(r)',
         UNCHANGED <<nodeVars, trackVars>>,
         \A s \in Raw \ {r} : /\ pc'[s] = pc[s] /\ seen'[s] = seen[s] /\ irr'[s] = irr[s]
                              /\ tx'[s] = tx[s] /\ asked'[s] = asked[s]
  PROVE  IInv'
  <1>1. /\ UNCHANGED <<chain, lib, balance, block, left, disturbed>>
        /\ Paid' = Paid /\ Balance' = Balance
    BY DEF nodeVars, trackVars, Paid, Balance
  <1>2. ASSUME NEW s \in Raw \ {r} PROVE RefSound(s)' /\ CoverSound(s)' /\ FundsSound(s)'
    <2>1. RefSound(s) /\ CoverSound(s) /\ FundsSound(s)
      BY DEF IInv
    <2>2. RefSound(s)'
      BY <1>1, <2>1 DEF RefSound, Built, HashAt
    <2>3. FundsSound(s)'
      BY <1>1, <2>1 DEF FundsSound, Built
    <2>4. CoverSound(s)'
      BY <1>1, <2>1 DEF CoverSound, Built
    <2> QED
      BY <2>2, <2>3, <2>4
  <1> QED
    BY <1>1, <1>2 DEF IInv

\* Only how far it is changes.
LEMMA OnlyPc ==
  ASSUME IInv, NEW r \in Raw, NEW to \in States, pc' = [pc EXCEPT ![r] = to],
         UNCHANGED <<nodeVars, seen, irr, tx, txAmount, asked, trackVars>>
  PROVE  /\ TypeOK'
         /\ pc'[r] = to
         /\ \A s \in Raw \ {r} : pc'[s] = pc[s]
  BY DEF IInv, TypeOK, nodeVars, trackVars

LEMMA ReadBalanceStep ==
  ASSUME IInv, NEW r \in Raw, ReadBalance(r) PROVE IInv'
  <1> DEFINE q == Request[r]
  <1>1. /\ Balance \in Nat /\ q.kind \in {"transfer", "summary"}
        /\ q.min \in Nat /\ q.retained \in Nat /\ Fine \in Nat
    BY NodeTypes, RequestTypes, RequestAssumption DEF IInv
  <1>2. seen'[r] = Balance /\ \A s \in Raw \ {r} : seen'[s] = seen[s]
    BY DEF ReadBalance, IInv, TypeOK
  <1>3. /\ \A s \in Raw \ {r} : pc'[s] = pc[s]
        /\ pc'[r] \in {"from", "to", "failed"}
        /\ q.kind = "summary" => pc'[r] # "from"
        /\ q.kind = "summary" /\ pc'[r] = "to" => Balance * Fine >= q.min /\ q.min >= q.retained
    BY <1>1 DEF ReadBalance, EnoughFor, IInv, TypeOK
  <1>4. /\ UNCHANGED <<chain, lib, balance, block, irr, tx, txAmount, asked, left, disturbed>>
        /\ Paid' = Paid /\ Balance' = Balance
    BY DEF ReadBalance, nodeVars, trackVars, Paid, Balance
  <1>5. TypeOK'
    <2>1. pc' \in [Raw -> States] /\ seen' \in [Raw -> Nat]
      BY <1>1, <1>2, <1>3 DEF ReadBalance, IInv, TypeOK, States
    <2> QED
      BY <1>4, <2>1 DEF IInv, TypeOK
  <1>6. RefSound(r)'
    BY <1>3 DEF RefSound, Built
  <1>7. FundsSound(r)'
    <2>1. Balance * Fine >= q.min /\ q.min >= q.retained => Balance * Fine >= q.retained
      BY <1>1
    <2>2. r \notin Paid
      BY DEF IInv, CoverSound, ReadBalance
    <2> QED
      BY <1>1, <1>2, <1>3, <1>4, <2>1, <2>2 DEF FundsSound, Built
  <1>8. CoverSound(r)'
    <2>1. r \notin Paid
      BY DEF IInv, CoverSound, ReadBalance
    <2>2. pc'[r] = "to" => q.kind = "summary"
      BY DEF ReadBalance, IInv, TypeOK
    <2> QED
      BY <1>1, <1>2, <1>3, <1>4, <2>1, <2>2 DEF CoverSound, Built
  <1> QED
    BY <1>2, <1>3, <1>4, <1>5, <1>6, <1>7, <1>8, OwnStep DEF nodeVars, trackVars

LEMMA CheckToStep ==
  ASSUME IInv, NEW r \in Raw, CheckTo(r) PROVE IInv'
  <1>1. PICK to \in {"to", "failed"} :
          /\ pc' = [pc EXCEPT ![r] = to]
          /\ to = "to" => seen[r] * Fine >= Request[r].amount
    BY DEF CheckTo, Affords
  <1>2. /\ TypeOK' /\ pc'[r] = to
        /\ \A s \in Raw \ {r} : pc'[s] = pc[s]
    BY <1>1, OnlyPc DEF CheckTo, States
  <1>3. RefSound(r)'
    BY <1>2 DEF RefSound, Built
  <1>4. FundsSound(r)'
    <2>1. Request[r].kind # "summary"
      BY DEF IInv, FundsSound, CheckTo
    <2> QED
      BY <2>1 DEF FundsSound
  <1>5. CoverSound(r)'
    <2>1. CoverSound(r)
      BY DEF IInv
    <2>2. /\ pc[r] = "from" /\ UNCHANGED <<seen, tx, disturbed>>
          /\ Paid' = Paid /\ Balance' = Balance
      BY DEF CheckTo, nodeVars, trackVars, Paid, Balance
    <2> QED
      BY <1>1, <1>2, <2>1, <2>2 DEF CoverSound, Built
  <1> QED
    BY <1>2, <1>3, <1>4, <1>5, OwnStep DEF CheckTo

LEMMA ReadHeadStep ==
  ASSUME IInv, NEW r \in Raw, ReadHead(r) PROVE IInv'
  <1>1. /\ Len(chain) \in Nat /\ lib \in 1..Len(chain) /\ Len(chain) - lib <= Lag
        /\ lib \in Nat
    BY ChainTypes DEF IInv, TypeOK
  <1>2. /\ irr'[r] = lib /\ asked'[r] = Len(chain) /\ pc'[r] = "head"
        /\ \A s \in Raw \ {r} : pc'[s] = pc[s] /\ irr'[s] = irr[s] /\ asked'[s] = asked[s]
    BY DEF ReadHead, RefHeight, IInv, TypeOK
  <1>3. /\ UNCHANGED <<chain, lib, balance, block, seen, tx, txAmount, left, disturbed>>
        /\ Paid' = Paid /\ Balance' = Balance
    BY DEF ReadHead, nodeVars, trackVars, Paid, Balance
  <1>4. TypeOK'
    <2>1. /\ irr' \in [Raw -> Nat] /\ asked' \in [Raw -> Nat] /\ pc' \in [Raw -> States]
      BY <1>1 DEF ReadHead, RefHeight, IInv, TypeOK, States
    <2> QED
      BY <1>3, <2>1 DEF IInv, TypeOK
  <1>5. RefSound(r)'
    BY <1>1, <1>2, <1>3 DEF RefSound, Built
  <1>6. FundsSound(r)'
    <2>1. pc[r] = "to" /\ FundsSound(r)
      BY DEF ReadHead, IInv
    <2> QED
      BY <1>2, <1>3, <2>1 DEF FundsSound, Built
  <1>7. CoverSound(r)'
    <2>1. pc[r] = "to" /\ CoverSound(r)
      BY DEF ReadHead, IInv
    <2> QED
      BY <1>2, <1>3, <2>1 DEF CoverSound, Built
  <1> QED
    BY <1>2, <1>3, <1>4, <1>5, <1>6, <1>7, OwnStep DEF nodeVars, trackVars

LEMMA FailsStep ==
  ASSUME IInv, NEW r \in Raw, Fails(r) PROVE IInv'
  <1>1. /\ pc'[r] = "failed"
        /\ \A s \in Raw \ {r} : /\ pc'[s] = pc[s] /\ seen'[s] = seen[s] /\ irr'[s] = irr[s]
                                /\ tx'[s] = tx[s] /\ asked'[s] = asked[s]
    BY DEF Fails, IInv, TypeOK
  <1>2. /\ UNCHANGED <<chain, lib, balance, block, left, disturbed>>
        /\ Paid' = Paid /\ Balance' = Balance
    BY DEF Fails, nodeVars, trackVars, Paid, Balance
  <1>3. TypeOK'
    <2>1. /\ seen' \in [Raw -> Nat] /\ irr' \in [Raw -> Nat] /\ asked' \in [Raw -> Nat]
          /\ pc' \in [Raw -> States]
      BY DEF Fails, IInv, TypeOK, States
    <2>2. /\ NoTx \in [num : 0..(RefMod - 1), prefix : Hash \cup {Genesis}, sent : Nat,
                       keys : 0..MaxKeys, sigs : 0..MaxSigs]
          /\ tx' = [tx EXCEPT ![r] = NoTx] /\ txAmount' = [txAmount EXCEPT ![r] = 0]
      BY RefAssumption, RequestAssumption DEF Fails, NoTx
    <2>3. /\ tx' \in [Raw -> [num : 0..(RefMod - 1), prefix : Hash \cup {Genesis}, sent : Nat,
                              keys : 0..MaxKeys, sigs : 0..MaxSigs]]
          /\ txAmount' \in [Raw -> Int]
      BY <2>2 DEF IInv, TypeOK
    <2> QED
      BY <1>2, <2>1, <2>3 DEF IInv, TypeOK
  <1>4. RefSound(r)'
    BY <1>1 DEF RefSound, Built
  <1>5. FundsSound(r)'
    <2>1. FundsSound(r)
      BY DEF IInv
    <2> QED
      BY <1>1, <1>2, <2>1 DEF FundsSound, Built
  <1>6. CoverSound(r)'
    <2>1. r \notin Paid
      BY DEF IInv, CoverSound, Fails
    <2> QED
      BY <1>1, <1>2, <2>1 DEF CoverSound, Built
  <1> QED
    BY <1>1, <1>2, <1>3, <1>4, <1>5, <1>6, OwnStep DEF nodeVars, trackVars

LEMMA SignStep ==
  ASSUME IInv, NEW r \in Raw, SignRawTransaction(r) PROVE IInv'
  <1>1. /\ TypeOK' /\ pc'[r] = "signed" /\ pc[r] = "built"
        /\ \A s \in Raw \ {r} : pc'[s] = pc[s]
    BY OnlyPc DEF SignRawTransaction, States
  <1>2. /\ UNCHANGED <<chain, lib, balance, block, seen, irr, tx, asked, left, disturbed>>
        /\ Paid' = Paid /\ Balance' = Balance
    BY DEF SignRawTransaction, nodeVars, trackVars, Paid, Balance
  <1>3. RefSound(r) /\ CoverSound(r) /\ FundsSound(r)
    BY DEF IInv
  <1>4. RefSound(r)'
    BY <1>1, <1>2, <1>3 DEF RefSound, Built, HashAt
  <1>5. FundsSound(r)'
    BY <1>1, <1>2, <1>3 DEF FundsSound, Built
  <1>6. CoverSound(r)'
    BY <1>1, <1>2, <1>3 DEF CoverSound, Built
  <1> QED
    BY <1>1, <1>2, <1>4, <1>5, <1>6, OwnStep DEF nodeVars, trackVars

LEMMA VerifyStep ==
  ASSUME IInv, NEW r \in Raw, VerifyRawTransaction(r) PROVE IInv'
  <1>1. /\ pc'[r] = "verified" /\ pc[r] \in {"signed", "verified"}
        /\ \A s \in Raw \ {r} : pc'[s] = pc[s] /\ tx'[s] = tx[s]
        /\ tx'[r].num = tx[r].num /\ tx'[r].prefix = tx[r].prefix /\ tx'[r].sent = tx[r].sent
    BY DEF VerifyRawTransaction, IInv, TypeOK
  <1>2. /\ UNCHANGED <<chain, lib, balance, block, seen, irr, txAmount, asked, left, disturbed>>
        /\ Paid' = Paid /\ Balance' = Balance
    BY DEF VerifyRawTransaction, nodeVars, trackVars, Paid, Balance
  <1>3. TypeOK'
    <2>1. pc' \in [Raw -> States]
      BY DEF VerifyRawTransaction, IInv, TypeOK, States
    <2>2. tx[r].sigs + tx[r].keys \in 0..MaxSigs
      BY RequestTypes DEF VerifyRawTransaction, IInv, TypeOK
    <2>3. tx' \in [Raw -> [num : 0..(RefMod - 1), prefix : Hash \cup {Genesis}, sent : Nat,
                          keys : 0..MaxKeys, sigs : 0..MaxSigs]]
      BY <2>2 DEF VerifyRawTransaction, IInv, TypeOK
    <2> QED
      BY <1>2, <2>1, <2>3 DEF IInv, TypeOK
  <1>4. RefSound(r) /\ CoverSound(r) /\ FundsSound(r)
    BY DEF IInv
  <1>5. RefSound(r)'
    BY <1>1, <1>2, <1>4 DEF RefSound, Built, HashAt
  <1>6. FundsSound(r)'
    BY <1>1, <1>2, <1>4 DEF FundsSound, Built
  <1>7. CoverSound(r)'
    BY <1>1, <1>2, <1>4 DEF CoverSound, Built
  <1> QED
    BY <1>1, <1>2, <1>3, <1>5, <1>6, <1>7, OwnStep DEF nodeVars, trackVars

\* What is built: the reference is the block below the irreversible one that was read, the
\* amount what the balance read leaves above the retained part.
LEMMA BuildStep ==
  ASSUME IInv, NEW r \in Raw, Build(r) PROVE IInv'
  <1> DEFINE q == Request[r]
             l == irr[r]
             amount == AmountOf(q, seen[r])
  <1>1. /\ l \in Nat /\ l >= 1 /\ l <= lib /\ asked[r] - l <= Lag
        /\ lib \in Nat /\ asked[r] \in Nat /\ Lag \in Nat /\ lib <= Len(chain)
        /\ chain \in Chains /\ Len(chain) \in Nat
    BY ChainTypes, RefAssumption DEF Build, IInv, TypeOK, RefSound
  <1>2. /\ Fine \in Nat /\ seen[r] \in Nat /\ Balance \in Nat
        /\ q.kind \in {"transfer", "summary"} /\ q.amount \in Nat /\ q.retained \in Nat
        /\ q.min \in Nat /\ MaxSigs \in Nat /\ 0 \in 0..MaxSigs
    <2>1. Fine \in Nat /\ seen[r] \in Nat
      BY RequestAssumption DEF IInv, TypeOK
    <2>2. Balance \in Nat
      BY NodeTypes DEF IInv
    <2> QED
      BY <2>1, <2>2, RequestTypes
  <1>3. /\ q.kind = "summary" => /\ seen[r] * Fine >= q.retained
                                 /\ seen[r] * Fine >= q.min
                                 /\ amount = seen[r] * Fine - q.retained
        /\ q.kind = "transfer" => amount = q.amount /\ seen[r] * Fine >= q.amount
        /\ r \notin Paid
        /\ r \notin disturbed => seen[r] <= Balance
    BY DEF Build, IInv, CoverSound, FundsSound, AmountOf
  <1>4. amount \in Nat
    BY <1>2, <1>3 DEF AmountOf
  <1>5. /\ SentOf(amount) \in Nat /\ SentOf(amount) * Fine <= amount
        /\ (SentOf(amount) + 1) * Fine > amount
    BY <1>4, CutOff, CutOffLess
  <1>6. RefBlockNum(l) \in 0..(RefMod - 1) /\ RefBlockPrefix(l) \in Hash \cup {Genesis}
    <2>1. l - 1 = 0 \/ l - 1 \in 1..Len(chain)
      BY <1>1
    <2> QED
      BY <1>1, <2>1, NumFits, ChainTypes DEF RefBlockPrefix, HashAt
  <1>6a. PICK keys \in 1..MaxKeys :
          tx' = [tx EXCEPT ![r] =
                   [num |-> RefBlockNum(l), prefix |-> RefBlockPrefix(l),
                    sent |-> SentOf(amount), keys |-> keys, sigs |-> 0]]
    BY DEF Build
  <1> DEFINE built == [num |-> RefBlockNum(l), prefix |-> RefBlockPrefix(l),
                       sent |-> SentOf(amount), keys |-> keys, sigs |-> 0]
  <1>7. /\ tx' = [tx EXCEPT ![r] = built]
        /\ txAmount' = [txAmount EXCEPT ![r] = IF q.self THEN 0 ELSE -amount]
        /\ seen' = [seen EXCEPT ![r] = 0] /\ irr' = [irr EXCEPT ![r] = 0]
        /\ pc' = [pc EXCEPT ![r] = "built"]
        /\ UNCHANGED <<chain, lib, balance, block, asked, left, disturbed>>
        /\ Paid' = Paid /\ Balance' = Balance
    BY <1>6a DEF Build, nodeVars, trackVars, Paid, Balance
  <1>8. /\ built \in [num : 0..(RefMod - 1), prefix : Hash \cup {Genesis}, sent : Nat,
                      keys : 0..MaxKeys, sigs : 0..MaxSigs]
        /\ (IF q.self THEN 0 ELSE -amount) \in Int
        /\ built.num = RefBlockNum(l) /\ built.prefix = RefBlockPrefix(l)
        /\ built.sent = SentOf(amount)
    BY <1>2, <1>4, <1>5, <1>6, RequestTypes
  <1> HIDE DEF built, amount
  <1>9. /\ tx'[r] = built /\ pc'[r] = "built"
        /\ \A s \in Raw \ {r} : /\ pc'[s] = pc[s] /\ seen'[s] = seen[s] /\ irr'[s] = irr[s]
                                /\ tx'[s] = tx[s] /\ asked'[s] = asked[s]
    BY <1>7 DEF IInv, TypeOK
  <1>10. TypeOK'
    <2>1. /\ tx' \in [Raw -> [num : 0..(RefMod - 1), prefix : Hash \cup {Genesis}, sent : Nat,
                              keys : 0..MaxKeys, sigs : 0..MaxSigs]]
      BY <1>7, <1>8 DEF IInv, TypeOK
    <2>2. txAmount' \in [Raw -> Int]
      BY <1>7, <1>8 DEF IInv, TypeOK
    <2>3. seen' \in [Raw -> Nat] /\ irr' \in [Raw -> Nat] /\ pc' \in [Raw -> States]
      BY <1>7 DEF IInv, TypeOK, States
    <2> QED
      BY <1>7, <2>1, <2>2, <2>3 DEF IInv, TypeOK
  <1>11. RefSound(r)'
    <2>1. PICK h \in 0..(lib - 1) : h = irr[r] - 1 /\ asked[r] - h <= Lag + 1
      BY <1>1
    <2>2. h % RefMod = tx'[r].num /\ HashAt(h)' = tx'[r].prefix
      <3>1. tx'[r].num = RefBlockNum(irr[r]) /\ tx'[r].prefix = RefBlockPrefix(irr[r])
        BY <1>8, <1>9
      <3>2. RefBlockNum(irr[r]) = h % RefMod /\ RefBlockPrefix(irr[r]) = HashAt(h)
        BY <2>1 DEF RefBlockNum, RefBlockPrefix
      <3>3. HashAt(h)' = HashAt(h)
        BY <1>7 DEF HashAt
      <3> QED
        BY <3>1, <3>2, <3>3
    <2>3. \E k \in 0..(lib' - 1) : /\ k % RefMod = tx'[r].num
                                   /\ HashAt(k)' = tx'[r].prefix
                                   /\ asked'[r] - k <= Lag + 1
      BY <1>7, <2>1, <2>2
    <2> QED
      BY <1>9, <2>3 DEF RefSound
  <1>12. FundsSound(r)'
    <2>1. ASSUME q.kind = "summary", r \notin disturbed
          PROVE  (Balance - SentOf(amount)) * Fine >= q.retained
      <3>1. seen[r] * Fine <= Balance * Fine
        BY <1>2, <1>3, <2>1, MoreParts
      <3>2. (Balance - SentOf(amount)) * Fine = Balance * Fine - SentOf(amount) * Fine
        BY <1>2, <1>5
      <3>3. /\ Balance * Fine \in Int /\ seen[r] * Fine \in Int /\ SentOf(amount) * Fine \in Int
        BY <1>2, <1>5
      <3> QED
        BY <1>2, <1>3, <1>4, <1>5, <2>1, <3>1, <3>2, <3>3
    <2>2. ASSUME q.kind = "summary"
          PROVE  (SentOf(amount) + 1) * Fine > q.min - q.retained
      <3>1. /\ (SentOf(amount) + 1) * Fine \in Int /\ seen[r] * Fine \in Int
            /\ amount = seen[r] * Fine - q.retained /\ seen[r] * Fine >= q.min
        BY <1>2, <1>3, <1>5, <2>2
      <3> QED
        BY <1>2, <1>5, <3>1
    <2> QED
      BY <1>3, <1>7, <1>8, <1>9, <2>1, <2>2 DEF FundsSound, Built
  <1>13. CoverSound(r)'
    <2>1. amount <= seen[r] * Fine /\ seen[r] * Fine \in Int /\ SentOf(amount) * Fine \in Int
      BY <1>2, <1>3, <1>4, <1>5
    <2>2. SentOf(amount) <= seen[r]
      BY <1>2, <1>4, <1>5, <2>1, FewerParts
    <2>3. r \notin disturbed => SentOf(amount) <= Balance
      BY <1>2, <1>3, <1>5, <2>2
    <2> QED
      BY <1>3, <1>7, <1>8, <1>9, <2>3 DEF CoverSound, Built
  <1> QED
    BY <1>7, <1>9, <1>10, <1>11, <1>12, <1>13, OwnStep DEF nodeVars, trackVars

\* Only how far it is changes, among those that have a signed transaction.
LEMMA RefStays ==
  ASSUME IInv, NEW r \in Raw, pc[r] \in {"verified", "submitted"},
         NEW to \in {"verified", "submitted"}, pc' = [pc EXCEPT ![r] = to],
         UNCHANGED <<chain, lib, seen, irr, tx, txAmount, asked>>
  PROVE  /\ pc' \in [Raw -> States] /\ pc'[r] = to
         /\ \A s \in Raw \ {r} : pc'[s] = pc[s]
         /\ \A s \in Raw : RefSound(s)'
  <1>1. /\ pc' \in [Raw -> States] /\ pc'[r] = to
        /\ \A s \in Raw \ {r} : pc'[s] = pc[s]
    BY DEF IInv, TypeOK, States
  <1>2. ASSUME NEW s \in Raw PROVE RefSound(s)'
    <2>1. RefSound(s)
      BY DEF IInv
    <2>2. (pc'[s] = "head" => pc[s] = "head") /\ (Built(s)' => Built(s))
      BY <1>1 DEF Built
    <2> QED
      BY <2>1, <2>2 DEF RefSound, HashAt
  <1> QED
    BY <1>1, <1>2

\* A payment takes from the account what it covered, and disturbs the others.
LEMMA ExecuteStep ==
  ASSUME IInv, NEW r \in Raw, Execute(r), pc[r] \in {"verified", "submitted"},
         NEW to \in {"verified", "submitted"}, pc' = [pc EXCEPT ![r] = to],
         UNCHANGED <<chain, lib, seen, irr, tx, txAmount, asked>>
  PROVE  IInv'
  <1> DEFINE rest == IF Request[r].self THEN Balance ELSE Balance - tx[r].sent
  <1>1. /\ pc' \in [Raw -> States] /\ pc'[r] = to
        /\ \A s \in Raw \ {r} : pc'[s] = pc[s]
        /\ \A s \in Raw : RefSound(s)'
    BY RefStays
  <1>2. /\ Balance \in Nat /\ Balance <= MaxBalance /\ MaxBalance \in Nat
        /\ tx[r].sent \in Nat /\ tx[r].sent <= Balance
        /\ Len(chain) \in Nat /\ lib \in Nat /\ lib >= 1 /\ lib <= Len(chain)
    BY NodeTypes DEF Execute, Accepts, IInv, TypeOK
  <1>3. /\ balance' = [balance EXCEPT ![Len(chain)] = rest]
        /\ block' = [block EXCEPT ![r] = Len(chain)]
        /\ left' = [left EXCEPT ![r] = rest]
        /\ disturbed' = disturbed \cup (Underway \ {r})
        /\ r \notin Paid
    BY DEF Execute
  <1>4. rest \in 0..MaxBalance /\ rest \in Nat /\ Balance - tx[r].sent <= rest
    BY <1>2
  <1> HIDE DEF rest
  <1>5. /\ left' \in [Raw -> Nat] /\ left'[r] = rest
        /\ \A s \in Raw \ {r} : left'[s] = left[s]
    BY <1>3, <1>4 DEF IInv, TypeOK
  <1>6. /\ block' \in [Raw -> Nat] /\ r \in Paid'
        /\ \A s \in Raw \ {r} : s \in Paid' <=> s \in Paid
    BY <1>2, <1>3 DEF IInv, TypeOK, Paid
  <1>7. TypeOK'
    <2>1. balance' \in [lib..Len(chain) -> 0..MaxBalance]
      BY <1>2, <1>3, <1>4 DEF IInv, TypeOK
    <2>2. disturbed' \subseteq Raw
      BY <1>3 DEF IInv, TypeOK, Underway
    <2> QED
      BY <1>1, <1>5, <1>6, <2>1, <2>2 DEF IInv, TypeOK
  <1>8. CoverSound(r)'
    BY <1>1, <1>6 DEF CoverSound
  <1>9. FundsSound(r)'
    <2>1. Request[r].retained \in Nat /\ (r \in disturbed' <=> r \in disturbed)
      BY <1>3, RequestTypes
    <2>2. (Balance - tx[r].sent) * Fine <= rest * Fine
      BY <1>2, <1>4, MoreParts
    <2>3. (Balance - tx[r].sent) * Fine \in Int /\ rest * Fine \in Int
      BY <1>2, <1>4, RequestAssumption
    <2>4. FundsSound(r)
      BY DEF IInv
    <2>5. ASSUME Request[r].kind = "summary", r \notin disturbed
          PROVE  rest * Fine >= Request[r].retained
      <3>1. (Balance - tx[r].sent) * Fine >= Request[r].retained
        BY <1>3, <2>4, <2>5 DEF FundsSound, Built
      <3> QED
        BY <2>1, <2>2, <2>3, <3>1
    <2> QED
      BY <1>1, <1>5, <1>6, <2>1, <2>4, <2>5 DEF FundsSound, Built
  <1>10. ASSUME NEW s \in Raw \ {r} PROVE CoverSound(s)' /\ FundsSound(s)'
    <2>1. CoverSound(s) /\ FundsSound(s)
      BY DEF IInv
    <2>2. /\ pc'[s] = pc[s] /\ seen'[s] = seen[s] /\ tx'[s] = tx[s] /\ left'[s] = left[s]
          /\ s \in Paid' <=> s \in Paid
          /\ s \notin disturbed' => s \notin disturbed /\ s \notin Underway
      BY <1>1, <1>3, <1>5, <1>6
    <2>3. pc[s] \in {"from", "to", "head"} \/ (Built(s) /\ s \notin Paid) => s \in Underway
      BY <2>1 DEF Underway, CoverSound, Built
    <2> QED
      BY <2>1, <2>2, <2>3 DEF CoverSound, FundsSound, Built
  <1> QED
    BY <1>1, <1>7, <1>8, <1>9, <1>10 DEF IInv

\* What comes of a submitted transaction.
LEMMA SubmitStep ==
  ASSUME IInv, NEW r \in Raw, SubmitRawTransaction(r) PROVE IInv'
  <1>1. PICK to \in {"verified", "submitted"} : pc' = [pc EXCEPT ![r] = to]
    BY DEF SubmitRawTransaction, IInv, TypeOK
  <1>2. /\ pc[r] = "verified"
        /\ UNCHANGED <<chain, lib, seen, irr, tx, txAmount, asked>>
    BY DEF SubmitRawTransaction
  <1>3. CASE Execute(r)
    BY <1>1, <1>2, <1>3, ExecuteStep
  <1>4. CASE UNCHANGED <<balance, block, trackVars>>
    <2>1. /\ pc' \in [Raw -> States] /\ pc'[r] = to
          /\ \A s \in Raw \ {r} : pc'[s] = pc[s]
          /\ \A s \in Raw : RefSound(s)'
      BY <1>1, <1>2, RefStays
    <2>2. /\ UNCHANGED <<balance, block, left, disturbed>>
          /\ Paid' = Paid /\ Balance' = Balance
      BY <1>2, <1>4 DEF trackVars, Paid, Balance
    <2>3. TypeOK'
      BY <1>2, <2>1, <2>2 DEF IInv, TypeOK
    <2>4. ASSUME NEW s \in Raw PROVE CoverSound(s)' /\ FundsSound(s)'
      <3>1. CoverSound(s) /\ FundsSound(s)
        BY DEF IInv
      <3> QED
        BY <1>2, <2>1, <2>2, <3>1 DEF CoverSound, FundsSound, Built
    <2> QED
      BY <1>2, <2>1, <2>3, <2>4 DEF IInv
  <1> QED
    BY <1>3, <1>4 DEF SubmitRawTransaction

\* What the node takes up again was undone, and is disturbed.
LEMMA ReapplyStep ==
  ASSUME IInv, NEW r \in Raw, Reapply(r) PROVE IInv'
  <1>1. pc' = [pc EXCEPT ![r] = "submitted"] /\ pc[r] = "submitted"
    BY DEF Reapply, rawVars, IInv, TypeOK
  <1> QED
    BY <1>1, ExecuteStep DEF Reapply, rawVars

-----------------------------------------------------------------------------
(* The theorems.                                                           *)

\* IInv is an invariant of the decoder.
THEOREM Inductive == Spec => []IInv
  <1>1. IInv /\ [Next]_vars => IInv'
    <2> SUFFICES ASSUME IInv, [Next]_vars PROVE IInv'
      OBVIOUS
    <2>1. CASE Next
      BY <2>1, NodeStep, ReadBalanceStep, CheckToStep, ReadHeadStep, BuildStep,
         FailsStep, SignStep, VerifyStep, SubmitStep, ReapplyStep DEF Next
    <2>2. CASE UNCHANGED vars
      BY <2>2 DEF IInv, TypeOK, RefSound, CoverSound, FundsSound, Built, HashAt, Paid, Balance,
                  vars, nodeVars, rawVars, trackVars
    <2> QED
      BY <2>1, <2>2
  <1> QED
    BY <1>1, InitInv, PTL DEF Spec

\* The variables keep their types: a block number fits its 16 bits, an amount is never
\* negative.
THEOREM TypeCorrect == Spec => []TypeOK
  BY Inductive, PTL DEF IInv

\* A built transaction refers to a block that no branch can replace.
THEOREM ReferenceIsFinal == Spec => []RefIsFinal
  <1>1. IInv => RefIsFinal
    BY DEF IInv, RefSound, RefIsFinal
  <1> QED
    BY <1>1, Inductive, PTL

\* The block referred to is among the last that the 16-bit number can mean, until the
\* transaction expires.
LEMMA RefLives == IInv => RefHoldsForLife
  <1> SUFFICES ASSUME IInv, NEW r \in Raw, Built(r), ~Expired(r) PROVE RefHolds(r)
    BY DEF RefHoldsForLife
  <1>1. PICK h \in 0..(lib - 1) : /\ h % RefMod = tx[r].num
                                  /\ HashAt(h) = tx[r].prefix
                                  /\ asked[r] - h <= Lag + 1
    BY DEF IInv, RefSound
  <1>2. /\ lib \in Nat /\ lib <= Len(chain) /\ Len(chain) \in Nat /\ asked[r] \in Nat
        /\ Lag \in Nat /\ Life \in Nat /\ RefMod \in Nat /\ Lag + Life + 1 < RefMod
    BY ChainTypes, RefAssumption DEF IInv, TypeOK
  <1>3. Len(chain) <= asked[r] + Life
    BY <1>2 DEF Expired
  <1>4. h \in 0..Len(chain) /\ h > Len(chain) - RefMod
    BY <1>1, <1>2, <1>3
  <1> QED
    BY <1>1, <1>4 DEF RefHolds

\* The node finds the reference good for as long as the transaction lives.
THEOREM ReferenceHolds == Spec => []RefHoldsForLife
  BY RefLives, Inductive, PTL

\* What carries one signature and is sent in time is accepted, whichever branch the node is
\* on, unless another payment crossed it or a reorganisation took money back.
THEOREM SendsGood == Spec => []GoodToSend
  <1>1. IInv => GoodToSend
    BY RefLives DEF IInv, CoverSound, GoodToSend, RefHoldsForLife, Accepts, Built
  <1> QED
    BY <1>1, Inductive, PTL

\* A summary moves what it was asked to move at the least.
THEOREM SummaryMoves == Spec => []SummaryMovesEnough
  <1>1. IInv => SummaryMovesEnough
    BY DEF IInv, FundsSound, SummaryMovesEnough
  <1> QED
    BY <1>1, Inductive, PTL

\* A summary leaves the retained balance, whichever branch executes it, unless another
\* payment crossed it or a reorganisation took money back that the balance read had.
THEOREM SummaryRetains == Spec => []LeavesRetained
  <1>1. IInv => LeavesRetained
    BY DEF IInv, FundsSound, LeavesRetained, Paid
  <1> QED
    BY <1>1, Inductive, PTL

=============================================================================
