---------------------------- MODULE ExtractionProofs ----------------------------
(***************************************************************************)
(* Proofs about Extraction, for any blocks, addresses and observers.       *)
(***************************************************************************)
EXTENDS Extraction, TLAPS

-----------------------------------------------------------------------------
(* The data.                                                               *)

LEMMA PlaceType ==
  ASSUME block \in Block, NEW p \in Places(block)
  PROVE  /\ p = <<p[1], p[2]>>
         /\ p[1] \in DOMAIN block.txs
         /\ OpAt(p) \in Operation
  <1>1. PICK t \in DOMAIN block.txs : p \in {t} \X DOMAIN block.txs[t]
    BY DEF Places
  <1>2. p = <<p[1], p[2]>> /\ p[1] = t /\ p[2] \in DOMAIN block.txs[t]
    BY <1>1
  <1>3. block.txs \in Seq(Seq(Operation))
    BY DEF Block
  <1>4. block.txs[t] \in Seq(Operation)
    BY <1>1, <1>3
  <1>5. block.txs[t][p[2]] \in Operation
    BY <1>2, <1>4
  <1> QED
    BY <1>1, <1>2, <1>5 DEF OpAt

LEMMA PartiesType ==
  ASSUME block \in Block, NEW p \in Transfers
  PROVE  /\ p \in Places(block) /\ HasParts(OpAt(p))
         /\ OpAt(p).from \in Address /\ OpAt(p).to \in Address
         /\ AccountOf[OpAt(p).from] \in Account \cup {None}
         /\ AccountOf[OpAt(p).to] \in Account \cup {None}
  <1>1. p \in Places(block) /\ HasParts(OpAt(p))
    BY DEF Transfers
  <1>2. OpAt(p) \in Operation
    BY <1>1, PlaceType
  <1>3. OpAt(p).from \in Address /\ OpAt(p).to \in Address
    BY <1>1, <1>2 DEF Operation, HasParts
  <1> QED
    BY <1>1, <1>3, ExtractionAssumption

\* A well-formed block has one id of its own for each transaction.
LEMMA IdsOfTransactions ==
  ASSUME block \in Block, WellFormed
  PROVE  /\ DOMAIN block.ids = DOMAIN block.txs
         /\ \A i \in DOMAIN block.txs : block.ids[i] # ""
         /\ \A i, j \in DOMAIN block.txs : block.ids[i] = block.ids[j] => i = j
         /\ block.txs # <<>> => Looked
  <1>1. block.ids \in Seq(STRING) /\ block.txs \in Seq(Seq(Operation))
    BY DEF Block
  <1>2. DOMAIN block.ids = 1..Len(block.ids) /\ DOMAIN block.txs = 1..Len(block.txs)
    BY <1>1
  <1>3. Len(block.ids) = Len(block.txs)
    BY DEF WellFormed
  <1>4. block.txs # <<>> => block.ids # <<>>
    BY <1>1, <1>3
  <1> QED
    BY <1>2, <1>3, <1>4 DEF WellFormed, Looked

\* What ExtractTransaction yields is about its transfer.
LEMMA ExtractDataType ==
  ASSUME block \in Block, NEW p \in Transfers, NEW e \in ExtractData(p)
  PROVE  e \in Entry /\ e.place = p
  <1>1. p \in Places(block) /\ AccountOf[OpAt(p).from] \in Account \cup {None}
                            /\ AccountOf[OpAt(p).to] \in Account \cup {None}
    BY PartiesType
  <1> DEFINE a == AccountOf[OpAt(p).from]
             b == AccountOf[OpAt(p).to]
  <1>2. \/ e = [place |-> p, account |-> a, in |-> TRUE, out |-> TRUE] /\ a # None
        \/ e = [place |-> p, account |-> a, in |-> TRUE, out |-> FALSE] /\ a # None
        \/ e = [place |-> p, account |-> b, in |-> FALSE, out |-> TRUE] /\ b # None
    <2>1. Wanted(p)
      BY DEF ExtractData
    <2>2. CASE a = b /\ a # None
      <3>1. ExtractData(p) = {[place |-> p, account |-> a, in |-> TRUE, out |-> TRUE]}
        BY <2>1, <2>2 DEF ExtractData, ResultOf
      <3> QED
        BY <2>2, <3>1
    <2>3. CASE ~(a = b /\ a # None)
      <3>1. ExtractData(p) = {[place |-> p, account |-> c, in |-> TRUE, out |-> FALSE] :
                                c \in {a} \ {None}}
                        \cup {[place |-> p, account |-> c, in |-> FALSE, out |-> TRUE] :
                                c \in {b} \ {None}}
        BY <2>1, <2>3 DEF ExtractData, EachSide, ResultOf
      <3> QED
        BY <3>1
    <2> QED
      BY <2>2, <2>3
  <1>3. ASSUME NEW c \in Account, NEW i \in BOOLEAN, NEW o \in BOOLEAN
        PROVE  [place |-> p, account |-> c, in |-> i, out |-> o] \in Entry
    BY <1>1 DEF Entry
  <1>4. (a # None => a \in Account) /\ (b # None => b \in Account)
    BY <1>1
  <1>5. CASE e = [place |-> p, account |-> a, in |-> TRUE, out |-> TRUE] /\ a # None
    BY <1>3, <1>4, <1>5
  <1>6. CASE e = [place |-> p, account |-> a, in |-> TRUE, out |-> FALSE] /\ a # None
    BY <1>3, <1>4, <1>6
  <1>7. CASE e = [place |-> p, account |-> b, in |-> FALSE, out |-> TRUE] /\ b # None
    BY <1>3, <1>4, <1>7
  <1> HIDE DEF a, b
  <1> QED
    BY <1>2, <1>5, <1>6, <1>7

\* And it is what the specification calls due.
LEMMA DueIsExtracted ==
  ASSUME block \in Block, WellFormed, NEW e \in Entry
  PROVE  e \in Due <=> e.place \in Transfers /\ e \in ExtractData(e.place)
  <1> DEFINE p == e.place
             op == OpAt(p)
             a == AccountOf[op.from]
             b == AccountOf[op.to]
  <1>1. e = [place |-> p, account |-> e.account, in |-> e.in, out |-> e.out]
        /\ p \in Places(block) /\ e.account \in Account /\ e.in \in BOOLEAN /\ e.out \in BOOLEAN
    BY DEF Entry
  <1>2. p[1] \in DOMAIN block.txs /\ op \in Operation
    BY <1>1, PlaceType
  <1>3. block.txs # <<>>
    BY <1>2
  <1>4. p[1] \in DOMAIN block.ids /\ IdAt(p) # "" /\ Looked
    BY <1>2, <1>3, IdsOfTransactions DEF IdAt
  <1>5. p \in Transfers <=> HasParts(op)
    BY <1>1, <1>4 DEF Transfers
  <1>6. e \in Due <=> HasParts(op) /\ Wanted(p) /\ (e.in <=> a = e.account)
                      /\ (e.out <=> b = e.account) /\ (e.in \/ e.out)
    BY <1>1, <1>4 DEF Due, HasParts, Wanted
  <1>7. ASSUME HasParts(op), Wanted(p)
        PROVE  e \in ExtractData(p) <=> /\ e.in <=> a = e.account
                                        /\ e.out <=> b = e.account
                                        /\ e.in \/ e.out
    <2>1. a \in Account \cup {None} /\ b \in Account \cup {None} /\ None \notin Account
      BY <1>5, <1>7, PartiesType, ExtractionAssumption
    <2>2. CASE a = b /\ a # None
      <3>1. ExtractData(p) = {[place |-> p, account |-> a, in |-> TRUE, out |-> TRUE]}
        BY <1>7, <2>2 DEF ExtractData, ResultOf
      <3> QED
        BY <1>1, <2>1, <2>2, <3>1
    <2>3. CASE ~(a = b /\ a # None)
      <3>1. ExtractData(p) = {[place |-> p, account |-> c, in |-> TRUE, out |-> FALSE] :
                                c \in {a} \ {None}}
                        \cup {[place |-> p, account |-> c, in |-> FALSE, out |-> TRUE] :
                                c \in {b} \ {None}}
        BY <1>7, <2>3 DEF ExtractData, EachSide, ResultOf
      <3>2. e \in ExtractData(p) <=> \/ e.account = a /\ a # None /\ e.in /\ ~e.out
                                     \/ e.account = b /\ b # None /\ ~e.in /\ e.out
        BY <1>1, <3>1
      <3> QED
        BY <1>1, <2>1, <2>3, <3>2
    <2> QED
      BY <2>2, <2>3
  <1>8. ~Wanted(p) => ExtractData(p) = {}
    BY DEF ExtractData
  <1> QED
    BY <1>5, <1>6, <1>7, <1>8

-----------------------------------------------------------------------------
(* The invariant.                                                          *)

LEMMA InitInv == Init => IInv
  <1> SUFFICES ASSUME Init PROVE IInv
    OBVIOUS
  <1>1. TypeOK
    BY ExtractionAssumption DEF Init, TypeOK
  <1> QED
    BY <1>1 DEF Init, IInv, Stage, Exact, Once, Recorded, Given, WellFormed

\* Nothing about the block changes.
LEMMA BlockStays ==
  ASSUME UNCHANGED block
  PROVE  /\ Entry' = Entry /\ Transfers' = Transfers /\ WellFormed' = WellFormed
         /\ \A p : ExtractData(p)' = ExtractData(p) /\ Wanted(p)' = Wanted(p)
         /\ Places(block)' = Places(block) /\ Due' = Due
  BY DEF Entry, Transfers, WellFormed, ExtractData, Wanted, Places, Due, OpAt, IdAt, Looked

LEMMA GetGetBlockInv == IInv /\ GetGetBlock => IInv'
  <1> SUFFICES ASSUME IInv, GetGetBlock PROVE IInv'
    OBVIOUS
  <1> USE DEF IInv
  <1>0. UNCHANGED block /\ UNCHANGED <<configured, notices, told, refused, failed, unscan,
                                       lostRecord, repeated>>
    BY DEF GetGetBlock
  <1>1. pc = "fetch" /\ todo = {} /\ Given = {} /\ failed = {}
    BY DEF GetGetBlock, Stage
  <1>2. pc' \in {"scan", "dead"} /\ (pc' = "dead" => todo' = {})
        /\ (pc' = "scan" => todo' = Transfers)
    BY <1>1 DEF GetGetBlock
  <1>3. TypeOK'
    <2>1. todo' \subseteq Places(block)
      BY <1>2 DEF Transfers
    <2> QED
      BY <1>0, <1>2, <2>1, BlockStays DEF TypeOK
  <1>4. WellFormed => pc' # "dead"
    <2> SUFFICES ASSUME WellFormed, pc' = "dead" PROVE FALSE
      OBVIOUS
    <2>1. ASSUME NEW p \in Places(block), Panics(OpAt(p)) PROVE FALSE
      BY <2>1, ExtractionAssumption DEF Panics, HasParts, WellFormed
    <2>2. ASSUME NEW p \in Transfers, p[1] \notin DOMAIN block.ids PROVE FALSE
      <3>1. p[1] \in DOMAIN block.txs
        BY PlaceType DEF Transfers, TypeOK
      <3> QED
        BY <2>2, <3>1, IdsOfTransactions DEF TypeOK
    <2> QED
      BY <2>1, <2>2, <1>1 DEF GetGetBlock
  <1>5. Stage'
    BY <1>0, <1>1, <1>2, <1>4, BlockStays DEF Stage, Given
  <1>6. Exact'
    <2>1. Given' = {} /\ failed' = {}
      BY <1>0, <1>1 DEF Given
    <2>2. pc' = "scan" => Handled' = {}
      BY <1>0, <1>2, BlockStays DEF Handled
    <2> QED
      BY <2>1, <2>2 DEF Exact
  <1> QED
    BY <1>0, <1>3, <1>5, <1>6 DEF Once, Recorded

LEMMA ExtractInv ==
  ASSUME IInv, NEW p \in Places(block), ExtractTransaction(p) PROVE IInv'
  <1> USE DEF IInv
  <1>0. /\ UNCHANGED <<block, configured, pc, told, refused, repeated>>
        /\ pc = "scan" /\ notices = {} /\ p \in todo /\ todo' = todo \ {p}
        /\ p \in Transfers /\ block \in Block
    BY DEF ExtractTransaction, Stage, TypeOK
  <1>1. Handled' = Handled \cup {p} /\ p \notin Handled
    BY <1>0, BlockStays DEF Handled
  <1>2. ASSUME NEW e \in ExtractData(p) PROVE e \in Entry /\ e.place = p
    BY <1>0, <1>2, ExtractDataType
  <1>3. CASE Wanted(p) /\ ~configured
    <2>1. failed' = failed \cup {p} /\ notices' = {} /\ SavesUnscan
      BY <1>0, <1>3 DEF ExtractTransaction
    <2>2. (unscan' \/ lostRecord')
      BY <2>1 DEF SavesUnscan
    <2>3. TypeOK'
      BY <1>0, <2>1, BlockStays DEF TypeOK, SavesUnscan
    <2>4. Stage'
      BY <1>0, <2>1, BlockStays DEF Stage, Given
    <2>5. Exact'
      BY <1>0, <1>1, <1>3, <2>1, BlockStays DEF Exact, Given
    <2> QED
      BY <1>0, <2>1, <2>2, <2>3, <2>4, <2>5 DEF Once, Recorded
  <1>4. CASE ~(Wanted(p) /\ ~configured)
    <2>1. notices' = Observer \X ExtractData(p) /\ UNCHANGED <<failed, unscan, lostRecord>>
      BY <1>4 DEF ExtractTransaction
    <2>2. Given' = Given \cup (Observer \X ExtractData(p))
      BY <1>0, <2>1 DEF Given
    <2>3. TypeOK'
      <3>1. notices' \subseteq Observer \X Entry
        BY <1>2, <2>1
      <3> QED
        BY <1>0, <2>1, <3>1, BlockStays DEF TypeOK
    <2>4. Stage'
      BY <1>0, <2>1, BlockStays DEF Stage
    <2>5. CASE configured
      <3>1. ASSUME NEW n \in Observer \X Entry
            PROVE  n \in Given' <=> n[2].place \in Handled' /\ n[2] \in ExtractData(n[2].place)
        <4>1. n \in Given <=> n[2].place \in Handled /\ n[2] \in ExtractData(n[2].place)
          BY <1>0, <2>5 DEF Exact
        <4>2. n \in Observer \X ExtractData(p) <=> n[2].place = p /\ n[2] \in ExtractData(p)
          BY <1>2
        <4> QED
          BY <1>1, <2>2, <4>1, <4>2
      <3>2. Exact'
        BY <1>0, <2>1, <2>5, <3>1, BlockStays DEF Exact
      <3>3. notices' \cap (told' \cup refused') = {}
        <4> SUFFICES ASSUME NEW n \in notices', n \in told \cup refused PROVE FALSE
          BY <1>0
        <4>1. n \in Observer \X Entry /\ n[2].place = p
          BY <1>2, <2>1
        <4>2. n \in Given
          BY DEF Given
        <4>3. n[2].place \in Handled
          BY <1>0, <2>5, <4>1, <4>2 DEF Exact
        <4> QED
          BY <1>1, <4>1, <4>3
      <3> QED
        BY <1>0, <2>1, <2>3, <2>4, <3>2, <3>3 DEF Once, Recorded
    <2>6. CASE ~configured
      <3>1. ExtractData(p) = {} /\ ~Wanted(p)
        BY <1>4, <2>6 DEF ExtractData
      <3>2. notices' = {} /\ Given' = {}
        BY <2>1, <2>2, <2>6, <3>1 DEF Exact
      <3>3. Exact'
        BY <1>0, <1>1, <2>1, <2>6, <3>1, <3>2, BlockStays DEF Exact
      <3> QED
        BY <1>0, <2>1, <2>3, <2>4, <3>2, <3>3 DEF Once, Recorded
    <2> QED
      BY <2>5, <2>6
  <1> QED
    BY <1>3, <1>4

LEMMA NotifyInv == ASSUME IInv, NEW n \in notices, Notify(n) PROVE IInv'
  <1> USE DEF IInv
  <1>1. UNCHANGED <<block, configured, pc, todo, failed>> /\ notices' = notices \ {n}
    BY DEF Notify, StillLeft
  <1>2. told' \cup refused' = told \cup refused \cup {n}
    BY DEF Notify
  <1>3. Given' = Given
    BY <1>1, <1>2 DEF Given
  <1>4. repeated' = repeated
    BY DEF Notify, Once, TypeOK
  <1>5. \/ refused' = refused /\ UNCHANGED <<unscan, lostRecord>>
        \/ unscan' \/ lostRecord'
    BY DEF Notify, SavesUnscan
  <1>6. TypeOK'
    <2>1. told' \subseteq Observer \X Entry /\ refused' \subseteq Observer \X Entry
      BY <1>2 DEF TypeOK
    <2>2. {unscan', lostRecord'} \subseteq BOOLEAN
      BY DEF Notify, SavesUnscan, TypeOK
    <2> QED
      BY <1>1, <1>4, <2>1, <2>2, BlockStays DEF TypeOK
  <1>7. Stage'
    BY <1>1, <1>3, BlockStays DEF Stage
  <1>8. Exact'
    <2>1. Handled' = Handled
      BY <1>1, BlockStays DEF Handled
    <2> QED
      BY <1>1, <1>3, <2>1, BlockStays DEF Exact
  <1>9. Once'
    BY <1>1, <1>2, <1>4 DEF Once
  <1>10. Recorded'
    BY <1>1, <1>5 DEF Recorded
  <1> QED
    BY <1>6, <1>7, <1>8, <1>9, <1>10

LEMMA StepInv == IInv /\ [Next]_vars => IInv'
  <1> SUFFICES ASSUME IInv, [Next]_vars PROVE IInv'
    OBVIOUS
  <1>1. CASE UNCHANGED vars
    <2>1. UNCHANGED block
      BY <1>1 DEF vars
    <2>2. Handled' = Handled /\ Given' = Given
      BY <1>1, <2>1, BlockStays DEF Handled, Given, vars
    <2> QED
      BY <1>1, <2>1, <2>2, BlockStays DEF IInv, TypeOK, Stage, Exact, Once, Recorded, vars
  <1> QED
    BY <1>1, GetGetBlockInv, ExtractInv, NotifyInv DEF Next

LEMMA Inv == Spec => []IInv
  BY InitInv, StepInv, PTL DEF Spec

-----------------------------------------------------------------------------
(* The theorems.                                                           *)

\* Every variable keeps its type.
THEOREM TypeCorrect == Spec => []TypeOK
  <1>1. IInv => TypeOK
    BY DEF IInv
  <1> QED
    BY <1>1, Inv, PTL

LEMMA GivenIsDue ==
  ASSUME IInv, WellFormed PROVE told \cup refused \subseteq Observer \X Due
  <1> USE DEF IInv
  <1> SUFFICES ASSUME NEW n \in told \cup refused PROVE n \in Observer \X Due
    OBVIOUS
  <1>1. n \in Given /\ n \in Observer \X Entry
    BY DEF Given, TypeOK
  <1>2. pc = "scan" /\ configured
    BY <1>1 DEF Stage, Exact
  <1>3. n[2].place \in Handled /\ n[2] \in ExtractData(n[2].place)
    BY <1>1, <1>2 DEF Exact
  <1>4. n[2] \in Due
    BY <1>1, <1>3, DueIsExtracted DEF Handled, TypeOK
  <1> QED
    BY <1>1, <1>4

\* GetGetBlock, ExtractTransaction and newExtractDataNotify give every observer exactly what
\* a well-formed block holds for the subscribed accounts.
THEOREM DeliveryIsExact == Spec => []DeliversExactly
  <1>1. IInv => DeliversExactly
    <2> SUFFICES ASSUME IInv, WellFormed
                 PROVE  /\ pc # "dead" /\ ~repeated
                        /\ told \cup refused \subseteq Observer \X Due
                        /\ Over /\ configured => told \cup refused = Observer \X Due /\ failed = {}
                        /\ Over /\ ~configured => {e.place : e \in Due} \subseteq failed
                        /\ refused \cup failed # {} => unscan \/ lostRecord
      BY DEF DeliversExactly
    <2> USE DEF IInv
    <2>1. told \cup refused \subseteq Observer \X Due
      BY GivenIsDue
    <2>2. ASSUME Over, configured, NEW n \in Observer \X Due PROVE n \in told \cup refused
      <3>1. n \in Observer \X Entry /\ Handled = Transfers
        BY <2>2 DEF Due, Over, Handled
      <3>2. n[2].place \in Transfers /\ n[2] \in ExtractData(n[2].place)
        BY <3>1, DueIsExtracted DEF TypeOK
      <3>3. n \in Given
        BY <2>2, <3>1, <3>2 DEF Exact, Over
      <3> QED
        BY <2>2, <3>3 DEF Given, Over
    <2>3. ASSUME Over, ~configured, NEW e \in Due PROVE e.place \in failed
      <3>1. e \in Entry /\ Handled = Transfers
        BY <2>3 DEF Due, Over, Handled
      <3>2. e.place \in Transfers /\ e \in ExtractData(e.place)
        BY <3>1, DueIsExtracted DEF TypeOK
      <3>3. Wanted(e.place)
        BY <3>2 DEF ExtractData
      <3> QED
        BY <2>3, <3>1, <3>2, <3>3 DEF Exact, Over
    <2> QED
      BY <2>1, <2>2, <2>3 DEF Stage, Once, Recorded, Exact
  <1> QED
    BY <1>1, Inv, PTL

\* The Sids of extractTxInput and extractTxOutput coincide for operations of one transaction
\* only.
THEOREM SidsMeetOnlyThere == Spec => []SidsMeetInATransaction
  <1>1. IInv => SidsMeetInATransaction
    <2> SUFFICES ASSUME IInv, WellFormed, NEW n \in told \cup refused, NEW m \in told \cup refused,
                        n[1] = m[1], n # m, NEW s \in Sids(n[2]), s \in Sids(m[2])
                 PROVE  n[2].place[1] = m[2].place[1] /\ n[2].place[2] # m[2].place[2]
      BY DEF SidsMeetInATransaction
    <2> DEFINE d == n[2]
               e == m[2]
    <2>1. n \in Observer \X Due /\ m \in Observer \X Due /\ block \in Block
      BY GivenIsDue DEF IInv, TypeOK
    <2>2. d \in Due /\ e \in Due /\ d # e
      BY <2>1
    <2>3. d \in Entry /\ e \in Entry /\ d.place \in Places(block) /\ e.place \in Places(block)
      BY <2>2 DEF Due, Entry
    <2>4. \/ d.in /\ e.in /\ IdAt(d.place) = IdAt(e.place)
          \/ d.out /\ e.out /\ IdAt(d.place) = IdAt(e.place)
      BY DEF Sids, InputSid, OutputSid
    <2>5. /\ d.place = <<d.place[1], d.place[2]>> /\ d.place[1] \in DOMAIN block.txs
          /\ e.place = <<e.place[1], e.place[2]>> /\ e.place[1] \in DOMAIN block.txs
      BY <2>1, <2>3, PlaceType
    <2>6. d.place[1] = e.place[1]
      <3>1. block.ids[d.place[1]] = block.ids[e.place[1]]
        BY <2>4 DEF IdAt
      <3> QED
        BY <2>1, <2>5, <3>1, IdsOfTransactions
    <2>7. ASSUME d.place = e.place PROVE FALSE
      <3>1. d.account = e.account
        BY <2>2, <2>4, <2>7 DEF Due
      <3>2. d.in = e.in /\ d.out = e.out
        BY <2>2, <2>3, <2>7, <3>1 DEF Due, Entry
      <3> QED
        BY <2>2, <2>3, <2>7, <3>1, <3>2 DEF Entry
    <2> QED
      BY <2>5, <2>6, <2>7
  <1> QED
    BY <1>1, Inv, PTL

=============================================================================
