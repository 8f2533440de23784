------------------------------- MODULE Extraction -------------------------------
(***************************************************************************)
(* From a block of the node to what the observers are given:               *)
(* Client.GetGetBlock of futurepia/api.go, which flattens the operations   *)
(* of a block into transfers and panics on a shape it does not expect, and *)
(* ExtractTransaction with what it calls and newExtractDataNotify of       *)
(* futurepia/blockscanner.go. One block, from its answer to the last       *)
(* notification; the goroutines in between are those of ExtractBatch, here *)
(* only the order of their results.                                        *)
(***************************************************************************)
EXTENDS Integers, Sequences, FiniteSets

CONSTANTS
  Address, Account, Observer,
  None,        \* no value, or no such field
  Symbol,      \* the coin's symbol
  OtherCoin,   \* that of another
  AccountOf,   \* scanTargetFunc: an address's account, or None
  Blocks,      \* what the node may answer
  MaxRefusals  \* bound: notifications that observers answer with an error

\* The JSON of an operation, as far as the code looks: [] is empty; a type of None stands for
\* what is no list of a name and an object; the amount may be missing, not a string, a string
\* without two parts, or "<amount> <coin>"; strings says whether the parties, where they are
\* there, and the memo are strings.
Operation ==
  [empty : BOOLEAN, type : {"transfer", "other", None},
   amount : {None, "number", "unsplit", Symbol, OtherCoin},
   from : Address \cup {None}, to : Address \cup {None}, strings : BOOLEAN]

\* transaction_ids is a list of its own; "" is an id that is there and empty.
Block == [txs : Seq(Seq(Operation)), ids : Seq(STRING)]

ASSUME ExtractionAssumption ==
  /\ None \notin Account \cup Address /\ Symbol # OtherCoin
  /\ {Symbol, OtherCoin} \cap {None, "number", "unsplit"} = {} /\ None # "transfer"
  /\ AccountOf \in [Address -> Account \cup {None}]
  /\ Blocks \subseteq Block
  /\ MaxRefusals \in Nat

VARIABLES
  block,       \* the answer of get_block
  configured,  \* is there a scanTargetFunc?
  pc,          \* "fetch", "scan", or "dead" after a panic
  todo,        \* the transfers whose results saveWork has not taken
  notices,     \* what it has yet to notify of the result it has
  told,        \* notifications an observer took
  refused,     \* those it returned an error for
  failed,      \* the transfers whose extraction failed
  unscan,      \* was an unscan record saved?
  lostRecord,  \* did saving one fail?
  repeated     \* history: was one notification made twice?

vars == <<block, configured, pc, todo, notices, told, refused, failed, unscan, lostRecord,
          repeated>>

\* The operations of a block by transaction and index.
Places(b) == UNION {{t} \X DOMAIN b.txs[t] : t \in DOMAIN b.txs}
OpAt(p)   == block.txs[p[1]][p[2]]
IdAt(p)   == block.ids[p[1]]

Entry == [place : Places(block), account : Account, in : BOOLEAN, out : BOOLEAN]

TypeOK ==
  /\ block \in Block
  /\ configured \in BOOLEAN
  /\ pc \in {"fetch", "scan", "dead"}
  /\ todo \subseteq Places(block)
  /\ failed \subseteq Places(block)
  /\ notices \subseteq Observer \X Entry
  /\ told \subseteq Observer \X Entry
  /\ refused \subseteq Observer \X Entry
  /\ {unscan, lostRecord, repeated} \subseteq BOOLEAN

Init ==
  /\ block \in Blocks
  /\ configured \in BOOLEAN
  /\ pc = "fetch"
  /\ todo = {} /\ notices = {} /\ told = {} /\ refused = {} /\ failed = {}
  /\ unscan = FALSE /\ lostRecord = FALSE /\ repeated = FALSE

-----------------------------------------------------------------------------
(* GetGetBlock.                                                            *)

\* What gets past every continue (lines 247 to 263), unless it panics first.
HasParts(op) ==
  /\ ~op.empty
  /\ op.amount \in {Symbol, OtherCoin}
  /\ op.from # None /\ op.to # None

\* A bug: the memo is asserted before the parties are looked for.
PanicsEarly(op) == ~op.empty /\ (op.type = None \/ op.amount = "number" \/ ~op.strings)

\* The type assertions: of the list, its name and its object (245, 251, 252), of the amount
\* (258) and, past the checks, of the parties and the memo (268 to 270).
Panics(op) ==
  ~op.empty /\ (op.type = None \/ op.amount = "number" \/ (HasParts(op) /\ ~op.strings))

\* A block without transaction ids gives nothing (236).
Looked == block.ids # <<>>

Transfers == IF Looked THEN {p \in Places(block) : HasParts(OpAt(p))} ELSE {}

\* An id that is not there is an index out of range (271).
GetGetBlock ==
  /\ pc = "fetch"
  /\ \/ /\ Looked
        /\ \/ \E p \in Places(block) : Panics(OpAt(p))
           \/ \E p \in Transfers : p[1] \notin DOMAIN block.ids
        /\ pc' = "dead"
        /\ UNCHANGED todo
     \/ /\ \A p \in Places(block) : Looked => ~Panics(OpAt(p))
        /\ \A p \in Transfers : p[1] \in DOMAIN block.ids
        /\ pc' = "scan"
        /\ todo' = Transfers
  /\ UNCHANGED <<block, configured, notices, told, refused, failed, unscan, lostRecord,
                 repeated>>

-----------------------------------------------------------------------------
(* ExtractTransaction.                                                     *)

\* Of the coin, with an id, and a transfer (331 to 341).
Wanted(p) == OpAt(p).amount = Symbol /\ IdAt(p) # "" /\ OpAt(p).type = "transfer"

\* InitExtractResult: what an account gets of a transfer, with an input (optType 1), an
\* output (2) or both (0).
ResultOf(p, a, in, out) == [place |-> p, account |-> a, in |-> in, out |-> out]

\* Bugs: else if for the second if; no if.
EitherSide(p, a, b) ==
  IF a # None THEN {ResultOf(p, a, TRUE, FALSE)}
  ELSE IF b # None THEN {ResultOf(p, b, FALSE, TRUE)} ELSE {}

BothSides(p, a, b) == {ResultOf(p, a, TRUE, FALSE), ResultOf(p, b, FALSE, TRUE)}

\* The sides that are subscribed, when their accounts differ.
EachSide(p, a, b) ==
  {ResultOf(p, c, TRUE, FALSE) : c \in {a} \ {None}}
    \cup {ResultOf(p, c, FALSE, TRUE) : c \in {b} \ {None}}

\* A bug: the output's recharge is given the input's Sid.
SameSid(id) == <<"input", id>>

\* GenTxInputSID and GenTxOutPutSID, always of index 0.
InputSid(id)  == <<"input", id>>
OutputSid(id) == <<"output", id>>

\* extractTxInput and extractTxOutput: the Sids of the recharges of an item.
Sids(e) == {InputSid(IdAt(p)) : p \in IF e.in THEN {e.place} ELSE {}}
             \cup {OutputSid(IdAt(p)) : p \in IF e.out THEN {e.place} ELSE {}}

\* scanTargetFunc says whether an address is subscribed and to which account.
ExtractData(p) ==
  LET a == AccountOf[OpAt(p).from]
      b == AccountOf[OpAt(p).to]
  IN IF ~Wanted(p) THEN {}
     ELSE IF a = b /\ a # None THEN {ResultOf(p, a, TRUE, TRUE)}
     ELSE EachSide(p, a, b)

\* saveWork takes a result, in whatever order the goroutines finish. Without a
\* scanTargetFunc the extraction of a transfer failed, which is recorded.
SavesUnscan ==
  \/ unscan' = TRUE /\ UNCHANGED lostRecord
  \/ lostRecord' = TRUE /\ UNCHANGED unscan

ExtractTransaction(p) ==
  /\ pc = "scan" /\ notices = {}
  /\ p \in todo
  /\ todo' = todo \ {p}
  /\ IF Wanted(p) /\ ~configured
       THEN /\ failed' = failed \cup {p}
            /\ SavesUnscan
            /\ UNCHANGED notices
       ELSE /\ notices' = Observer \X ExtractData(p)
            /\ UNCHANGED <<failed, unscan, lostRecord>>
  /\ UNCHANGED <<block, configured, pc, told, refused, repeated>>

-----------------------------------------------------------------------------
(* newExtractDataNotify.                                                   *)

\* A bug: the rest of the result is dropped after a refusal.
NoneLeft(n) == {}

\* A refusal does not end the loops.
StillLeft(n) == notices \ {n}

\* Each observer for each key and item, in Go's random order of a map.
Notify(n) ==
  /\ n \in notices
  /\ repeated' = (repeated \/ n \in told \cup refused)
  /\ \/ /\ told' = told \cup {n}
        /\ notices' = notices \ {n}
        /\ UNCHANGED <<refused, unscan, lostRecord>>
     \/ /\ Cardinality(refused) < MaxRefusals
        /\ refused' = refused \cup {n}
        /\ notices' = StillLeft(n)
        /\ SavesUnscan
        /\ UNCHANGED told
  /\ UNCHANGED <<block, configured, pc, todo, failed>>

Next ==
  \/ GetGetBlock
  \/ \E p \in Places(block) : ExtractTransaction(p)
  \/ \E n \in notices : Notify(n)

Spec == Init /\ [][Next]_vars

-----------------------------------------------------------------------------
(* Properties.                                                             *)

\* What is due: each account with a side of a transfer of the coin, once, with the sides
\* it has.
Due ==
  {e \in Entry :
     /\ OpAt(e.place).type = "transfer" /\ ~OpAt(e.place).empty
     /\ OpAt(e.place).amount = Symbol
     /\ None \notin {OpAt(e.place).from, OpAt(e.place).to}
     /\ e.in <=> AccountOf[OpAt(e.place).from] = e.account
     /\ e.out <=> AccountOf[OpAt(e.place).to] = e.account
     /\ e.in \/ e.out}

\* Blocks as the node makes them for transfers: an id for each transaction, a name and an
\* object in each operation that is not empty, and parties and a memo that are strings in
\* every one that has an amount and two parties.
WellFormed ==
  /\ Len(block.ids) = Len(block.txs)
  /\ \A i \in DOMAIN block.ids : block.ids[i] # ""
  /\ \A i, j \in DOMAIN block.ids : block.ids[i] = block.ids[j] => i = j
  /\ \A p \in Places(block) :
       /\ ~OpAt(p).empty => OpAt(p).type # None /\ OpAt(p).amount # "number"
       /\ None \notin {OpAt(p).amount, OpAt(p).from, OpAt(p).to} => OpAt(p).strings

Over == pc = "scan" /\ todo = {} /\ notices = {}

\* A well-formed block kills nobody, and every observer is given what is due, no more and
\* nothing twice, in whatever order results and observers come and whoever refuses; what was
\* refused or failed is on record, unless the record could not be saved.
DeliversExactly ==
  WellFormed =>
    /\ pc # "dead" /\ ~repeated
    /\ told \cup refused \subseteq Observer \X Due
    /\ Over /\ configured => told \cup refused = Observer \X Due /\ failed = {}
    /\ Over /\ ~configured => {e.place : e \in Due} \subseteq failed
    /\ refused \cup failed # {} => unscan \/ lostRecord

\* The Sid of a recharge is made with the index 0 whatever the operation's: two recharges an
\* observer is given share one only if they are the same side of two operations of one
\* transaction, never the two sides of a transfer or sides of two transactions.
SidsMeetInATransaction ==
  WellFormed =>
    \A n, m \in told \cup refused :
      n[1] = m[1] /\ n # m /\ Sids(n[2]) \cap Sids(m[2]) # {} =>
        n[2].place[1] = m[2].place[1] /\ n[2].place[2] # m[2].place[2]

-----------------------------------------------------------------------------
(* The inductive invariant.                                                *)

Handled == Transfers \ todo
Given   == told \cup refused \cup notices

\* Where the block stands.
Stage ==
  /\ WellFormed => pc # "dead"
  /\ pc # "scan" => todo = {} /\ Given = {} /\ failed = {}
  /\ todo \subseteq Transfers

\* What has been given, or is being given, is what the handled transfers yield.
Exact ==
  /\ configured =>
       /\ failed = {}
       /\ pc = "scan" =>
            \A n \in Observer \X Entry :
              n \in Given <=> n[2].place \in Handled /\ n[2] \in ExtractData(n[2].place)
  /\ ~configured =>
       /\ Given = {}
       /\ pc = "scan" => \A p \in Handled : Wanted(p) => p \in failed

Once     == ~repeated /\ notices \cap (told \cup refused) = {}
Recorded == refused \cup failed # {} => unscan \/ lostRecord

IInv == TypeOK /\ Stage /\ Exact /\ Once /\ Recorded

=============================================================================
