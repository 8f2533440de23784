------------------------------ MODULE BlockScan ------------------------------
(***************************************************************************)
(* The block scanner of futurepia/blockscanner.go: ScanBlockTask following *)
(* a chain that grows and reorganises, the records it keeps through the    *)
(* BlockchainDAI of the openwallet framework, the operator calls that run  *)
(* beside it (SetRescanBlockHeight, ScanBlock, Run, Stop) and the crashes  *)
(* and refused calls it meets.                                             *)
(*                                                                         *)
(* One action is one call that leaves the process (an RPC to the node, a   *)
(* DAI call, a batch of notifications), so that a crash, a change of the   *)
(* node's chain or an operator call can come between any two of them.      *)
(* BatchExtractTransactions is one step here; ExtractBatch models its      *)
(* goroutines and shows that it handles every transaction before it        *)
(* returns.                                                                *)
(***************************************************************************)
EXTENDS Integers, Sequences

CONSTANTS
  Hash,        \* the block hashes
  Genesis,     \* the "previous" field of block 1
  None,        \* no record, a nil block, the empty string
  Chains,      \* the chains the node may ever present, from block 1 to its tip
  InitChain,   \* the chain it presents first
  MaxHeight,   \* bound: the longest chain
  MaxCrashes,  \* bound: crashes of the process
  MaxOps,      \* bound: calls of SetRescanBlockHeight and ScanBlock
  DaiFaults,   \* may a DAI call return an error?
  TxFailures   \* may the extraction or the notification of a transaction fail?

ASSUME ChainAssumption ==
  /\ {Genesis, None} \cap Hash = {}
  /\ Genesis # None
  /\ MaxHeight \in Nat
  /\ Chains \subseteq Seq(Hash)
  /\ \A c \in Chains : Len(c) \in 1..MaxHeight
  /\ InitChain \in Chains

\* A hash commits to the block's whole history.
ASSUME HashAssumption ==
  \A c, d \in Chains : \A i \in DOMAIN c, j \in DOMAIN d :
    c[i] = d[j] => /\ i = j
                   /\ \A k \in 1..i : c[k] = d[k]

ASSUME BoundAssumption ==
  /\ MaxCrashes \in Nat
  /\ MaxOps \in Nat
  /\ DaiFaults \in BOOLEAN
  /\ TxFailures \in BOOLEAN

VARIABLES
  chain,      \* the node's current chain
  scanning,   \* BlockScannerBase.Scanning
  pc,         \* where ScanBlockTask stands
  curHeight,  \* its currentHeight
  curHash,    \* its currentHash
  tip,        \* the head height the last GetDynamicGlobal returned
  blk,        \* the block fetched at curHeight
  forkBlk,    \* the hash of its forkBlock
  head,       \* DAI: the current block head
  local,      \* DAI: the local block of each height
  unscan,     \* DAI: the heights with an unscan record
  request,    \* the operator call in progress
  crashes, ops,
  extracted,  \* history: the blocks observers got extract data of, with its BlockHash
  standing,   \* history: the extracted blocks no later fork notification took back
  announced,  \* history: the blocks notified as new, and not as forks since
  missed,     \* history: the blocks whose last extraction left a transaction out
  adopted     \* history: the blocks taken as a place to go on from without being scanned

taskVars == <<pc, curHeight, curHash, tip, blk, forkBlk>>
daiVars  == <<head, local, unscan>>
opVars   == <<scanning, request, crashes, ops>>
toldVars == <<extracted, standing, announced, missed>>
vars     == <<chain, taskVars, daiVars, opVars, toldVars, adopted>>

Heights == 1..MaxHeight
NoBlock == [hash |-> None, prev |-> None]
NoHead  == [height |-> 0, hash |-> None]
Idle    == [op |-> "none", height |-> 0, hash |-> None]

PcStates == {"idle", "boot", "bootBlock", "loop", "loopBlock", "fetch", "fork", "refetch",
             "rewind", "forkNotify", "extract", "saveHead", "saveBlock",
             "newNotify", "down"}

TypeOK ==
  /\ chain \in Chains
  /\ scanning \in BOOLEAN
  /\ pc \in PcStates
  /\ curHeight \in 0..(MaxHeight + 1)
  /\ curHash \in Hash \cup {Genesis, None}
  /\ tip \in 0..MaxHeight
  /\ blk \in [hash : Hash, prev : Hash \cup {Genesis}] \cup {NoBlock}
  /\ forkBlk \in Hash \cup {None}
  /\ head \in [height : Heights, hash : Hash] \cup {NoHead}
  /\ local \in [Heights -> Hash \cup {None}]
  /\ unscan \subseteq Heights
  /\ request \in [op : {"rescan", "scan", "announce"}, height : Heights, hash : Hash] \cup {Idle}
  /\ crashes \in 0..MaxCrashes
  /\ ops \in 0..MaxOps
  /\ extracted \subseteq [block : Hash, stamp : Hash \cup {Genesis}]
  /\ standing \subseteq Hash
  /\ announced \subseteq Hash
  /\ missed \subseteq Hash
  /\ adopted \subseteq Hash \cup {Genesis}

-----------------------------------------------------------------------------
(* The node and the DAI, outside src/: what the calls in src/ may meet.    *)

HasBlock(h) == h \in DOMAIN chain
BlockAt(h)  == [hash |-> chain[h], prev |-> IF h = 1 THEN Genesis ELSE chain[h - 1]]

\* A DAI write that fails leaves the old value, and no caller looks at its error.
DaiWrite(old, new) == IF DaiFaults THEN {old, new} ELSE {new}

\* A DAI read that fails looks to every caller like a record that is not there.
DaiRead(value, absent) == IF DaiFaults THEN {value, absent} ELSE {value}

LocalBlock(h) == IF h \in Heights THEN local[h] ELSE None

\* The node adds blocks to its chain, or switches to a longer fork.
NodeAdvance ==
  /\ \E c \in Chains : /\ Len(c) > Len(chain)
                       /\ chain' = c
  /\ UNCHANGED <<taskVars, daiVars, opVars, toldVars, adopted>>

-----------------------------------------------------------------------------
(* ScanBlockTask: the start of a run.                                      *)

\* The task returns: its local variables are gone.
TaskEnds ==
  /\ pc' = "idle"
  /\ curHeight' = 0
  /\ curHash' = None
  /\ tip' = 0
  /\ blk' = NoBlock
  /\ forkBlk' = None

\* The timer runs the task, which reads the saved head; height 0 means no record, and so
\* does a read error, which is only logged.
TaskStart ==
  /\ pc = "idle"
  /\ scanning
  /\ \E h \in DaiRead(head, NoHead) :
       /\ curHeight' = h.height
       /\ curHash' = h.hash
       /\ pc' = IF h.height = 0 THEN "boot" ELSE "loop"
  /\ UNCHANGED <<chain, tip, blk, forkBlk, daiVars, opVars, toldVars, adopted>>

\* GetGlobalHeadBlock, its first call: GetDynamicGlobal.
ReadTip(from, to) ==
  /\ pc = from
  /\ tip' = Len(chain)
  /\ pc' = to
  /\ UNCHANGED <<chain, curHeight, curHash, blk, forkBlk, daiVars, opVars, toldVars, adopted>>

BootTip == ReadTip("boot", "bootBlock")

\* Bugs: starting three below the tip; taking the block's own hash.
StartTooLow(top) == top - 3
StartAtBlock(block) == block.hash

\* Where a scanner without a head starts: two below the tip, the parent of the block read.
StartHeight(top) == top - 2
StartHash(block) == block.prev

\* GetGlobalHeadBlock, its second call: the block below the tip.
BootBlock ==
  /\ pc = "bootBlock"
  /\ HasBlock(tip - 1)
  /\ curHeight' = StartHeight(tip)
  /\ curHash' = StartHash(BlockAt(tip - 1))
  /\ adopted' = adopted \cup {curHash'}
  /\ tip' = 0
  /\ pc' = "loop"
  /\ UNCHANGED <<chain, blk, forkBlk, daiVars, opVars, toldVars>>

ProcessDies ==
  /\ pc' = "down"
  /\ curHeight' = 0
  /\ curHash' = None
  /\ tip' = 0
  /\ blk' = NoBlock
  /\ forkBlk' = None
  /\ request' = Idle

\* The error of GetGlobalHeadBlock is only logged at the start, and headBlock is nil.
BootPanic ==
  /\ pc \in {"boot", "bootBlock"}
  /\ ProcessDies
  /\ UNCHANGED <<chain, daiVars, scanning, crashes, ops, toldVars, adopted>>

-----------------------------------------------------------------------------
(* ScanBlockTask: one turn of the loop, up to the fork test.               *)

\* A bug: the flag is read when the task starts only.
NeverStops == TRUE

\* The flag is read once a turn.
MayGoOn == scanning

LoopStopped ==
  /\ pc = "loop"
  /\ ~MayGoOn
  /\ TaskEnds
  /\ UNCHANGED <<chain, daiVars, opVars, toldVars, adopted>>

LoopTip == MayGoOn /\ ReadTip("loop", "loopBlock")

\* A bug: the tip itself is scanned.
CaughtUpAtTip(maxBlockHeight) == curHeight = maxBlockHeight + 1

\* The block below the tip gives maxBlockHeight.
CaughtUp(maxBlockHeight) == curHeight = maxBlockHeight

LoopBlock ==
  /\ pc = "loopBlock"
  /\ HasBlock(tip - 1)
  /\ IF CaughtUp(tip - 1)
       THEN TaskEnds
       ELSE /\ curHeight' = curHeight + 1
            /\ tip' = 0
            /\ pc' = "fetch"
            /\ UNCHANGED <<curHash, blk, forkBlk>>
  /\ UNCHANGED <<chain, daiVars, opVars, toldVars, adopted>>

\* A bug: forks are not looked for.
NoFork(prev) == FALSE

IsFork(prev) == prev # curHash

\* A block the node does not have is an error of GetGetBlock, and the task returns.
Fetch ==
  /\ pc = "fetch"
  /\ IF HasBlock(curHeight)
       THEN /\ blk' = BlockAt(curHeight)
            /\ pc' = IF IsFork(blk'.prev) THEN "fork" ELSE "extract"
            /\ UNCHANGED <<curHeight, curHash, tip, forkBlk>>
       ELSE TaskEnds
  /\ UNCHANGED <<chain, daiVars, opVars, toldVars, adopted>>

\* Any call to the node may fail; inside the loop that ends the task.
RpcFails ==
  /\ pc \in {"loop", "loopBlock", "fetch", "refetch"}
  /\ TaskEnds
  /\ UNCHANGED <<chain, daiVars, opVars, toldVars, adopted>>

-----------------------------------------------------------------------------
(* ScanBlockTask: the fetched block does not extend the local head.        *)

\* Bugs: the fork looked up at the fetched height; the task walks back one block or three.
ForkAtFetched(h) == h
RewindOne(h) == IF h > 1 THEN h - 1 ELSE 1
RewindThree(h) == IF h > 3 THEN h - 3 ELSE 1

\* The local block held to be the fork: the one below the fetched block.
ForkHeight(h) == h - 1

\* The new currentHeight: two below the fetched block, at least 1. The code computes it
\* with uint32, where 1 - 2 would wrap; ForkAboveGenesis says that never happens.
RewindHeight(h) == IF h > 2 THEN h - 2 ELSE 1

ForkBack ==
  LET back == RewindHeight(curHeight) IN
  /\ pc = "fork"
  /\ forkBlk' \in DaiRead(LocalBlock(ForkHeight(curHeight)), None)
  /\ unscan' \in DaiWrite(unscan, unscan \ {ForkHeight(curHeight)})
  /\ curHeight' = back
  /\ \E l \in DaiRead(LocalBlock(back), None) :
       IF l = None
         THEN pc' = "refetch" /\ UNCHANGED curHash
         ELSE pc' = "rewind" /\ curHash' = l
  /\ blk' = NoBlock
  /\ UNCHANGED <<chain, tip, head, local, opVars, toldVars, adopted>>

\* No local block at that height: the node's hash is taken instead.
Refetch ==
  /\ pc = "refetch"
  /\ HasBlock(curHeight)
  /\ curHash' = chain[curHeight]
  /\ adopted' = adopted \cup {curHash'}
  /\ pc' = "rewind"
  /\ UNCHANGED <<chain, curHeight, tip, blk, forkBlk, daiVars, opVars, toldVars>>

Rewind ==
  /\ pc = "rewind"
  /\ head' \in DaiWrite(head, [height |-> curHeight, hash |-> curHash])
  /\ pc' = "forkNotify"
  /\ UNCHANGED <<chain, curHeight, curHash, tip, blk, forkBlk, local, unscan, opVars, toldVars,
                 adopted>>

\* Nothing is notified when the fork block was not found: forkBlk is None then.
ForkNotify ==
  /\ pc = "forkNotify"
  /\ standing' = standing \ {forkBlk}
  /\ announced' = announced \ {forkBlk}
  /\ forkBlk' = None
  /\ pc' = "loop"
  /\ UNCHANGED <<chain, curHeight, curHash, tip, blk, daiVars, opVars, extracted, missed,
                 adopted>>

-----------------------------------------------------------------------------
(* ScanBlockTask: the fetched block extends the local head.                *)

\* BatchExtractTransactions: observers get the block's extract data, marked with the hash
\* it is called with; a transaction that fails leaves an unscan record of its height.
Deliver(height, block, stamp) ==
  /\ extracted' = extracted \cup {[block |-> block, stamp |-> stamp]}
  /\ standing' = standing \cup {block}
  /\ \/ /\ missed' = missed \ {block}
        /\ UNCHANGED unscan
     \/ /\ TxFailures
        /\ missed' = missed \cup {block}
        /\ unscan' \in DaiWrite(unscan, unscan \cup {height})

\* currentHash is still the hash of the block below.
Extract ==
  /\ pc = "extract"
  /\ Deliver(curHeight, blk.hash, curHash)
  /\ pc' = "saveHead"
  /\ UNCHANGED <<chain, curHeight, curHash, tip, blk, forkBlk, head, local, opVars, announced,
                 adopted>>

SaveHead ==
  /\ pc = "saveHead"
  /\ curHash' = blk.hash
  /\ head' \in DaiWrite(head, [height |-> curHeight, hash |-> blk.hash])
  /\ pc' = "saveBlock"
  /\ UNCHANGED <<chain, curHeight, tip, blk, forkBlk, local, unscan, opVars, toldVars, adopted>>

SaveBlock ==
  /\ pc = "saveBlock"
  /\ local' \in DaiWrite(local, [local EXCEPT ![curHeight] = blk.hash])
  /\ pc' = "newNotify"
  /\ UNCHANGED <<chain, curHeight, curHash, tip, blk, forkBlk, head, unscan, opVars, toldVars,
                 adopted>>

NewNotify ==
  /\ pc = "newNotify"
  /\ announced' = announced \cup {blk.hash}
  /\ blk' = NoBlock
  /\ pc' = "loop"
  /\ UNCHANGED <<chain, curHeight, curHash, tip, forkBlk, daiVars, opVars, extracted, standing,
                 missed, adopted>>

-----------------------------------------------------------------------------
(* Crashes, and the operator calls that run beside the task.               *)

Crash ==
  /\ pc # "down"
  /\ crashes < MaxCrashes
  /\ crashes' = crashes + 1
  /\ ProcessDies
  /\ UNCHANGED <<chain, daiVars, scanning, ops, toldVars, adopted>>

Restart ==
  /\ pc = "down"
  /\ pc' = "idle"
  /\ UNCHANGED <<chain, curHeight, curHash, tip, blk, forkBlk, daiVars, opVars, toldVars,
                 adopted>>

OperatorCalls ==
  /\ pc # "down"
  /\ request = Idle
  /\ ops < MaxOps
  /\ ops' = ops + 1

\* Run and Stop of the framework's BlockScannerBase, at any moment.
SetScanning ==
  /\ pc # "down"
  /\ scanning' = ~scanning
  /\ UNCHANGED <<chain, taskVars, daiVars, request, crashes, ops, toldVars, adopted>>

\* SetRescanBlockHeight(h + 1): its GetGetBlock; an error there changes nothing.
RescanFetch ==
  /\ OperatorCalls
  /\ \E h \in DOMAIN chain : request' = [op |-> "rescan", height |-> h, hash |-> chain[h]]
  /\ UNCHANGED <<chain, taskVars, daiVars, scanning, crashes, toldVars, adopted>>

RescanSave ==
  /\ request.op = "rescan"
  /\ head' \in DaiWrite(head, [height |-> request.height, hash |-> request.hash])
  /\ adopted' = adopted \cup {request.hash}
  /\ request' = Idle
  /\ UNCHANGED <<chain, taskVars, local, unscan, scanning, crashes, ops, toldVars>>

\* ScanBlock(h): a block that cannot be fetched leaves an unscan record.
ScanBlockFetch ==
  /\ OperatorCalls
  /\ \E h \in Heights :
       \/ /\ HasBlock(h)
          /\ request' = [op |-> "scan", height |-> h, hash |-> chain[h]]
          /\ UNCHANGED unscan
       \/ /\ unscan' \in DaiWrite(unscan, unscan \cup {h})
          /\ UNCHANGED request
  /\ UNCHANGED <<chain, taskVars, head, local, scanning, crashes, toldVars, adopted>>

\* Here the block's own hash is passed.
ScanBlockExtract ==
  /\ request.op = "scan"
  /\ Deliver(request.height, request.hash, request.hash)
  /\ request' = [request EXCEPT !.op = "announce"]
  /\ UNCHANGED <<chain, taskVars, head, local, scanning, crashes, ops, announced, adopted>>

ScanBlockNotify ==
  /\ request.op = "announce"
  /\ announced' = announced \cup {request.hash}
  /\ request' = Idle
  /\ UNCHANGED <<chain, taskVars, daiVars, scanning, crashes, ops, extracted, standing,
                 missed, adopted>>

-----------------------------------------------------------------------------
(* The specification.                                                      *)

Init ==
  /\ chain = InitChain
  /\ scanning = TRUE
  /\ pc = "idle"
  /\ curHeight = 0
  /\ curHash = None
  /\ tip = 0
  /\ blk = NoBlock
  /\ forkBlk = None
  /\ head = NoHead
  /\ local = [h \in Heights |-> None]
  /\ unscan = {}
  /\ request = Idle
  /\ crashes = 0
  /\ ops = 0
  /\ extracted = {}
  /\ standing = {}
  /\ announced = {}
  /\ missed = {}
  /\ adopted = {}

\* The steps of the task that need no answer of the node, and those that do.
LocalStep == \/ TaskStart \/ LoopStopped \/ ForkBack \/ Rewind \/ ForkNotify
             \/ Extract \/ SaveHead \/ SaveBlock \/ NewNotify \/ Restart
RpcStep   == \/ BootTip \/ BootBlock \/ LoopTip \/ LoopBlock \/ Fetch \/ Refetch

OperatorStep == \/ SetScanning \/ RescanFetch \/ RescanSave
                \/ ScanBlockFetch \/ ScanBlockExtract \/ ScanBlockNotify

Next == \/ LocalStep \/ RpcStep \/ OperatorStep
        \/ NodeAdvance \/ RpcFails \/ BootPanic \/ Crash

Spec == Init /\ [][Next]_vars

\* The timer runs the task again and again and the process is restarted; each call to the
\* node is answered in the end if it is made again and again. Nothing is assumed of the
\* node's chain, of failures, of crashes and of the operator.
Fairness ==
  /\ WF_vars(LocalStep)
  /\ SF_vars(BootTip) /\ SF_vars(BootBlock)
  /\ SF_vars(LoopTip) /\ SF_vars(LoopBlock)
  /\ SF_vars(Fetch) /\ SF_vars(Refetch)

FairSpec == Spec /\ Fairness

-----------------------------------------------------------------------------
(* Properties of any run: failures, crashes and operators included.        *)

ExtractedBlocks == {r.block : r \in extracted}

OnChain(height, hash) == \E c \in Chains : height \in DOMAIN c /\ c[height] = hash

\* From position n of chain c down, every block is in given, back to block 1 or to a block
\* in trusted.
CoveredAt(c, n, given, trusted) ==
  \E k \in 0..n : /\ k > 0 => c[k] \in trusted
                  /\ \A i \in (k + 1)..n : c[i] \in given

\* hash is the block at that height of some chain (Genesis is at 0), covered on every chain
\* it is on.
Sound(height, hash, given, trusted) ==
  IF height = 0
    THEN hash = Genesis
    ELSE /\ OnChain(height, hash)
         /\ \A c \in Chains : height \in DOMAIN c /\ c[height] = hash
                             => CoveredAt(c, height, given, trusted)

\* No block is skipped: whatever fails, crashes or races, the saved head (lines 168 and
\* 184) is a block whose ancestors the observers got extract data of, back to where the
\* scanner started, an operator put it, or it took the node's hash for want of its own.
HeadCovered ==
  head # NoHead => Sound(head.height, head.hash, ExtractedBlocks, adopted)

\* Line 146 subtracts 2 from a uint32 and line 147 tests it for <= 0: a fork is never seen
\* at block 1, where the result would wrap to 2^32 - 1.
ForkAboveGenesis == pc = "fork" => curHeight >= 2

-----------------------------------------------------------------------------
(* Properties of a scanner whose DAI calls succeed and that no operator     *)
(* moves, while the node reorganises and refuses calls and the operator     *)
(* stops and runs it: with crashes, and without.                            *)

Unmoved     == MaxOps = 0 /\ ~DaiFaults
Undisturbed == Unmoved /\ MaxCrashes = 0

\* The block at the tip is never taken: the saved head stays below it (line 575 reads the
\* block below the tip, and line 119 compares with == only).
LagsTip == head.height < Len(chain)

OnBranchOfHead(b) ==
  \E c \in Chains : /\ head.height \in DOMAIN c /\ c[head.height] = head.hash
                    /\ \E i \in DOMAIN c : c[i] = b

\* Between two runs of the task, no block is left standing with the observers on a branch
\* the saved head has left: each was notified as a fork (line 172), one by one, as the task
\* walked back over it.
NoOrphan ==
  pc = "idle" /\ head # NoHead =>
    \A b \in standing \cup announced : OnBranchOfHead(b)

\* The observers get a block's extract data again only after the block was notified as a
\* fork: a reorganisation, or a task that broke off on a failed call, never repeats one.
NoRedelivery == [][pc = "extract" /\ pc' = "saveHead" => blk.hash \notin standing]_vars

\* The saved head moves to a child of the block it was at, or one block down; or, at
\* height 1, which line 147 never leaves, to another block 1.
HeadStep ==
  [][head # NoHead =>
       \/ head'.height = head.height - 1
       \/ head.height = 1 /\ head'.height = 1
       \/ \E c \in Chains : /\ head'.height = head.height + 1
                            /\ head'.height \in DOMAIN c
                            /\ c[head.height] = head.hash
                            /\ c[head'.height] = head'.hash]_head

\* What the observers were told and not told to be a fork since.
Told == standing \cup announced

F == INSTANCE ChainFollower WITH held <- Told

\* The scanner implements ChainFollower: every block is given to the observers once, then
\* the head is saved (lines 176 to 184), and taken back from them only after the head has
\* moved below it (168 to 172).
Follows == F!Follow

\* Between two runs of the task, the observers hold a stretch of one branch that ends at the
\* saved head, without a gap, however often the task walked back and forth.
NoGap == pc = "idle" => F!Unbroken(head, Told)

\* Once the node's chain stands still, the scanner comes to the block below the tip and
\* stays there, whatever forks it has to leave. Block 1 must stay: once it is scanned, line
\* 147 never lets the task walk back over it.
CatchesUp ==
  [](ops = 0 /\ scanning /\ chain[1] = InitChain[1]) =>
    <>[](/\ head.height = Len(chain) - 1
         /\ head.height > 0 => head.hash = chain[head.height])

\* Stop ends the task, unless Run undoes it first (line 105), even one that walks back and
\* forth for ever below a block 1 the node no longer has.
StopHalts == ~scanning ~> (pc \in {"idle", "down"} \/ scanning)

-----------------------------------------------------------------------------
(* The inductive invariant behind TypeOK, HeadCovered and ForkAboveGenesis. *)

SoundNow(height, hash) == Sound(height, hash, ExtractedBlocks, adopted)

\* Whatever the local records say was scanned.
LocalSound == \A h \in Heights : local[h] # None => SoundNow(h, local[h])

\* Where the task stands: at the block it has, or below the block it fetches.
TaskSound ==
  /\ pc \in {"loop", "loopBlock", "rewind", "forkNotify", "saveBlock", "newNotify"}
       => SoundNow(curHeight, curHash)
  /\ pc \in {"fetch", "fork", "extract"} => curHeight >= 1 /\ SoundNow(curHeight - 1, curHash)
  /\ pc = "saveHead" => SoundNow(curHeight, blk.hash)
  /\ pc \in {"saveBlock", "newNotify"} => curHash = blk.hash
  /\ pc \in {"refetch", "rewind", "saveHead", "saveBlock", "newNotify"} => curHeight \in Heights

\* The fetched block, whatever chain the node was on.
BlockSound ==
  /\ pc \in {"fork", "extract"} =>
       \E c \in Chains : /\ curHeight \in DOMAIN c
                         /\ blk.hash = c[curHeight]
                         /\ blk.prev = IF curHeight = 1 THEN Genesis ELSE c[curHeight - 1]
  /\ pc = "fork" => blk.prev # curHash
  /\ pc = "extract" => blk.prev = curHash
  /\ pc \in {"saveHead", "saveBlock", "newNotify"} => blk.hash \in Hash

RequestSound == request # Idle => OnChain(request.height, request.hash)

IInv == /\ TypeOK
        /\ HeadCovered
        /\ LocalSound
        /\ TaskSound
        /\ BlockSound
        /\ RequestSound

\* The strengthening of LagsTip while no operator moves the head: the task's height stays
\* below the tip it read, and that below the node's.
LagInv ==
  /\ LagsTip
  /\ request = Idle /\ ops = 0
  /\ tip <= Len(chain)
  /\ pc = "loopBlock" => curHeight < tip
  /\ pc \in {"loop", "loopBlock", "fetch", "fork", "refetch", "rewind", "forkNotify",
             "extract", "saveHead", "saveBlock", "newNotify"} => curHeight < Len(chain)

\* Every block of given is on the branch of hash, which is at that height, with all blocks
\* between them, and the local records name that branch from there up to height top.
Traced(height, hash, top, given) ==
  \A b \in given :
    \E c \in Chains : /\ height \in DOMAIN c /\ c[height] = hash
                      /\ \E i \in 1..height : /\ c[i] = b
                                              /\ \A j \in i..height : c[j] \in given
                                              /\ \A j \in i..top : local[j] = c[j]

\* The strengthening of HeadStep for a scanner whose DAI calls succeed and that no operator
\* moves: the task stands where the saved head is, or on its way to save the next one.
HeadInv ==
  /\ request = Idle /\ ops = 0
  /\ pc \in {"boot", "bootBlock"} => head = NoHead
  /\ pc \in {"loop", "loopBlock"} /\ head # NoHead
       => head = [height |-> curHeight, hash |-> curHash]
  /\ pc \in {"fetch", "fork", "extract", "saveHead"} /\ head # NoHead
       => head = [height |-> curHeight - 1, hash |-> curHash]
  /\ pc \in {"refetch", "rewind"} /\ head # NoHead
       => head.height = curHeight + 1 \/ (head.height = 1 /\ curHeight = 1)
  /\ pc \in {"forkNotify", "saveBlock", "newNotify"}
       => head = [height |-> curHeight, hash |-> curHash]
  /\ pc = "saveHead" =>
       \E c \in Chains : /\ curHeight \in DOMAIN c /\ c[curHeight] = blk.hash
                         /\ curHeight > 1 => c[curHeight - 1] = curHash

\* The strengthening of NoOrphan, NoGap, NoRedelivery and Follows, without crashes: what the
\* observers hold can be walked back over through the local records, but for the fork the
\* task is about to notify, which is the block the head was at.
HeldInv ==
  /\ crashes = 0
  /\ pc = "down" => head = NoHead
  /\ pc \in {"idle", "boot", "bootBlock", "down", "loop", "loopBlock", "fetch", "fork",
             "refetch", "rewind", "extract"}
       => Traced(head.height, head.hash, head.height, Told)
  /\ pc = "refetch" => Told \subseteq {forkBlk}
  /\ pc \in {"rewind", "forkNotify"} => Traced(curHeight, curHash, curHeight, Told \ {forkBlk})
  /\ pc \in {"refetch", "rewind"} /\ forkBlk \in Told => forkBlk = head.hash
  /\ pc = "forkNotify" /\ forkBlk \in Told =>
       \E c \in Chains : \E i \in DOMAIN c : /\ c[i] = forkBlk
                                             /\ i = head.height + 1 \/ (i = 1 /\ head.height = 1)
  /\ pc \in {"saveHead", "saveBlock"} => Traced(curHeight, blk.hash, curHeight - 1, Told)
  /\ pc = "newNotify" => Traced(curHeight, blk.hash, curHeight, Told)
  /\ pc \in {"saveHead", "saveBlock", "newNotify"} => blk.hash \in standing

-----------------------------------------------------------------------------
(* What the comments of the code say and the code does not do.             *)

\* Line 181, "reset the hash of the current block": observers get a block's transactions
\* marked with that block's hash.
StampIsOwn == \A r \in extracted : r.stamp = r.block

\* Line 241, "record the block not scanned": a block whose extraction failed keeps its
\* record as long as the observers have not been told that it was a fork.
MissedIsRecorded ==
  pc = "idle" => \A b \in missed \cap standing : \E c \in Chains, h \in unscan :
                   h \in DOMAIN c /\ c[h] = b

=============================================================================
