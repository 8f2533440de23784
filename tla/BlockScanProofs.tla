--------------------------- MODULE BlockScanProofs ---------------------------
(* Proofs about BlockScan, for every tree of chains, every number of crashes  *)
(* and operator calls, and every failure of the DAI.                          *)
EXTENDS BlockScan, TLAPS

-----------------------------------------------------------------------------
(* Facts about chains and about Sound, all of them constant-level.          *)

\* The positions of a chain are heights, and what stands there is a hash.
LEMMA ChainFacts ==
  ASSUME NEW c \in Chains
  PROVE  /\ c \in Seq(Hash)
         /\ DOMAIN c = 1..Len(c)
         /\ Len(c) \in Nat /\ Len(c) <= MaxHeight
         /\ \A i \in DOMAIN c : i \in Heights /\ c[i] \in Hash
  <1>1. c \in Seq(Hash) /\ Len(c) \in 1..MaxHeight
    BY ChainAssumption
  <1>2. DOMAIN c = 1..Len(c) /\ \A i \in 1..Len(c) : c[i] \in Hash
    BY <1>1
  <1> QED
    BY <1>1, <1>2, ChainAssumption DEF Heights

\* A sound position is Genesis at 0, or a block of some chain.
LEMMA SoundType ==
  ASSUME NEW height \in Nat, NEW hash, NEW given, NEW trusted,
         Sound(height, hash, given, trusted)
  PROVE  \/ height = 0 /\ hash = Genesis
         \/ height \in Heights /\ hash \in Hash
  BY ChainFacts DEF Sound, OnChain

\* Giving out or trusting more blocks keeps a position sound.
LEMMA SoundGrows ==
  ASSUME NEW height, NEW hash, NEW given, NEW trusted, NEW given2, NEW trusted2,
         given \subseteq given2, trusted \subseteq trusted2,
         Sound(height, hash, given, trusted)
  PROVE  Sound(height, hash, given2, trusted2)
  BY DEF Sound, CoveredAt

\* A block of some chain that is trusted is sound.
LEMMA SoundTrusted ==
  ASSUME NEW height, NEW hash, NEW given, NEW trusted,
         OnChain(height, hash), hash \in trusted
  PROVE  height \in Heights /\ Sound(height, hash, given, trusted)
  <1>1. height \in Heights
    BY ChainFacts DEF OnChain
  <1>2. ASSUME NEW c \in Chains, height \in DOMAIN c, c[height] = hash
        PROVE  CoveredAt(c, height, given, trusted)
    <2>1. height \in 0..height /\ (height + 1)..height = {}
      BY <1>1 DEF Heights
    <2> QED
      BY <1>2, <2>1 DEF CoveredAt
  <1> QED
    BY <1>1, <1>2 DEF Sound, Heights

\* A block given out is sound if its parent is.
LEMMA SoundStep ==
  ASSUME NEW c \in Chains, NEW n \in DOMAIN c, NEW given, NEW trusted,
         Sound(n - 1, IF n = 1 THEN Genesis ELSE c[n - 1], given, trusted),
         c[n] \in given
  PROVE  Sound(n, c[n], given, trusted)
  <1>1. n \in Heights /\ n \in Nat /\ n >= 1
    BY ChainFacts DEF Heights
  <1>2. ASSUME NEW d \in Chains, n \in DOMAIN d, d[n] = c[n]
        PROVE  CoveredAt(d, n, given, trusted)
    <2>1. CASE n = 1
      <3>1. \A i \in (0 + 1)..1 : d[i] \in given
        BY <1>2, <2>1
      <3> QED
        BY <3>1, <2>1 DEF CoveredAt
    <2>2. CASE n > 1
      <3>1. n - 1 \in DOMAIN d /\ d[n - 1] = c[n - 1]
        BY <1>1, <1>2, <2>2, ChainFacts, HashAssumption
      <3>2. CoveredAt(d, n - 1, given, trusted)
        BY <3>1, <2>2, <1>1 DEF Sound
      <3>3. PICK k \in 0..(n - 1) : /\ k > 0 => d[k] \in trusted
                                    /\ \A i \in (k + 1)..(n - 1) : d[i] \in given
        BY <3>2 DEF CoveredAt
      <3>4. \A i \in (k + 1)..n : d[i] \in given
        BY <3>3, <1>1, <1>2
      <3>5. k \in 0..n
        BY <3>3, <1>1
      <3> QED
        BY <3>3, <3>4, <3>5 DEF CoveredAt
    <2> QED
      BY <1>1, <2>1, <2>2
  <1> QED
    BY <1>1, <1>2 DEF Sound, OnChain

-----------------------------------------------------------------------------
(* The inductive invariant: the initial states and each action.             *)

\* The histories only grow.
LEMMA HistoryGrows ==
  ASSUME Next
  PROVE  ExtractedBlocks \subseteq ExtractedBlocks' /\ adopted \subseteq adopted'
  BY DEF Next, LocalStep, RpcStep, OperatorStep, ExtractedBlocks, Deliver, ReadTip, vars,
         TaskStart, BootTip, BootBlock, BootPanic, LoopStopped, LoopTip, LoopBlock, Fetch,
         RpcFails, ForkBack, Refetch, Rewind, ForkNotify, Extract, SaveHead, SaveBlock,
         NewNotify, NodeAdvance, Crash, Restart, SetScanning, RescanFetch, RescanSave,
         ScanBlockFetch, ScanBlockExtract, ScanBlockNotify, OperatorCalls, toldVars

\* What is sound now is sound after any step.
LEMMA StaysSound ==
  ASSUME Next, NEW height, NEW hash, Sound(height, hash, ExtractedBlocks, adopted)
  PROVE  Sound(height, hash, ExtractedBlocks', adopted')
  BY HistoryGrows, SoundGrows

LEMMA InitInv == Init => IInv
  <1> SUFFICES ASSUME Init PROVE IInv
    OBVIOUS
  <1>1. TypeOK
    BY ChainAssumption, BoundAssumption
    DEF Init, TypeOK, NoBlock, NoHead, Idle, Heights, PcStates
  <1>2. HeadCovered /\ LocalSound /\ TaskSound /\ BlockSound /\ RequestSound
    BY DEF Init, HeadCovered, LocalSound, TaskSound, BlockSound, RequestSound, Idle
  <1> QED
    BY <1>1, <1>2 DEF IInv

\* Steps that leave the head and the local records alone keep them sound.
LEMMA RecordsStay ==
  ASSUME IInv, Next, UNCHANGED <<head, local>>
  PROVE  HeadCovered' /\ LocalSound'
  BY StaysSound DEF IInv, HeadCovered, LocalSound, SoundNow

\* The task's local variables after it returned, or after the process died.
LEMMA TaskGone ==
  ASSUME pc' \in {"idle", "down"}, curHeight' = 0, curHash' = None, tip' = 0,
         blk' = NoBlock, forkBlk' = None
  PROVE  TaskSound' /\ BlockSound'
  BY DEF TaskSound, BlockSound

\* Steps that leave the task or the operator's request alone keep what is known of them.
LEMMA TaskStays ==
  ASSUME IInv, Next, UNCHANGED taskVars
  PROVE  TaskSound' /\ BlockSound'
  BY StaysSound DEF IInv, TaskSound, BlockSound, SoundNow, taskVars

LEMMA RequestStays ==
  ASSUME IInv, request' \in {request, Idle}
  PROVE  RequestSound'
  BY DEF IInv, RequestSound

\* The node's chain is one of the chains, so is what it says of its blocks.
LEMMA NodeFacts ==
  ASSUME TypeOK, NEW h, HasBlock(h)
  PROVE  /\ h \in Heights /\ h <= Len(chain)
         /\ OnChain(h, chain[h]) /\ chain[h] \in Hash
         /\ BlockAt(h).hash = chain[h]
         /\ BlockAt(h).prev = IF h = 1 THEN Genesis ELSE chain[h - 1]
         /\ BlockAt(h) \in [hash : Hash, prev : Hash \cup {Genesis}]
         /\ h # 1 => OnChain(h - 1, chain[h - 1]) /\ chain[h - 1] \in Hash
  <1>1. chain \in Chains /\ h \in DOMAIN chain
    BY DEF TypeOK, HasBlock
  <1>2. DOMAIN chain = 1..Len(chain) /\ Len(chain) \in Nat
        /\ \A i \in DOMAIN chain : i \in Heights /\ chain[i] \in Hash
    BY <1>1, ChainFacts
  <1>3. h # 1 => h - 1 \in DOMAIN chain
    BY <1>1, <1>2
  <1> QED
    BY <1>1, <1>2, <1>3 DEF OnChain, BlockAt

LEMMA TaskStartInv == IInv /\ Next /\ TaskStart => IInv'
  <1> SUFFICES ASSUME IInv, Next, TaskStart PROVE IInv'
    OBVIOUS
  <1> USE DEF IInv
  <1>1. PICK h \in {head, NoHead} : /\ curHeight' = h.height
                                    /\ curHash' = h.hash
                                    /\ pc' = IF h.height = 0 THEN "boot" ELSE "loop"
    BY DEF TaskStart, DaiRead
  <1>2. \/ h = NoHead
        \/ h = head /\ head # NoHead /\ h.height \in Heights /\ h.hash \in Hash
    BY <1>1 DEF TypeOK
  <1>3. TypeOK'
    BY <1>1, <1>2, ChainAssumption
    DEF TypeOK, TaskStart, NoHead, PcStates, Heights, daiVars, opVars, toldVars
  <1>4. HeadCovered' /\ LocalSound'
    BY RecordsStay DEF TaskStart, daiVars
  <1>5. TaskSound'
    <2>1. CASE h = NoHead
      BY <1>1, <2>1 DEF TaskSound, NoHead
    <2>2. CASE h = head /\ head # NoHead
      <3>1. SoundNow(curHeight, curHash)'
        BY <1>1, <2>2, StaysSound DEF HeadCovered, SoundNow
      <3> QED
        BY <1>1, <3>1 DEF TaskSound
    <2> QED
      BY <1>2, <2>1, <2>2
  <1>6. BlockSound'
    BY <1>1 DEF BlockSound
  <1>7. RequestSound'
    BY RequestStays DEF TaskStart, opVars
  <1> QED
    BY <1>3, <1>4, <1>5, <1>6, <1>7

LEMMA ReadTipInv == IInv /\ Next /\ (BootTip \/ LoopTip) => IInv'
  <1> SUFFICES ASSUME IInv, Next, BootTip \/ LoopTip PROVE IInv'
    OBVIOUS
  <1> USE DEF IInv, BootTip, LoopTip, ReadTip
  <1>1. chain \in Chains /\ Len(chain) \in Nat /\ Len(chain) <= MaxHeight
    BY ChainFacts DEF TypeOK
  <1>2. TypeOK'
    BY <1>1, ChainAssumption DEF TypeOK, PcStates, daiVars, opVars, toldVars
  <1>3. HeadCovered' /\ LocalSound'
    BY RecordsStay DEF daiVars
  <1>4. TaskSound' /\ BlockSound'
    BY StaysSound DEF TaskSound, BlockSound, SoundNow
  <1>5. RequestSound'
    BY RequestStays DEF opVars
  <1> QED
    BY <1>2, <1>3, <1>4, <1>5

LEMMA BootBlockInv == IInv /\ Next /\ BootBlock => IInv'
  <1> SUFFICES ASSUME IInv, Next, BootBlock PROVE IInv'
    OBVIOUS
  <1> USE DEF IInv, BootBlock, StartHeight, StartHash
  <1>1. /\ tip - 1 \in Heights /\ tip \in Nat
        /\ curHeight' = tip - 2
        /\ curHash' = IF tip - 1 = 1 THEN Genesis ELSE chain[tip - 2]
        /\ tip - 1 # 1 => OnChain(tip - 2, chain[tip - 2]) /\ chain[tip - 2] \in Hash
    BY NodeFacts, ChainAssumption DEF TypeOK
  <1>2. TypeOK'
    BY <1>1, ChainAssumption DEF TypeOK, PcStates, Heights, daiVars, opVars, toldVars
  <1>3. HeadCovered' /\ LocalSound'
    BY RecordsStay DEF daiVars
  <1>4. Sound(curHeight', curHash', ExtractedBlocks', adopted')
    <2>1. CASE tip - 1 = 1
      BY <1>1, <2>1 DEF Sound
    <2>2. CASE tip - 1 # 1
      BY <1>1, <2>2, SoundTrusted
    <2> QED
      BY <2>1, <2>2
  <1>5. TaskSound' /\ BlockSound'
    BY <1>4 DEF TaskSound, BlockSound, SoundNow
  <1>6. RequestSound'
    BY RequestStays DEF opVars
  <1> QED
    BY <1>2, <1>3, <1>5, <1>6

\* The task returns, or the process dies: nothing of the task is left.
LEMMA TaskEndsInv ==
  IInv /\ Next /\ (LoopStopped \/ RpcFails \/ BootPanic \/ Crash) => IInv'
  <1> SUFFICES ASSUME IInv, Next, LoopStopped \/ RpcFails \/ BootPanic \/ Crash PROVE IInv'
    OBVIOUS
  <1> USE DEF IInv, LoopStopped, RpcFails, BootPanic, Crash, TaskEnds, ProcessDies
  <1>1. TypeOK'
    BY BoundAssumption, ChainAssumption
    DEF TypeOK, PcStates, daiVars, opVars, toldVars, Idle
  <1>2. HeadCovered' /\ LocalSound'
    BY RecordsStay DEF daiVars
  <1>3. TaskSound' /\ BlockSound'
    BY TaskGone
  <1>4. RequestSound'
    BY RequestStays DEF opVars
  <1> QED
    BY <1>1, <1>2, <1>3, <1>4

LEMMA LoopBlockInv == IInv /\ Next /\ LoopBlock => IInv'
  <1> SUFFICES ASSUME IInv, Next, LoopBlock PROVE IInv'
    OBVIOUS
  <1> USE DEF IInv, LoopBlock, TaskEnds
  <1>1. curHeight \in 0..MaxHeight /\ MaxHeight \in Nat
    BY SoundType, ChainAssumption DEF TypeOK, TaskSound, SoundNow, Heights
  <1>2. TypeOK'
    BY <1>1 DEF TypeOK, PcStates, daiVars, opVars, toldVars
  <1>3. HeadCovered' /\ LocalSound'
    BY RecordsStay DEF daiVars
  <1>4. TaskSound' /\ BlockSound'
    <2>1. CASE pc' = "idle"
      BY <2>1 DEF TaskSound, BlockSound
    <2>2. CASE pc' = "fetch"
      <3>1. /\ curHeight' = curHeight + 1 /\ curHash' = curHash
            /\ Sound(curHeight, curHash, ExtractedBlocks', adopted')
        BY <2>2, StaysSound DEF TaskSound, SoundNow
      <3> QED
        BY <2>2, <3>1, <1>1 DEF TaskSound, BlockSound, SoundNow
    <2> QED
      BY <2>1, <2>2
  <1>5. RequestSound'
    BY RequestStays DEF opVars
  <1> QED
    BY <1>2, <1>3, <1>4, <1>5

LEMMA FetchInv == IInv /\ Next /\ Fetch => IInv'
  <1> SUFFICES ASSUME IInv, Next, Fetch PROVE IInv'
    OBVIOUS
  <1> USE DEF IInv, Fetch, TaskEnds, IsFork
  <1>1. HasBlock(curHeight) =>
          /\ chain \in Chains /\ curHeight \in DOMAIN chain
          /\ BlockAt(curHeight).hash = chain[curHeight]
          /\ BlockAt(curHeight).prev = IF curHeight = 1 THEN Genesis ELSE chain[curHeight - 1]
          /\ BlockAt(curHeight) \in [hash : Hash, prev : Hash \cup {Genesis}]
    BY NodeFacts DEF TypeOK, HasBlock
  <1>2. TypeOK'
    BY <1>1, ChainAssumption DEF TypeOK, PcStates, daiVars, opVars, toldVars
  <1>3. HeadCovered' /\ LocalSound'
    BY RecordsStay DEF daiVars
  <1>4. TaskSound' /\ BlockSound'
    <2>1. CASE ~HasBlock(curHeight)
      BY <2>1 DEF TaskSound, BlockSound
    <2>2. CASE HasBlock(curHeight)
      <3>1. /\ pc' \in {"fork", "extract"}
            /\ pc' = "fork" <=> blk'.prev # curHash
            /\ UNCHANGED <<curHeight, curHash>>
            /\ blk' = BlockAt(curHeight)
        BY <2>2
      <3>2. /\ curHeight >= 1
            /\ Sound(curHeight - 1, curHash, ExtractedBlocks', adopted')
        BY StaysSound DEF TaskSound, SoundNow
      <3>3. TaskSound'
        BY <3>1, <3>2 DEF TaskSound, SoundNow
      <3>4. BlockSound'
        BY <3>1, <2>2, <1>1 DEF BlockSound
      <3> QED
        BY <3>3, <3>4
    <2> QED
      BY <2>1, <2>2
  <1>5. RequestSound'
    BY RequestStays DEF opVars
  <1> QED
    BY <1>2, <1>3, <1>4, <1>5

\* A fork is seen above block 1 only: at block 1 the task's hash and the block's parent
\* are both Genesis.
LEMMA ForkIsHigh == IInv => ForkAboveGenesis
  <1> SUFFICES ASSUME IInv, pc = "fork" PROVE curHeight >= 2
    BY DEF ForkAboveGenesis
  <1>1. curHeight \in Nat /\ curHeight >= 1 /\ SoundNow(curHeight - 1, curHash)
    BY DEF IInv, TypeOK, TaskSound
  <1>2. curHeight # 1
    BY <1>1 DEF IInv, BlockSound, Sound, SoundNow
  <1> QED
    BY <1>1, <1>2

LEMMA ForkBackInv == IInv /\ Next /\ ForkBack => IInv'
  <1> SUFFICES ASSUME IInv, Next, ForkBack PROVE IInv'
    OBVIOUS
  <1> DEFINE back == RewindHeight(curHeight)
  <1>1. /\ curHeight \in Heights /\ back \in Heights
        /\ ForkHeight(curHeight) \in Heights
    BY ForkIsHigh, ChainFacts
    DEF IInv, ForkBack, ForkAboveGenesis, BlockSound, RewindHeight, ForkHeight, Heights, TypeOK
  <1>2. /\ curHeight' = back
        /\ \/ pc' = "refetch" /\ curHash' = curHash
           \/ pc' = "rewind" /\ curHash' = local[back] /\ local[back] # None
    BY <1>1 DEF ForkBack, LocalBlock, DaiRead
  <1>3. unscan' \subseteq unscan /\ forkBlk' \in {local[ForkHeight(curHeight)], None}
    BY <1>1 DEF ForkBack, LocalBlock, DaiRead, DaiWrite
  <1>4. TypeOK'
    <2>1. local[back] \in Hash \cup {None} /\ local[ForkHeight(curHeight)] \in Hash \cup {None}
      BY <1>1 DEF IInv, TypeOK
    <2> QED
      BY <1>1, <1>2, <1>3, <2>1, ChainAssumption
      DEF ForkBack, IInv, TypeOK, PcStates, Heights, opVars, toldVars
  <1>5. HeadCovered' /\ LocalSound'
    BY RecordsStay DEF ForkBack
  <1>6. TaskSound' /\ BlockSound'
    <2>1. CASE pc' = "refetch"
      BY <1>1, <1>2, <2>1 DEF TaskSound, BlockSound
    <2>2. CASE pc' = "rewind"
      <3>1. curHash' = local[back] /\ local[back] # None
        BY <1>2, <2>2
      <3>2. Sound(back, local[back], ExtractedBlocks', adopted')
        BY <1>1, <3>1, StaysSound DEF IInv, LocalSound, SoundNow
      <3> QED
        BY <1>1, <1>2, <2>2, <3>1, <3>2 DEF TaskSound, BlockSound, SoundNow
    <2> QED
      BY <1>2, <2>1, <2>2
  <1>7. RequestSound'
    BY RequestStays DEF ForkBack, opVars
  <1> QED
    BY <1>4, <1>5, <1>6, <1>7 DEF IInv

LEMMA RefetchInv == IInv /\ Next /\ Refetch => IInv'
  <1> SUFFICES ASSUME IInv, Next, Refetch PROVE IInv'
    OBVIOUS
  <1> USE DEF IInv, Refetch
  <1>1. curHeight \in Heights /\ OnChain(curHeight, chain[curHeight]) /\ chain[curHeight] \in Hash
    BY NodeFacts
  <1>2. TypeOK'
    BY <1>1 DEF TypeOK, PcStates, daiVars, opVars, toldVars
  <1>3. HeadCovered' /\ LocalSound'
    BY RecordsStay DEF daiVars
  <1>4. Sound(curHeight', curHash', ExtractedBlocks', adopted')
    BY <1>1, SoundTrusted
  <1>5. TaskSound' /\ BlockSound'
    BY <1>1, <1>4 DEF TaskSound, BlockSound, SoundNow
  <1>6. RequestSound'
    BY RequestStays DEF opVars
  <1> QED
    BY <1>2, <1>3, <1>5, <1>6

\* While the local records stay.
LEMMA LocalStays ==
  ASSUME IInv, Next, UNCHANGED local
  PROVE  LocalSound'
  BY StaysSound DEF IInv, LocalSound, SoundNow

LEMMA RewindInv == IInv /\ Next /\ Rewind => IInv'
  <1> SUFFICES ASSUME IInv, Next, Rewind PROVE IInv'
    OBVIOUS
  <1> USE DEF IInv, Rewind
  <1>1. curHeight \in Heights /\ SoundNow(curHeight, curHash)
    BY DEF TaskSound
  <1>2. curHash \in Hash
    BY <1>1, SoundType DEF SoundNow, Heights, TypeOK
  <1>3. TypeOK'
    BY <1>1, <1>2 DEF TypeOK, PcStates, DaiWrite, opVars, toldVars
  <1>4. Sound(curHeight, curHash, ExtractedBlocks', adopted')
    BY <1>1, StaysSound DEF SoundNow
  <1>5. HeadCovered'
    BY <1>4, StaysSound DEF HeadCovered, DaiWrite
  <1>6. LocalSound'
    BY LocalStays
  <1>7. TaskSound' /\ BlockSound'
    BY <1>1, <1>4 DEF TaskSound, BlockSound, SoundNow
  <1>8. RequestSound'
    BY RequestStays DEF opVars
  <1> QED
    BY <1>3, <1>5, <1>6, <1>7, <1>8

LEMMA ForkNotifyInv == IInv /\ Next /\ ForkNotify => IInv'
  <1> SUFFICES ASSUME IInv, Next, ForkNotify PROVE IInv'
    OBVIOUS
  <1> USE DEF IInv, ForkNotify
  <1>1. TypeOK'
    BY DEF TypeOK, PcStates, daiVars, opVars
  <1>2. HeadCovered' /\ LocalSound'
    BY RecordsStay DEF daiVars
  <1>3. Sound(curHeight, curHash, ExtractedBlocks', adopted')
    BY StaysSound DEF TaskSound, SoundNow
  <1>4. TaskSound' /\ BlockSound'
    BY <1>3 DEF TaskSound, BlockSound, SoundNow
  <1>5. RequestSound'
    BY RequestStays DEF opVars
  <1> QED
    BY <1>1, <1>2, <1>4, <1>5

\* What a batch of extractions leaves behind.
LEMMA DeliverFacts ==
  ASSUME TypeOK, NEW height \in Heights, NEW block \in Hash, NEW stamp \in Hash \cup {Genesis},
         Deliver(height, block, stamp)
  PROVE  /\ extracted' \subseteq [block : Hash, stamp : Hash \cup {Genesis}]
         /\ standing' \subseteq Hash /\ missed' \subseteq Hash /\ unscan' \subseteq Heights
         /\ block \in ExtractedBlocks'
  <1>1. /\ extracted' = extracted \cup {[block |-> block, stamp |-> stamp]}
        /\ standing' = standing \cup {block}
        /\ missed' \in {missed \ {block}, missed \cup {block}}
        /\ unscan' \in {unscan, unscan \cup {height}}
    BY DEF Deliver, DaiWrite
  <1>2. [block |-> block, stamp |-> stamp] \in [block : Hash, stamp : Hash \cup {Genesis}]
    OBVIOUS
  <1>3. extracted' \subseteq [block : Hash, stamp : Hash \cup {Genesis}]
    BY <1>1, <1>2 DEF TypeOK
  <1>4. standing' \subseteq Hash /\ missed' \subseteq Hash /\ unscan' \subseteq Heights
    BY <1>1 DEF TypeOK
  <1>5. block \in ExtractedBlocks'
    BY <1>1 DEF ExtractedBlocks
  <1> QED
    BY <1>3, <1>4, <1>5

LEMMA ExtractInv == IInv /\ Next /\ Extract => IInv'
  <1> SUFFICES ASSUME IInv, Next, Extract PROVE IInv'
    OBVIOUS
  <1> USE DEF IInv, Extract
  <1>1. PICK c \in Chains :
          /\ curHeight \in DOMAIN c
          /\ blk.hash = c[curHeight]
          /\ curHash = IF curHeight = 1 THEN Genesis ELSE c[curHeight - 1]
    BY DEF BlockSound
  <1>2. /\ curHeight \in Heights /\ blk.hash \in Hash /\ curHash \in Hash \cup {Genesis}
        /\ curHeight # 1 => curHeight - 1 \in DOMAIN c
    BY <1>1, ChainFacts DEF Heights, TypeOK
  <1>3. /\ extracted' \subseteq [block : Hash, stamp : Hash \cup {Genesis}]
        /\ standing' \subseteq Hash /\ missed' \subseteq Hash /\ unscan' \subseteq Heights
        /\ blk.hash \in ExtractedBlocks'
    BY <1>2, DeliverFacts
  <1>4. TypeOK'
    BY <1>3 DEF TypeOK, PcStates, opVars
  <1>5. HeadCovered' /\ LocalSound'
    BY RecordsStay
  <1>6. Sound(curHeight - 1, curHash, ExtractedBlocks', adopted')
    BY StaysSound DEF TaskSound, SoundNow
  <1>7. Sound(curHeight, blk.hash, ExtractedBlocks', adopted')
    BY <1>1, <1>3, <1>6, SoundStep
  <1>8. TaskSound' /\ BlockSound'
    BY <1>2, <1>7 DEF TaskSound, BlockSound, SoundNow
  <1>9. RequestSound'
    BY RequestStays DEF opVars
  <1> QED
    BY <1>4, <1>5, <1>8, <1>9

LEMMA SaveHeadInv == IInv /\ Next /\ SaveHead => IInv'
  <1> SUFFICES ASSUME IInv, Next, SaveHead PROVE IInv'
    OBVIOUS
  <1> USE DEF IInv, SaveHead
  <1>1. curHeight \in Heights /\ blk.hash \in Hash
    BY DEF TaskSound, BlockSound
  <1>2. Sound(curHeight, blk.hash, ExtractedBlocks', adopted')
    BY StaysSound DEF TaskSound, SoundNow
  <1>3. TypeOK'
    BY <1>1 DEF TypeOK, PcStates, DaiWrite, opVars, toldVars
  <1>4. HeadCovered'
    BY <1>2, StaysSound DEF HeadCovered, DaiWrite
  <1>5. LocalSound'
    BY LocalStays
  <1>6. TaskSound' /\ BlockSound'
    BY <1>1, <1>2 DEF TaskSound, BlockSound, SoundNow
  <1>7. RequestSound'
    BY RequestStays DEF opVars
  <1> QED
    BY <1>3, <1>4, <1>5, <1>6, <1>7

LEMMA SaveBlockInv == IInv /\ Next /\ SaveBlock => IInv'
  <1> SUFFICES ASSUME IInv, Next, SaveBlock PROVE IInv'
    OBVIOUS
  <1> USE DEF IInv, SaveBlock
  <1>1. curHeight \in Heights /\ blk.hash \in Hash /\ blk.hash = curHash
    BY DEF TaskSound, BlockSound
  <1>2. Sound(curHeight, curHash, ExtractedBlocks', adopted')
    BY StaysSound DEF TaskSound, SoundNow
  <1>3. TypeOK'
    BY <1>1 DEF TypeOK, PcStates, DaiWrite, opVars, toldVars
  <1>4. HeadCovered'
    BY StaysSound DEF HeadCovered
  <1>5. LocalSound'
    <2> SUFFICES ASSUME NEW h \in Heights, local'[h] # None
                 PROVE  Sound(h, local'[h], ExtractedBlocks', adopted')
      BY DEF LocalSound, SoundNow
    <2>1. \/ local'[h] = local[h]
          \/ h = curHeight /\ local'[h] = curHash
      BY <1>1 DEF DaiWrite, TypeOK
    <2> QED
      BY <2>1, <1>2, StaysSound DEF LocalSound, SoundNow
  <1>6. TaskSound' /\ BlockSound'
    BY <1>1, <1>2 DEF TaskSound, BlockSound, SoundNow
  <1>7. RequestSound'
    BY RequestStays DEF opVars
  <1> QED
    BY <1>3, <1>4, <1>5, <1>6, <1>7

LEMMA NewNotifyInv == IInv /\ Next /\ NewNotify => IInv'
  <1> SUFFICES ASSUME IInv, Next, NewNotify PROVE IInv'
    OBVIOUS
  <1> USE DEF IInv, NewNotify
  <1>1. blk.hash \in Hash
    BY DEF BlockSound
  <1>2. TypeOK'
    BY <1>1 DEF TypeOK, PcStates, daiVars, opVars
  <1>3. HeadCovered' /\ LocalSound'
    BY RecordsStay DEF daiVars
  <1>4. Sound(curHeight, curHash, ExtractedBlocks', adopted')
    BY StaysSound DEF TaskSound, SoundNow
  <1>5. TaskSound' /\ BlockSound'
    BY <1>4 DEF TaskSound, BlockSound, SoundNow
  <1>6. RequestSound'
    BY RequestStays DEF opVars
  <1> QED
    BY <1>2, <1>3, <1>5, <1>6

LEMMA RestartInv == IInv /\ Next /\ Restart => IInv'
  <1> SUFFICES ASSUME IInv, Next, Restart PROVE IInv'
    OBVIOUS
  <1> USE DEF IInv, Restart
  <1>1. TypeOK'
    BY DEF TypeOK, PcStates, daiVars, opVars, toldVars
  <1>2. HeadCovered' /\ LocalSound'
    BY RecordsStay DEF daiVars
  <1>3. TaskSound' /\ BlockSound'
    BY DEF TaskSound, BlockSound
  <1>4. RequestSound'
    BY RequestStays DEF opVars
  <1> QED
    BY <1>1, <1>2, <1>3, <1>4

\* The node's own step and the operator's calls that leave the head alone.
LEMMA OthersInv ==
  IInv /\ Next /\ (\/ NodeAdvance \/ SetScanning \/ RescanFetch
                   \/ ScanBlockFetch \/ ScanBlockExtract \/ ScanBlockNotify) => IInv'
  <1> SUFFICES ASSUME IInv, Next,
                      \/ NodeAdvance \/ SetScanning \/ RescanFetch
                      \/ ScanBlockFetch \/ ScanBlockExtract \/ ScanBlockNotify
               PROVE  IInv'
    OBVIOUS
  <1>1. HeadCovered' /\ LocalSound'
    BY RecordsStay DEF NodeAdvance, SetScanning, RescanFetch, ScanBlockFetch,
                       ScanBlockExtract, ScanBlockNotify, daiVars
  <1>2. TaskSound' /\ BlockSound'
    BY TaskStays DEF NodeAdvance, SetScanning, RescanFetch, ScanBlockFetch,
                     ScanBlockExtract, ScanBlockNotify
  <1>3. CASE NodeAdvance
    BY <1>1, <1>2, <1>3, RequestStays
    DEF IInv, NodeAdvance, TypeOK, taskVars, daiVars, opVars, toldVars
  <1>4. CASE SetScanning
    BY <1>1, <1>2, <1>4, RequestStays, BoundAssumption
    DEF IInv, SetScanning, TypeOK, taskVars, daiVars, toldVars
  <1>5. CASE RescanFetch
    <2>1. PICK h \in DOMAIN chain : request' = [op |-> "rescan", height |-> h, hash |-> chain[h]]
      BY <1>5 DEF RescanFetch
    <2>2. h \in Heights /\ OnChain(h, chain[h]) /\ chain[h] \in Hash
      BY NodeFacts DEF HasBlock, IInv
    <2> QED
      BY <1>1, <1>2, <1>5, <2>1, <2>2, BoundAssumption
      DEF IInv, RescanFetch, OperatorCalls, TypeOK, RequestSound, taskVars, daiVars, toldVars
  <1>6. CASE ScanBlockFetch
    <2>1. \/ /\ unscan' \subseteq Heights
             /\ request' = request
          \/ \E h \in Heights : /\ HasBlock(h)
                                /\ request' = [op |-> "scan", height |-> h, hash |-> chain[h]]
                                /\ unscan' = unscan
      BY <1>6 DEF ScanBlockFetch, DaiWrite, IInv, TypeOK
    <2>2. /\ unscan' \subseteq Heights
          /\ RequestSound'
          /\ request' \in [op : {"rescan", "scan", "announce"}, height : Heights, hash : Hash]
                            \cup {Idle}
      <3>1. CASE unscan' \subseteq Heights /\ request' = request
        BY <3>1, RequestStays DEF IInv, TypeOK
      <3>2. CASE \E h \in Heights : /\ HasBlock(h)
                                    /\ request' = [op |-> "scan", height |-> h, hash |-> chain[h]]
                                    /\ unscan' = unscan
        <4>1. PICK h \in Heights : /\ HasBlock(h)
                                   /\ request' = [op |-> "scan", height |-> h, hash |-> chain[h]]
                                   /\ unscan' = unscan
          BY <3>2
        <4>2. OnChain(h, chain[h]) /\ chain[h] \in Hash
          BY <4>1, NodeFacts DEF IInv
        <4> QED
          BY <4>1, <4>2 DEF RequestSound, IInv, TypeOK
      <3> QED
        BY <2>1, <3>1, <3>2
    <2> QED
      BY <1>1, <1>2, <1>6, <2>2, BoundAssumption
      DEF IInv, ScanBlockFetch, OperatorCalls, TypeOK, taskVars, toldVars
  <1>7. CASE ScanBlockExtract
    <2>1. request.height \in Heights /\ request.hash \in Hash
          /\ request' = [op |-> "announce", height |-> request.height, hash |-> request.hash]
      BY <1>7 DEF ScanBlockExtract, IInv, TypeOK, Idle
    <2>2. /\ extracted' \subseteq [block : Hash, stamp : Hash \cup {Genesis}]
          /\ standing' \subseteq Hash /\ missed' \subseteq Hash /\ unscan' \subseteq Heights
      <3>1. TypeOK /\ Deliver(request.height, request.hash, request.hash)
        BY <1>7 DEF ScanBlockExtract, IInv
      <3> QED
        BY <2>1, <3>1, DeliverFacts
    <2>3. RequestSound'
      BY <1>7, <2>1 DEF IInv, RequestSound, ScanBlockExtract, Idle
    <2> QED
      BY <1>1, <1>2, <1>7, <2>1, <2>2, <2>3 DEF IInv, ScanBlockExtract, TypeOK, taskVars
  <1>8. CASE ScanBlockNotify
    <2>1. request.hash \in Hash
      BY <1>8 DEF ScanBlockNotify, IInv, TypeOK, Idle
    <2> QED
      BY <1>1, <1>2, <1>8, <2>1, RequestStays
      DEF IInv, ScanBlockNotify, TypeOK, taskVars, daiVars
  <1> QED
    BY <1>3, <1>4, <1>5, <1>6, <1>7, <1>8

LEMMA RescanSaveInv == IInv /\ Next /\ RescanSave => IInv'
  <1> SUFFICES ASSUME IInv, Next, RescanSave PROVE IInv'
    OBVIOUS
  <1> USE DEF IInv, RescanSave
  <1>1. request.height \in Heights /\ request.hash \in Hash /\ request # Idle
    BY DEF TypeOK, Idle
  <1>2. Sound(request.height, request.hash, ExtractedBlocks', adopted')
    BY <1>1, SoundTrusted DEF RequestSound
  <1>3. TypeOK'
    BY <1>1 DEF TypeOK, DaiWrite, taskVars, toldVars
  <1>4. HeadCovered'
    BY <1>2, StaysSound DEF HeadCovered, DaiWrite
  <1>5. LocalSound'
    BY LocalStays
  <1>6. TaskSound' /\ BlockSound'
    BY TaskStays
  <1>7. RequestSound'
    BY RequestStays
  <1> QED
    BY <1>3, <1>4, <1>5, <1>6, <1>7

-----------------------------------------------------------------------------
(* The theorems.                                                            *)

LEMMA StutterInv == IInv /\ UNCHANGED vars => IInv'
  BY DEF IInv, TypeOK, HeadCovered, LocalSound, TaskSound, BlockSound, RequestSound, SoundNow,
         ExtractedBlocks, HasBlock, vars, taskVars, daiVars, opVars, toldVars

\* IInv is an invariant of the scanner.
THEOREM Inductive == Spec => []IInv
  <1>1. IInv /\ [Next]_vars => IInv'
    <2> SUFFICES ASSUME IInv, [Next]_vars PROVE IInv'
      OBVIOUS
    <2>1. CASE Next
      <3>1. CASE LocalStep
        BY <2>1, <3>1, TaskStartInv, TaskEndsInv, ForkBackInv, RewindInv, ForkNotifyInv,
           ExtractInv, SaveHeadInv, SaveBlockInv, NewNotifyInv, RestartInv DEF LocalStep
      <3>2. CASE RpcStep
        BY <2>1, <3>2, ReadTipInv, BootBlockInv, LoopBlockInv, FetchInv, RefetchInv DEF RpcStep
      <3>3. CASE OperatorStep
        BY <2>1, <3>3, OthersInv, RescanSaveInv DEF OperatorStep
      <3>4. CASE NodeAdvance \/ RpcFails \/ BootPanic \/ Crash
        BY <2>1, <3>4, OthersInv, TaskEndsInv
      <3> QED
        BY <2>1, <3>1, <3>2, <3>3, <3>4 DEF Next
    <2>2. CASE UNCHANGED vars
      BY <2>2, StutterInv
    <2> QED
      BY <2>1, <2>2
  <1> QED
    BY <1>1, InitInv, PTL DEF Spec

\* Every variable keeps its type: curHeight, in particular, never passes the longest chain
\* by more than the one block the task looks for.
THEOREM TypeCorrect == Spec => []TypeOK
  BY Inductive, PTL DEF IInv

\* No block is skipped on the way to the saved head, however the node reorganises, whatever
\* call fails, whenever the process dies or an operator moves the head.
THEOREM NothingSkipped == Spec => []HeadCovered
  BY Inductive, PTL DEF IInv

\* The uint32 subtraction of line 146 never wraps.
THEOREM NoWrap == Spec => []ForkAboveGenesis
  BY Inductive, ForkIsHigh, PTL

-----------------------------------------------------------------------------
(* The scanner stays below the node's tip while no operator moves it.       *)

LEMMA InitLag == Init => LagInv
  BY ChainAssumption DEF Init, LagInv, LagsTip, Idle, NoHead

\* One step of the task, the node or a crash; the operator's steps are disabled.
LEMMA NextLag == MaxOps = 0 /\ IInv /\ LagInv /\ [Next]_vars => LagInv'
  <1> SUFFICES ASSUME MaxOps = 0, IInv, LagInv, [Next]_vars PROVE LagInv'
    OBVIOUS
  <1>1. /\ chain \in Chains /\ Len(chain) \in Nat /\ Len(chain) >= 1
        /\ DOMAIN chain = 1..Len(chain)
        /\ curHeight \in Nat /\ tip \in Nat /\ head.height \in Nat
    BY ChainAssumption, ChainFacts DEF IInv, TypeOK, NoHead, Heights
  <1>2. CASE LocalStep
    <2>1. CASE TaskStart
      BY <2>1, <1>1 DEF TaskStart, DaiRead, NoHead, LagInv, LagsTip, daiVars, opVars, toldVars
    <2>2. CASE ForkBack
      <3>1. curHeight' < Len(chain)
        BY <2>2, <1>1, ForkIsHigh DEF ForkBack, RewindHeight, ForkAboveGenesis, LagInv
      <3> QED
        BY <2>2, <3>1, <1>1 DEF ForkBack, LagInv, LagsTip, opVars, toldVars
    <2>3. CASE Rewind \/ SaveHead
      BY <2>3, <1>1 DEF Rewind, SaveHead, DaiWrite, LagInv, LagsTip, opVars, toldVars
    <2>4. CASE LoopStopped \/ Restart
      BY <2>4, <1>1 DEF LoopStopped, Restart, TaskEnds, LagInv, LagsTip, daiVars, opVars, toldVars
    <2>5. CASE ForkNotify \/ Extract \/ SaveBlock \/ NewNotify
      BY <2>5, <1>1 DEF ForkNotify, Extract, SaveBlock, NewNotify, LagInv, LagsTip, daiVars, opVars
    <2> QED
      BY <1>2, <2>1, <2>2, <2>3, <2>4, <2>5 DEF LocalStep
  <1>3. CASE RpcStep
    <2>1. CASE BootTip \/ LoopTip
      BY <2>1, <1>1 DEF BootTip, LoopTip, ReadTip, LagInv, LagsTip, daiVars, opVars
    <2>2. CASE BootBlock
      BY <2>2, <1>1 DEF BootBlock, HasBlock, StartHeight, LagInv, LagsTip, daiVars, opVars
    <2>3. CASE LoopBlock
      BY <2>3, <1>1 DEF LoopBlock, CaughtUp, TaskEnds, LagInv, LagsTip, daiVars, opVars
    <2>4. CASE Fetch \/ Refetch
      BY <2>4, <1>1 DEF Fetch, Refetch, TaskEnds, LagInv, LagsTip, daiVars, opVars
    <2> QED
      BY <1>3, <2>1, <2>2, <2>3, <2>4 DEF RpcStep
  <1>4. CASE OperatorStep
    <2>1. SetScanning
      BY <1>4 DEF OperatorStep, RescanFetch, RescanSave, ScanBlockFetch, ScanBlockExtract,
                  ScanBlockNotify, OperatorCalls, LagInv, Idle
    <2> QED
      BY <2>1 DEF SetScanning, LagInv, LagsTip, taskVars, daiVars
  <1>5. CASE NodeAdvance
    <2>1. Len(chain') \in Nat /\ Len(chain') > Len(chain)
      BY <1>5, ChainFacts DEF NodeAdvance
    <2> QED
      BY <1>5, <2>1, <1>1 DEF NodeAdvance, LagInv, LagsTip, taskVars, daiVars, opVars
  <1>6. CASE RpcFails \/ BootPanic \/ Crash
    BY <1>6, <1>1 DEF RpcFails, BootPanic, Crash, TaskEnds, ProcessDies, LagInv, LagsTip,
                      daiVars, opVars
  <1>7. CASE UNCHANGED vars
    BY <1>7 DEF LagInv, LagsTip, vars, taskVars, daiVars, opVars
  <1> QED
    BY <1>2, <1>3, <1>4, <1>5, <1>6, <1>7 DEF Next

\* The block at the tip, the one most easily reorganised away, is never taken, whatever
\* fails: line 119 tests for equality only, and the theorem says that is enough as long as
\* SetRescanBlockHeight is not called.
THEOREM StaysBelowTip ==
  ASSUME MaxOps = 0
  PROVE  Spec => []LagsTip
  <1>1. LagInv => LagsTip
    BY DEF LagInv
  <1>2. IInv /\ LagInv /\ [Next]_vars => LagInv'
    BY NextLag
  <1> QED
    BY <1>1, <1>2, InitLag, Inductive, PTL DEF Spec

=============================================================================
