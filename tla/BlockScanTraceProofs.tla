------------------------- MODULE BlockScanTraceProofs -------------------------
(* Proofs about BlockScan with a DAI whose calls succeed and no operator that *)
(* moves the head, for every tree of chains: with crashes, how the saved head *)
(* moves; without, what the observers hold, and that the scanner implements   *)
(* ChainFollower.                                                             *)
EXTENDS BlockScanProofs

-----------------------------------------------------------------------------
(* Where the task stands and where the head is, crashes included.           *)

\* What DAI calls return that succeed.
LEMMA DaiWorks ==
  ASSUME Unmoved, NEW v, NEW w
  PROVE  DaiWrite(v, w) = {w} /\ DaiRead(v, w) = {v}
  BY BoundAssumption DEF Unmoved, DaiWrite, DaiRead

\* The operator can only stop and run the scanner.
LEMMA OnlyScanning ==
  ASSUME Unmoved, IInv, HeadInv, OperatorStep
  PROVE  SetScanning
  <1>1. ops = 0 /\ request.op = "none"
    BY DEF HeadInv, Idle
  <1> QED
    BY <1>1 DEF Unmoved, OperatorStep, RescanFetch, RescanSave, ScanBlockFetch,
                ScanBlockExtract, ScanBlockNotify, OperatorCalls

LEMMA InitHead == Init => HeadInv
  BY DEF Init, HeadInv, Idle

\* The task starts from the saved head.
LEMMA TaskStartHead ==
  ASSUME Unmoved, IInv, HeadInv, TaskStart
  PROVE  HeadInv'
  <1>1. /\ curHeight' = head.height /\ curHash' = head.hash
        /\ pc' = IF head.height = 0 THEN "boot" ELSE "loop"
        /\ UNCHANGED <<head, request, ops>>
    BY DaiWorks DEF TaskStart, daiVars, opVars
  <1>2. head = NoHead \/ (head.height # 0 /\ head = [height |-> head.height, hash |-> head.hash])
    BY ChainAssumption DEF IInv, TypeOK, Heights
  <1> QED
    BY <1>1, <1>2 DEF HeadInv, NoHead

\* The loop takes the task to the height above.
LEMMA LoopBlockHead ==
  ASSUME IInv, HeadInv, LoopBlock
  PROVE  HeadInv'
  <1>1. curHeight \in Nat
    BY DEF IInv, TypeOK
  <1>2. /\ pc = "loopBlock" /\ UNCHANGED <<head, request, ops>>
        /\ pc' = "idle" \/ (pc' = "fetch" /\ curHeight' - 1 = curHeight /\ curHash' = curHash)
    BY <1>1 DEF LoopBlock, TaskEnds, daiVars, opVars
  <1> QED
    BY <1>2 DEF HeadInv

\* The walk back goes to the block below the head, or stays at height 1.
LEMMA ForkBackHead ==
  ASSUME IInv, HeadInv, ForkBack
  PROVE  HeadInv'
  <1>1. /\ pc = "fork" /\ pc' \in {"refetch", "rewind"}
        /\ curHeight' = RewindHeight(curHeight)
        /\ UNCHANGED <<head, request, ops>>
    BY DEF ForkBack, opVars
  <1>2. curHeight \in Nat /\ curHeight >= 2
    BY <1>1, ForkIsHigh DEF ForkAboveGenesis, IInv, TypeOK
  <1>3. head # NoHead => head.height = curHeight - 1
    BY <1>1 DEF HeadInv
  <1>4. curHeight' = IF curHeight > 2 THEN curHeight - 2 ELSE 1
    BY <1>1 DEF RewindHeight
  <1>5. head # NoHead => head.height = curHeight' + 1 \/ (head.height = 1 /\ curHeight' = 1)
    BY <1>2, <1>3, <1>4
  <1> QED
    BY <1>1, <1>5 DEF HeadInv

\* The fetched block and the one below it are on one chain.
LEMMA ExtractHead ==
  ASSUME IInv, HeadInv, Extract
  PROVE  HeadInv'
  <1>1. PICK c \in Chains : /\ curHeight \in DOMAIN c /\ c[curHeight] = blk.hash
                            /\ curHeight > 1 => c[curHeight - 1] = curHash
    BY ChainFacts DEF Extract, IInv, BlockSound, Heights
  <1>2. /\ pc = "extract" /\ pc' = "saveHead"
        /\ UNCHANGED <<curHeight, curHash, blk, head, request, ops>>
    BY DEF Extract, Deliver, opVars
  <1> QED
    BY <1>1, <1>2 DEF HeadInv

LEMMA NewNotifyHead ==
  ASSUME IInv, HeadInv, NewNotify
  PROVE  HeadInv'
  BY DEF NewNotify, HeadInv, daiVars, opVars

LEMMA NextHead ==
  ASSUME Unmoved, IInv, HeadInv, [Next]_vars
  PROVE  HeadInv'
  <1>1. CASE LocalStep
    <2>1. CASE Rewind
      BY <2>1, DaiWorks DEF Rewind, HeadInv, opVars
    <2>2. CASE SaveHead
      BY <2>2, DaiWorks DEF SaveHead, HeadInv, opVars
    <2>3. CASE SaveBlock \/ ForkNotify \/ LoopStopped \/ Restart
      BY <2>3 DEF SaveBlock, ForkNotify, LoopStopped, Restart, TaskEnds, HeadInv, daiVars, opVars
    <2> QED
      BY <1>1, <2>1, <2>2, <2>3, TaskStartHead, ForkBackHead, ExtractHead, NewNotifyHead
      DEF LocalStep
  <1>2. CASE RpcStep
    <2>1. CASE BootTip \/ LoopTip
      BY <2>1 DEF BootTip, LoopTip, ReadTip, HeadInv, daiVars, opVars
    <2>2. CASE BootBlock
      BY <2>2 DEF BootBlock, HeadInv, daiVars, opVars
    <2>3. CASE Fetch
      BY <2>3 DEF Fetch, TaskEnds, HeadInv, daiVars, opVars
    <2>4. CASE Refetch
      BY <2>4 DEF Refetch, HeadInv, daiVars, opVars
    <2> QED
      BY <1>2, <2>1, <2>2, <2>3, <2>4, LoopBlockHead DEF RpcStep
  <1>3. CASE OperatorStep
    BY <1>3, OnlyScanning DEF SetScanning, HeadInv, taskVars, daiVars
  <1>4. CASE RpcFails \/ BootPanic \/ Crash
    BY <1>4 DEF RpcFails, BootPanic, Crash, TaskEnds, ProcessDies, HeadInv, daiVars, opVars
  <1>5. CASE NodeAdvance \/ UNCHANGED vars
    BY <1>5 DEF NodeAdvance, HeadInv, vars, taskVars, daiVars, opVars
  <1> QED
    BY <1>1, <1>2, <1>3, <1>4, <1>5 DEF Next

THEOREM HeadKnown ==
  ASSUME Unmoved
  PROVE  Spec => []HeadInv
  <1>1. IInv /\ HeadInv /\ [Next]_vars => HeadInv'
    BY NextHead
  <1> QED
    BY <1>1, InitHead, Inductive, PTL DEF Spec

\* Only the rewind and the save of a new block move the head.
LEMMA HeadMovers ==
  ASSUME Unmoved, IInv, HeadInv, Next, head' # head
  PROVE  Rewind \/ SaveHead
  BY OnlyScanning
  DEF Next, LocalStep, RpcStep, TaskStart, LoopStopped, ForkBack, Extract, ForkNotify, SaveBlock,
      NewNotify, Restart, BootTip, BootBlock, LoopTip, LoopBlock, Fetch, Refetch, ReadTip,
      SetScanning, NodeAdvance, RpcFails, BootPanic, Crash, daiVars

\* The saved head moves to a child of the block it was at, or one block down; at height 1,
\* to another block 1: also of a scanner that crashes between any two steps.
THEOREM HeadMoves ==
  ASSUME Unmoved
  PROVE  Spec => HeadStep
  <1> DEFINE Moved == \/ head'.height = head.height - 1
                      \/ head.height = 1 /\ head'.height = 1
                      \/ \E c \in Chains : /\ head'.height = head.height + 1
                                           /\ head'.height \in DOMAIN c
                                           /\ c[head.height] = head.hash
                                           /\ c[head'.height] = head'.hash
  <1>1. IInv /\ HeadInv /\ [Next]_vars => [head # NoHead => Moved]_head
    <2> SUFFICES ASSUME IInv, HeadInv, Next, head' # head, head # NoHead
                 PROVE  Moved
      BY DEF vars, daiVars
    <2>1. head.height \in Nat /\ head.height >= 1
      BY DEF IInv, TypeOK, Heights
    <2>2. CASE Rewind
      <3>1. head'.height = curHeight
        BY <2>2, DaiWorks DEF Rewind
      <3>2. head.height = curHeight + 1 \/ (head.height = 1 /\ curHeight = 1)
        BY <2>2 DEF HeadInv, Rewind
      <3>3. curHeight \in Nat
        BY DEF IInv, TypeOK
      <3> QED
        BY <3>1, <3>2, <3>3
    <2>3. CASE SaveHead
      <3>1. head' = [height |-> curHeight, hash |-> blk.hash] /\ pc = "saveHead"
        BY <2>3, DaiWorks DEF SaveHead
      <3>2. head = [height |-> curHeight - 1, hash |-> curHash] /\ curHeight \in Nat
        BY <3>1 DEF HeadInv, IInv, TypeOK
      <3>3. PICK c \in Chains : /\ curHeight \in DOMAIN c /\ c[curHeight] = blk.hash
                                /\ curHeight > 1 => c[curHeight - 1] = curHash
        BY <3>1 DEF HeadInv
      <3>4. curHeight > 1 /\ curHeight = head.height + 1
        BY <2>1, <3>2
      <3> QED
        BY <3>1, <3>2, <3>3, <3>4
    <2> QED
      BY <2>2, <2>3, HeadMovers
  <1> QED
    BY <1>1, HeadKnown, Inductive, PTL DEF Spec, HeadStep

-----------------------------------------------------------------------------
(* Facts about Traced.                                                      *)

\* Two chains with the same block at a height are the same up to there.
LEMMA SamePast ==
  ASSUME NEW c \in Chains, NEW d \in Chains, NEW h \in DOMAIN c, h \in DOMAIN d, c[h] = d[h]
  PROVE  \A i \in 1..h : c[i] = d[i]
  BY HashAssumption

\* At the height of no block, nothing can be traced.
LEMMA TracedNowhere ==
  ASSUME NEW x, NEW top, NEW given, Traced(0, x, top, given)
  PROVE  given = {}
  <1>1. \A c \in Chains : 0 \notin DOMAIN c
    BY ChainFacts DEF Heights
  <1> QED
    BY <1>1 DEF Traced

\* What is traced is below, in the past of any chain with that block.
LEMMA TracedPast ==
  ASSUME NEW h, NEW x, NEW given, Traced(h, x, h, given),
         NEW c \in Chains, h \in DOMAIN c, c[h] = x, NEW b \in given
  PROVE  \E i \in 1..h : /\ c[i] = b
                         /\ \A j \in i..h : c[j] \in given
                         /\ \A j \in i..h : local[j] = c[j]
  <1>1. PICK d \in Chains : /\ h \in DOMAIN d /\ d[h] = x
                            /\ \E i \in 1..h : /\ d[i] = b
                                               /\ \A j \in i..h : d[j] \in given
                                               /\ \A j \in i..h : local[j] = d[j]
    BY DEF Traced
  <1>2. PICK i \in 1..h : /\ d[i] = b
                          /\ \A j \in i..h : d[j] \in given
                          /\ \A j \in i..h : local[j] = d[j]
    BY <1>1
  <1>3. \A j \in 1..h : c[j] = d[j]
    BY <1>1, SamePast
  <1>4. h \in Nat
    BY ChainFacts DEF Heights
  <1>5. \A j \in i..h : j \in 1..h
    BY <1>4
  <1> QED
    BY <1>2, <1>3, <1>5

\* What is held can be traced from the head: the record there is the head's.
LEMMA TracedTop ==
  ASSUME NEW h, NEW x, NEW given, Traced(h, x, h, given), NEW b \in given
  PROVE  local[h] = x /\ \E c \in Chains : h \in DOMAIN c /\ c[h] = x
  <1>1. PICK c \in Chains : /\ h \in DOMAIN c /\ c[h] = x
                            /\ \E i \in 1..h : \A j \in i..h : local[j] = c[j]
    BY DEF Traced
  <1>2. h \in Nat
    BY <1>1, ChainFacts DEF Heights
  <1>3. \A i \in 1..h : h \in i..h
    BY <1>2
  <1> QED
    BY <1>1, <1>3

-----------------------------------------------------------------------------
(* What the observers hold, step by step, without crashes.                  *)

LEMMA InitHeld == Init => HeldInv
  BY DEF Init, HeldInv, Traced, Told

\* Steps that leave alone what Traced speaks of keep it at the saved head.
LEMMA TracedStays ==
  ASSUME UNCHANGED <<head, local, standing, announced>>,
         Traced(head.height, head.hash, head.height, Told)
  PROVE  Traced(head.height, head.hash, head.height, Told)'
  BY DEF Traced, Told

\* The task starts, ends, or goes on to the next fetch.
LEMMA HeldStands ==
  ASSUME Undisturbed, IInv, HeadInv, HeldInv,
         TaskStart \/ LoopStopped \/ Restart \/ BootTip \/ BootBlock \/ LoopTip \/ LoopBlock
           \/ Fetch \/ RpcFails \/ BootPanic
  PROVE  HeldInv'
  <1>1. UNCHANGED <<head, local, standing, announced, crashes>>
    BY DEF TaskStart, LoopStopped, Restart, BootTip, BootBlock, LoopTip, LoopBlock, ReadTip,
           Fetch, RpcFails, BootPanic, daiVars, opVars, toldVars
  <1>2. pc \in {"idle", "boot", "bootBlock", "down", "loop", "loopBlock", "fetch", "refetch"}
    BY DEF TaskStart, LoopStopped, Restart, BootTip, BootBlock, LoopTip, LoopBlock, ReadTip,
           Fetch, RpcFails, BootPanic
  <1>3. Traced(head.height, head.hash, head.height, Told)'
    BY <1>1, <1>2, TracedStays DEF HeldInv
  <1>4. pc' \in {"idle", "boot", "bootBlock", "loop", "loopBlock", "fetch", "fork", "extract"}
          \/ BootPanic
    BY DEF TaskStart, LoopStopped, Restart, BootTip, BootBlock, LoopTip, LoopBlock, ReadTip,
           Fetch, RpcFails, TaskEnds
  <1>5. BootPanic => pc' = "down" /\ head' = NoHead
    BY <1>1 DEF BootPanic, ProcessDies, HeadInv
  <1> QED
    BY <1>1, <1>3, <1>4, <1>5 DEF HeldInv

\* The task walks back from the saved head; the block there is the fork, and what else the
\* observers hold is on the branch of the local block below.
LEMMA ForkBackHeld ==
  ASSUME Undisturbed, IInv, HeadInv, HeldInv, ForkBack
  PROVE  HeldInv'
  <1> DEFINE h == curHeight - 1
             back == RewindHeight(curHeight)
  <1>1. /\ curHeight \in Nat /\ curHeight >= 2 /\ h \in Heights /\ back \in 1..h /\ back \in Nat
        /\ back = IF h > 1 THEN h - 1 ELSE 1
    BY ForkIsHigh, ChainAssumption
    DEF ForkBack, ForkAboveGenesis, RewindHeight, IInv, TypeOK, Heights
  <1>2. back \in Heights
    BY <1>1, ChainAssumption DEF Heights
  <1>3. /\ forkBlk' = local[h] /\ curHeight' = back
        /\ IF local[back] = None THEN pc' = "refetch"
                               ELSE pc' = "rewind" /\ curHash' = local[back]
        /\ UNCHANGED <<head, local, standing, announced, crashes>>
    BY <1>1, <1>2, DaiWorks DEF ForkBack, LocalBlock, ForkHeight, opVars, toldVars, Undisturbed
  <1>4. head = NoHead \/ head = [height |-> h, hash |-> curHash]
    BY DEF HeadInv, ForkBack
  <1>5. Traced(head.height, head.hash, head.height, Told)
    BY DEF HeldInv, ForkBack
  <1>6. Traced(head.height, head.hash, head.height, Told)' /\ Told' = Told
    BY <1>3, <1>5, TracedStays DEF Told
  <1>7. ASSUME NEW b \in Told
        PROVE  head = [height |-> h, hash |-> curHash] /\ local[h] = head.hash
    <2>1. head = [height |-> h, hash |-> curHash]
      BY <1>4, <1>5, <1>7, TracedNowhere DEF NoHead
    <2> QED
      BY <1>5, <2>1, TracedTop
  <1> HIDE DEF h, back
  <1>8. ASSUME NEW b \in Told, b # local[h]
        PROVE  \E c \in Chains : /\ back \in DOMAIN c /\ c[back] = local[back]
                                 /\ \E i \in 1..back :
                                      /\ c[i] = b
                                      /\ \A j \in i..back : c[j] \in Told \ {local[h]}
                                      /\ \A j \in i..back : local[j] = c[j]
    <2>1. PICK c \in Chains : /\ h \in DOMAIN c /\ c[h] = local[h]
                              /\ \E i \in 1..h : /\ c[i] = b
                                                 /\ \A j \in i..h : c[j] \in Told
                                                 /\ \A j \in i..h : local[j] = c[j]
      BY <1>5, <1>7, <1>8 DEF Traced
    <2>2. PICK i \in 1..h : /\ c[i] = b
                            /\ \A j \in i..h : c[j] \in Told
                            /\ \A j \in i..h : local[j] = c[j]
      BY <2>1
    <2>3. h \in Nat /\ i \in Nat /\ i # h
      BY <1>1, <1>8, <2>1, <2>2 DEF Heights
    <2>4. /\ i \in 1..back /\ back \in i..h /\ back < h
          /\ \A j \in i..back : j \in i..h /\ j # h /\ j \in 1..h
      BY <1>1, <2>2, <2>3
    <2>5. \A j \in 1..h : j \in DOMAIN c
      BY <2>1, <2>3, ChainFacts
    <2>6. \A j \in i..back : c[j] # c[h]
      BY <2>1, <2>4, <2>5, HashAssumption
    <2>7. back \in DOMAIN c
      BY <1>1, <2>5
    <2> QED
      BY <2>1, <2>2, <2>4, <2>6, <2>7
  <1>9. local[back] = None => Told \subseteq {local[h]}
    <2> SUFFICES ASSUME local[back] = None, NEW b \in Told, b # local[h] PROVE FALSE
      OBVIOUS
    <2>1. PICK c \in Chains : back \in DOMAIN c /\ c[back] = None
      BY <1>8
    <2> QED
      BY <2>1, ChainFacts, ChainAssumption
  <1>10. local[back] # None => Traced(curHeight, curHash, curHeight, Told \ {forkBlk})'
    BY <1>3, <1>6, <1>8 DEF Traced
  <1>11. forkBlk' \in Told' => forkBlk' = head'.hash
    BY <1>3, <1>6, <1>7
  <1>12. crashes' = 0
    BY <1>3 DEF HeldInv
  <1>13. CASE local[back] = None
    BY <1>3, <1>6, <1>9, <1>11, <1>12, <1>13 DEF HeldInv
  <1>14. CASE local[back] # None
    BY <1>3, <1>6, <1>10, <1>11, <1>12, <1>14 DEF HeldInv
  <1> QED
    BY <1>13, <1>14

\* Without a local block there, the observers hold nothing below the fork.
LEMMA RefetchHeld ==
  ASSUME HeldInv, Refetch
  PROVE  HeldInv'
  <1>1. /\ pc = "refetch" /\ pc' = "rewind" /\ Told' = Told
        /\ UNCHANGED <<curHeight, forkBlk, head, local, standing, announced, crashes>>
    BY DEF Refetch, daiVars, opVars, toldVars, Told
  <1>2. Traced(head.height, head.hash, head.height, Told)'
    BY <1>1, TracedStays DEF HeldInv
  <1>3. Told' \ {forkBlk'} = {}
    BY <1>1 DEF HeldInv
  <1>4. Traced(curHeight, curHash, curHeight, Told \ {forkBlk})'
    BY <1>3 DEF Traced
  <1> QED
    BY <1>1, <1>2, <1>4 DEF HeldInv

\* The head is saved where the task stands; the fork is the block it was at.
LEMMA RewindHeld ==
  ASSUME Undisturbed, IInv, HeadInv, HeldInv, Rewind
  PROVE  HeldInv'
  <1>1. /\ pc = "rewind" /\ pc' = "forkNotify" /\ head' = [height |-> curHeight, hash |-> curHash]
        /\ Told' = Told
        /\ UNCHANGED <<curHeight, curHash, forkBlk, local, standing, announced, crashes>>
    BY DaiWorks DEF Rewind, opVars, toldVars, Undisturbed, Told
  <1>2. Traced(curHeight, curHash, curHeight, Told \ {forkBlk})'
    BY <1>1 DEF HeldInv, Traced
  <1>3. ASSUME forkBlk \in Told
        PROVE  \E c \in Chains : \E i \in DOMAIN c :
                 c[i] = forkBlk /\ (i = curHeight + 1 \/ (i = 1 /\ curHeight = 1))
    <2>1. Traced(head.height, head.hash, head.height, Told) /\ forkBlk = head.hash
      BY <1>1, <1>3 DEF HeldInv
    <2>2. PICK c \in Chains : head.height \in DOMAIN c /\ c[head.height] = forkBlk
      BY <1>3, <2>1, TracedTop
    <2>3. head # NoHead
      BY <2>2, ChainFacts DEF NoHead, Heights
    <2> QED
      BY <1>1, <2>2, <2>3 DEF HeadInv
  <1> QED
    BY <1>1, <1>2, <1>3 DEF HeldInv

LEMMA ForkNotifyHeld ==
  ASSUME HeadInv, HeldInv, ForkNotify
  PROVE  HeldInv'
  <1>1. /\ pc = "forkNotify" /\ pc' = "loop"
        /\ head = [height |-> curHeight, hash |-> curHash]
        /\ UNCHANGED <<curHeight, curHash, head, local, crashes>>
        /\ Told' = Told \ {forkBlk}
    BY DEF ForkNotify, HeadInv, daiVars, opVars, Told
  <1>2. Traced(curHeight, curHash, curHeight, Told \ {forkBlk})
    BY <1>1 DEF HeldInv
  <1>3. Traced(head.height, head.hash, head.height, Told)'
    BY <1>1, <1>2 DEF Traced
  <1> QED
    BY <1>1, <1>3 DEF HeldInv

\* The chain the fetched block was on has the block of the saved head below it, and the
\* observers hold nothing but its past.
LEMMA ExtractHeld ==
  ASSUME IInv, HeadInv, HeldInv, Extract
  PROVE  HeldInv' /\ blk.hash \notin Told
  <1>1. PICK c \in Chains : /\ curHeight \in DOMAIN c /\ c[curHeight] = blk.hash
                            /\ curHeight > 1 => c[curHeight - 1] = curHash
    BY ChainFacts DEF Extract, IInv, BlockSound, Heights
  <1>2. curHeight \in Nat /\ curHeight >= 1
    BY <1>1, ChainFacts DEF Heights
  <1>3. /\ pc = "extract" /\ pc' = "saveHead" /\ Told' = Told \cup {blk.hash}
        /\ blk.hash \in standing'
        /\ UNCHANGED <<curHeight, curHash, blk, head, local, crashes>>
    BY DEF Extract, Deliver, opVars, Told
  <1>4. head = NoHead \/ head = [height |-> curHeight - 1, hash |-> curHash]
    BY <1>3 DEF HeadInv
  <1>5. Traced(head.height, head.hash, head.height, Told)
    BY <1>3 DEF HeldInv
  <1>6. ASSUME NEW b \in Told
        PROVE  \E i \in 1..(curHeight - 1) : /\ c[i] = b
                                             /\ \A j \in i..(curHeight - 1) : c[j] \in Told
                                             /\ \A j \in i..(curHeight - 1) : local[j] = c[j]
    <2>1. head = [height |-> curHeight - 1, hash |-> curHash]
      BY <1>4, <1>5, TracedNowhere DEF NoHead
    <2>2. curHeight - 1 # 0
      BY <1>5, <2>1, TracedNowhere
    <2>3. curHeight - 1 \in DOMAIN c /\ c[curHeight - 1] = curHash
      BY <1>1, <1>2, <2>2, ChainFacts
    <2> QED
      BY <1>5, <2>1, <2>3, TracedPast
  <1>7. Traced(curHeight, blk.hash, curHeight - 1, Told)'
    <2> SUFFICES ASSUME NEW b \in Told \cup {blk.hash}
                 PROVE  \E i \in 1..curHeight :
                          /\ c[i] = b
                          /\ \A j \in i..curHeight : c[j] \in Told \cup {blk.hash}
                          /\ \A j \in i..(curHeight - 1) : local[j] = c[j]
      BY <1>1, <1>3 DEF Traced
    <2>1. CASE b \in Told
      <3>1. PICK i \in 1..(curHeight - 1) : /\ c[i] = b
                                            /\ \A j \in i..(curHeight - 1) : c[j] \in Told
                                            /\ \A j \in i..(curHeight - 1) : local[j] = c[j]
        BY <1>6, <2>1
      <3>2. i \in 1..curHeight /\ \A j \in i..curHeight : j = curHeight \/ j \in i..(curHeight - 1)
        BY <1>2, <3>1
      <3> QED
        BY <1>1, <3>1, <3>2
    <2>2. CASE b = blk.hash
      <3>1. /\ curHeight \in 1..curHeight
            /\ \A j \in curHeight..curHeight : j = curHeight
            /\ \A j \in curHeight..(curHeight - 1) : FALSE
        BY <1>2
      <3> QED
        BY <1>1, <2>2, <3>1
    <2> QED
      BY <2>1, <2>2
  <1>8. blk.hash \notin Told
    <2> SUFFICES ASSUME blk.hash \in Told PROVE FALSE
      OBVIOUS
    <2>1. PICK i \in 1..(curHeight - 1) : c[i] = c[curHeight]
      BY <1>1, <1>6
    <2>2. i \in DOMAIN c /\ i # curHeight
      BY <1>1, <1>2, ChainFacts
    <2> QED
      BY <1>1, <2>1, <2>2, HashAssumption
  <1>9. HeldInv'
    BY <1>3, <1>7 DEF HeldInv
  <1> QED
    BY <1>8, <1>9

\* The head, then the local block, come to what was extracted.
LEMMA SaveHeadHeld ==
  ASSUME Undisturbed, HeldInv, SaveHead
  PROVE  HeldInv'
  <1>1. /\ pc = "saveHead" /\ pc' = "saveBlock" /\ Told' = Told
        /\ UNCHANGED <<curHeight, blk, local, standing, crashes>>
    BY DEF SaveHead, opVars, toldVars, Told
  <1>2. Traced(curHeight, blk.hash, curHeight - 1, Told)'
    BY <1>1 DEF HeldInv, Traced
  <1> QED
    BY <1>1, <1>2 DEF HeldInv

LEMMA SaveBlockHeld ==
  ASSUME Undisturbed, IInv, HeldInv, SaveBlock
  PROVE  HeldInv'
  <1>1. /\ pc = "saveBlock" /\ pc' = "newNotify" /\ local' = [local EXCEPT ![curHeight] = blk.hash]
        /\ Told' = Told
        /\ UNCHANGED <<curHeight, curHash, blk, head, standing, crashes>>
    BY DaiWorks DEF SaveBlock, opVars, toldVars, Undisturbed, Told
  <1>2. /\ curHeight \in Heights /\ curHeight \in Nat /\ local \in [Heights -> Hash \cup {None}]
    BY <1>1 DEF IInv, TaskSound, TypeOK, Heights
  <1>3. Traced(curHeight, blk.hash, curHeight - 1, Told)
    BY <1>1 DEF HeldInv
  <1>4. Traced(curHeight, blk.hash, curHeight, Told)'
    <2> SUFFICES ASSUME NEW b \in Told
                 PROVE  \E c \in Chains :
                          /\ curHeight \in DOMAIN c /\ c[curHeight] = blk.hash
                          /\ \E i \in 1..curHeight : /\ c[i] = b
                                                     /\ \A j \in i..curHeight : c[j] \in Told
                                                     /\ \A j \in i..curHeight : local'[j] = c[j]
      BY <1>1 DEF Traced
    <2>1. PICK c \in Chains :
            /\ curHeight \in DOMAIN c /\ c[curHeight] = blk.hash
            /\ \E i \in 1..curHeight : /\ c[i] = b
                                       /\ \A j \in i..curHeight : c[j] \in Told
                                       /\ \A j \in i..(curHeight - 1) : local[j] = c[j]
      BY <1>3 DEF Traced
    <2>2. PICK i \in 1..curHeight : /\ c[i] = b
                                    /\ \A j \in i..curHeight : c[j] \in Told
                                    /\ \A j \in i..(curHeight - 1) : local[j] = c[j]
      BY <2>1
    <2>3. ASSUME NEW j \in i..curHeight PROVE local'[j] = c[j]
      <3>1. CASE j = curHeight
        BY <1>1, <1>2, <2>1, <3>1
      <3>2. CASE j # curHeight
        <4>1. j \in i..(curHeight - 1) /\ j \in Heights
          BY <1>2, <3>2, ChainAssumption DEF Heights
        <4>2. local'[j] = local[j]
          BY <1>1, <1>2, <3>2, <4>1
        <4> QED
          BY <2>2, <4>1, <4>2
      <3> QED
        BY <3>1, <3>2
    <2> QED
      BY <2>1, <2>2, <2>3
  <1> QED
    BY <1>1, <1>4 DEF HeldInv

\* What is notified as new was extracted before.
LEMMA NewNotifyHeld ==
  ASSUME IInv, HeadInv, HeldInv, NewNotify
  PROVE  HeldInv' /\ Told' = Told
  <1>1. /\ pc = "newNotify" /\ pc' = "loop" /\ Told' = Told
        /\ head = [height |-> curHeight, hash |-> curHash] /\ curHash = blk.hash
        /\ UNCHANGED <<head, local, crashes>>
    BY DEF NewNotify, HeadInv, HeldInv, IInv, TaskSound, daiVars, opVars, Told
  <1>2. Traced(curHeight, blk.hash, curHeight, Told)
    BY <1>1 DEF HeldInv
  <1>3. Traced(head.height, head.hash, head.height, Told)'
    BY <1>1, <1>2 DEF Traced
  <1> QED
    BY <1>1, <1>3 DEF HeldInv

\* The node's steps, Run and Stop are none of this.
LEMMA OutsideHeld ==
  ASSUME HeldInv, NodeAdvance \/ SetScanning \/ UNCHANGED vars
  PROVE  HeldInv'
  <1>1. UNCHANGED <<pc, curHeight, curHash, blk, forkBlk, head, local, crashes, standing, announced>>
    BY DEF NodeAdvance, SetScanning, vars, taskVars, daiVars, opVars, toldVars
  <1> QED
    BY <1>1 DEF HeldInv, Traced, Told

\* There is no crash.
LEMMA NoCrash ==
  ASSUME Undisturbed, HeldInv
  PROVE  ~Crash
  BY DEF Undisturbed, HeldInv, Crash

LEMMA NextHeld ==
  ASSUME Undisturbed, IInv, HeadInv, HeldInv, [Next]_vars
  PROVE  HeldInv'
  <1>1. Unmoved
    BY DEF Undisturbed
  <1> QED
    BY <1>1, HeldStands, ForkBackHeld, RefetchHeld, RewindHeld, ForkNotifyHeld, ExtractHeld,
       SaveHeadHeld, SaveBlockHeld, NewNotifyHeld, OutsideHeld, OnlyScanning, NoCrash
    DEF Next, LocalStep, RpcStep

-----------------------------------------------------------------------------
(* The theorems about what the observers hold.                              *)

THEOREM Traceable ==
  ASSUME Undisturbed
  PROVE  Spec => []HeldInv
  <1>1. IInv /\ HeadInv /\ HeldInv /\ [Next]_vars => HeldInv'
    BY NextHeld
  <1>2. Spec => []HeadInv
    BY HeadKnown DEF Undisturbed
  <1> QED
    BY <1>1, <1>2, InitHeld, Inductive, PTL DEF Spec

\* No block stays with the observers on a branch the saved head has left, whatever the node
\* does, if no crash, DAI error or move of the head by an operator comes in between.
THEOREM NothingOrphaned ==
  ASSUME Undisturbed
  PROVE  Spec => []NoOrphan
  <1>1. HeldInv => NoOrphan
    <2> SUFFICES ASSUME HeldInv, pc = "idle", NEW b \in Told PROVE OnBranchOfHead(b)
      BY DEF NoOrphan, Told
    <2>1. Traced(head.height, head.hash, head.height, Told)
      BY DEF HeldInv
    <2>2. PICK c \in Chains : /\ head.height \in DOMAIN c /\ c[head.height] = head.hash
                              /\ \E i \in 1..head.height : c[i] = b
      BY <2>1 DEF Traced
    <2>3. \A i \in 1..head.height : i \in DOMAIN c
      BY <2>2, ChainFacts
    <2> QED
      BY <2>2, <2>3 DEF OnBranchOfHead
  <1> QED
    BY <1>1, Traceable, PTL

\* What is traced is behind the head, and without a gap.
LEMMA TracedUnbroken ==
  ASSUME NEW pos, NEW given, Traced(pos.height, pos.hash, pos.height, given)
  PROVE  F!Unbroken(pos, given) /\ \A b \in given : F!Behind(pos, b)
  BY DEF Traced, F!Unbroken, F!Behind, F!At

\* Between two runs of the task the observers hold all blocks from the saved head back to
\* where they begin, however often the task walked back and forth.
THEOREM HeldWithoutGap ==
  ASSUME Undisturbed
  PROVE  Spec => []NoGap
  <1>1. HeldInv => NoGap
    BY TracedUnbroken DEF HeldInv, NoGap
  <1> QED
    BY <1>1, Traceable, PTL

\* No block is delivered again that the observers still hold.
THEOREM NothingRedelivered ==
  ASSUME Undisturbed
  PROVE  Spec => NoRedelivery
  <1>1. IInv /\ HeadInv /\ HeldInv /\ [Next]_vars
          => [pc = "extract" /\ pc' = "saveHead" => blk.hash \notin standing]_vars
    <2> SUFFICES ASSUME IInv, HeadInv, HeldInv, Next, pc = "extract", pc' = "saveHead"
                 PROVE  blk.hash \notin standing
      OBVIOUS
    <2>1. Extract
      BY OnlyScanning, NoCrash
      DEF Undisturbed, Next, LocalStep, RpcStep, TaskStart, LoopStopped, ForkBack, Rewind,
          ForkNotify, SaveHead, SaveBlock, NewNotify, Restart, BootTip, BootBlock, LoopTip,
          LoopBlock, Fetch, Refetch, ReadTip, NodeAdvance, SetScanning, RpcFails, BootPanic,
          taskVars
    <2> QED
      BY <2>1, ExtractHeld DEF Told
  <1>2. Spec => []HeadInv
    BY HeadKnown DEF Undisturbed
  <1> QED
    BY <1>1, <1>2, Traceable, Inductive, PTL DEF Spec, NoRedelivery

-----------------------------------------------------------------------------
(* The scanner implements ChainFollower.                                    *)

LEMMA InitFollows == Init => F!FollowInit
  BY DEF Init, F!FollowInit, Told, NoHead, F!NoHead

\* A block of a chain is a position.
LEMMA PositionOf ==
  ASSUME NEW height, NEW hash, OnChain(height, hash)
  PROVE  [height |-> height, hash |-> hash] \in F!Positions
  BY DEF OnChain, F!Positions

\* The block a new one is delivered or saved on is the saved head.
LEMMA NextExtends ==
  ASSUME IInv, NEW c \in Chains, curHeight \in DOMAIN c, c[curHeight] = blk.hash,
         curHeight > 1 => c[curHeight - 1] = curHash,
         head = NoHead \/ head = [height |-> curHeight - 1, hash |-> curHash]
  PROVE  F!Extends([height |-> curHeight, hash |-> blk.hash])
  <1> SUFFICES ASSUME head # NoHead
               PROVE  /\ curHeight = head.height + 1
                      /\ F!At(c, head) /\ F!At(c, [height |-> curHeight, hash |-> blk.hash])
    BY DEF F!Extends, NoHead, F!NoHead
  <1>1. head = [height |-> curHeight - 1, hash |-> curHash] /\ head.height \in Heights
    BY DEF IInv, TypeOK
  <1>2. curHeight \in Nat /\ curHeight > 1
    BY <1>1, ChainFacts DEF Heights
  <1>3. curHeight - 1 \in DOMAIN c
    BY <1>2, ChainFacts
  <1> QED
    BY <1>1, <1>2, <1>3 DEF F!At

LEMMA ExtractDelivers ==
  ASSUME IInv, HeadInv, HeldInv, Extract
  PROVE  F!Deliver
  <1>1. PICK c \in Chains : /\ curHeight \in DOMAIN c /\ c[curHeight] = blk.hash
                            /\ curHeight > 1 => c[curHeight - 1] = curHash
    BY ChainFacts DEF Extract, IInv, BlockSound, Heights
  <1>2. pc = "extract" /\ Told' = Told \cup {blk.hash} /\ UNCHANGED head
    BY DEF Extract, Deliver, Told
  <1>3. F!Settled
    BY <1>2, TracedUnbroken DEF HeldInv, F!Settled
  <1>4. blk.hash \notin Told
    BY ExtractHeld
  <1>5. F!Extends([height |-> curHeight, hash |-> blk.hash])
    BY <1>1, <1>2, NextExtends DEF HeadInv
  <1>6. [height |-> curHeight, hash |-> blk.hash] \in F!Positions
    BY <1>1, PositionOf DEF OnChain
  <1> QED
    BY <1>2, <1>3, <1>4, <1>5, <1>6 DEF F!Deliver

LEMMA SaveHeadAdvances ==
  ASSUME Unmoved, IInv, HeadInv, HeldInv, SaveHead
  PROVE  F!Advance
  <1>1. /\ pc = "saveHead" /\ head' = [height |-> curHeight, hash |-> blk.hash] /\ Told' = Told
    BY DaiWorks DEF SaveHead, toldVars, Told
  <1>2. PICK c \in Chains : /\ curHeight \in DOMAIN c /\ c[curHeight] = blk.hash
                            /\ curHeight > 1 => c[curHeight - 1] = curHash
    BY <1>1 DEF HeadInv
  <1>3. F!Extends(head')
    BY <1>1, <1>2, NextExtends DEF HeadInv
  <1>4. head' \in F!Positions
    BY <1>1, <1>2, PositionOf DEF OnChain
  <1>5. head'.hash \in Told
    BY <1>1 DEF HeldInv, Told
  <1> QED
    BY <1>1, <1>3, <1>4, <1>5 DEF F!Advance

LEMMA RewindRetreats ==
  ASSUME Unmoved, IInv, HeadInv, HeldInv, Rewind
  PROVE  F!Retreat
  <1> DEFINE pos == [height |-> curHeight, hash |-> curHash]
  <1>1. pc = "rewind" /\ head' = pos /\ Told' = Told
    BY DaiWorks DEF Rewind, toldVars, Told
  <1>2. F!Settled
    BY <1>1, TracedUnbroken DEF HeldInv, F!Settled
  <1>3. curHeight \in Heights /\ OnChain(curHeight, curHash)
    BY <1>1, ChainAssumption DEF IInv, TaskSound, SoundNow, Sound, Heights
  <1>4. pos \in F!Positions
    BY <1>3, PositionOf
  <1>5. Told \ {head.hash} \subseteq Told \ {forkBlk}
    BY <1>1 DEF HeldInv
  <1>6. \A b \in Told \ {head.hash} : F!Behind(pos, b)
    BY <1>1, <1>5, TracedUnbroken DEF HeldInv
  <1>7. head # NoHead => head.height = pos.height + 1 \/ (head.height = 1 /\ pos.height = 1)
    BY <1>1 DEF HeadInv
  <1> QED
    BY <1>1, <1>2, <1>4, <1>6, <1>7 DEF F!Retreat, NoHead, F!NoHead

\* Nothing is taken back if the fork block was not found, or had been taken back before.
LEMMA ForkNotifyRetracts ==
  ASSUME IInv, HeadInv, HeldInv, ForkNotify
  PROVE  F!Retract \/ UNCHANGED F!followVars
  <1>1. pc = "forkNotify" /\ UNCHANGED head /\ Told' = Told \ {forkBlk}
    BY DEF ForkNotify, daiVars, Told
  <1>2. CASE forkBlk \notin Told
    BY <1>1, <1>2 DEF F!followVars
  <1>3. CASE forkBlk \in Told
    <2>1. PICK c \in Chains : \E i \in DOMAIN c :
            c[i] = forkBlk /\ (i = head.height + 1 \/ (i = 1 /\ head.height = 1))
      BY <1>1, <1>3 DEF HeldInv
    <2>2. PICK i \in DOMAIN c :
            c[i] = forkBlk /\ (i = head.height + 1 \/ (i = 1 /\ head.height = 1))
      BY <2>1
    <2>3. ASSUME F!Behind(head, forkBlk)
          PROVE  head.height = 1 /\ forkBlk = head.hash
      <3>1. PICK d \in Chains : /\ head.height \in DOMAIN d /\ d[head.height] = head.hash
                                /\ \E j \in 1..head.height : d[j] = forkBlk
        BY <2>3 DEF F!Behind, F!At
      <3>2. PICK j \in 1..head.height : d[j] = forkBlk
        BY <3>1
      <3>3. j \in DOMAIN d /\ head.height \in Nat
        BY <3>1, <3>2, ChainFacts DEF Heights
      <3>4. i = j
        BY <2>2, <3>2, <3>3, HashAssumption
      <3> QED
        BY <2>2, <3>1, <3>2, <3>3, <3>4
    <2> QED
      BY <1>1, <1>3, <2>3 DEF F!Retract
  <1> QED
    BY <1>2, <1>3

\* The other steps leave the head and what the observers hold.
LEMMA OthersStutter ==
  ASSUME Unmoved, IInv, HeadInv, HeldInv, [Next]_vars, ~Extract, ~SaveHead, ~Rewind, ~ForkNotify
  PROVE  UNCHANGED F!followVars
  <1>1. NewNotify => Told' = Told /\ UNCHANGED head
    BY NewNotifyHeld DEF NewNotify, daiVars
  <1>2. UNCHANGED <<head, standing, announced>> \/ NewNotify
    BY OnlyScanning
    DEF Next, LocalStep, RpcStep, TaskStart, LoopStopped, ForkBack, SaveBlock, Restart, BootTip,
        BootBlock, LoopTip, LoopBlock, Fetch, Refetch, ReadTip, SetScanning, NodeAdvance,
        RpcFails, BootPanic, Crash, vars, daiVars, toldVars
  <1> QED
    BY <1>1, <1>2 DEF F!followVars, Told

\* Every step of the scanner is a step of ChainFollower or leaves its variables alone.
LEMMA StepFollows ==
  ASSUME Unmoved, IInv, HeadInv, HeldInv, [Next]_vars
  PROVE  [F!FollowNext]_F!followVars
  BY ExtractDelivers, SaveHeadAdvances, RewindRetreats, ForkNotifyRetracts, OthersStutter
  DEF F!FollowNext

\* Undisturbed, the scanner implements ChainFollower, for every tree of chains: it delivers
\* a block once before it saves the head there, and takes it back after the head went below.
THEOREM FollowsChain ==
  ASSUME Undisturbed
  PROVE  Spec => Follows
  <1>1. IInv /\ HeadInv /\ HeldInv /\ [Next]_vars => [F!FollowNext]_F!followVars
    BY StepFollows DEF Undisturbed
  <1>2. Spec => []HeadInv
    BY HeadKnown DEF Undisturbed
  <1> QED
    BY <1>1, <1>2, InitFollows, Traceable, Inductive, PTL DEF Spec, Follows, F!Follow

=============================================================================
