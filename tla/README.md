# Verification of futurepia-adapter

TLA+ models of the futurepia adapter: the module that lets an openwallet wallet
follow the PIA chain (a Steem-like chain with a JSON-RPC node) and pay on it.
TLC checks them on small instances, TLAPS proves the main invariants for every
value of the constants. `file:line` below is a line of `src/futurepia/`.

## The system

The openwallet framework (a library, outside `src/`) owns the threads: it runs
`ScanBlockTask` on a timer, one run at a time, and calls the decoders and the
scanner's other methods from the wallet's threads.

| component | state | operations |
|---|---|---|
| Block scanner `blockscanner.go` | `Scanning`; the locals of a run (`currentHeight`, `currentHash`) | `ScanBlockTask`, `ScanBlock`, `SetRescanBlockHeight`, Run, Stop; `GetScannedBlockHeader` and the like only read |
| Scanner records `blockscanner_db.go` | through the `BlockchainDAI`: current head, a block header per height, unscan records | save, get, delete; each may fail, and most callers ignore that |
| Extraction pipeline `blockscanner.go` 206-312 | per call: `done`, `failed`, `quit`, `producer`, `worker`, the queue `values`; for all calls: `extractingCH` | `BatchExtractTransactions`, `extractRuntime`, the goroutines of `extractWork` and `saveWork` |
| Transaction extraction `blockscanner.go` 315-505, `api.go` 203-280 | none but what the observers have been given | `GetGetBlock`'s flattening of operations, `ExtractTransaction`, `newExtractDataNotify` |
| RPC client `api.go` | `ErrorTime` (retries, one counter for all callers), the mutex of `Call` | `GetDynamicGlobal`, `GetGetBlock`, `GetBalance`, `GetBalanceByAddress`, `PushTransaction` |
| TransactionDecoder `tx_decode.go` | what it writes into the caller's `RawTransaction` | create, create summary, sign, verify, submit |
| Contract decoder, address decoders, manager and configuration, cache, signer | none that changes (the cache and the signer are unused) | read-only calls and stubs |

How they interact: the task asks the client for blocks, compares them with what
it recorded through the DAI, runs the pipeline on each new block, and notifies
observers. `ScanBlock` runs a pipeline of its own beside the task's, over the
same token channel. `SetRescanBlockHeight` writes the head record the task
writes too. The decoder shares the client with the scanner and nothing else: its mutex and
its retry counter.

What makes it hard:

- the node switches chains between any two RPCs of the task (there is no
  snapshot), and between those of a creation;
- a run breaks off at any RPC; the process at any instruction; DAI errors are
  dropped; each step of saving a block is separate;
- a fork is undone two back and one forward per turn, through records that may
  be absent;
- four kinds of goroutines share counters and two unbuffered channels that are
  closed when the call returns;
- all threads share one retry counter, incremented, compared and reset without
  the lock that the requests themselves take;
- the parser of a block panics on JSON of a shape it does not expect, in the
  goroutine of the task;
- a transaction refers to a block by 16 bits and a hash prefix, read in two
  calls, and must be good half an hour later; an answer that is lost leaves the
  wallet to submit it again.

`PROJECT.json` lists the hazards line by line, with the property that would
catch each one or the reason there is none.

What makes each component correct: the scanner skips nothing, repeats nothing
without saying so, undoes what it told of a branch it leaves, and gets to the
tip; the pipeline handles every transaction once before it returns and leaves
nothing behind; the extraction gives each account its sides of each transfer,
once; each call of the client ends, and a query gives up only after failures of
its own or of those before it; a created transaction is one the node will take,
and takes no more than it should.

## The modules

| module | what it is |
|---|---|
| `BlockScan` | the scanner, its records, the operator's calls, crashes, and the node |
| `ChainFollower` | abstract: what the scanner promises its observers |
| `BatchPromise` | abstract: what a call of `BatchExtractTransactions` promises |
| `ExtractBatch` | the goroutines and channels of it, several batches at once |
| `Extraction` | one block from the node's answer to the last notification |
| `RpcClient` | the client as the threads share it: mutex, retries, queries |
| `TxDecoder` | creation to submission of raw transactions, and the node |
| `MC...` | trees of blocks, batches and requests for TLC |
| `...Proofs` | the theorems; `BlockScan` has two modules of them |

**BlockScan.** One action is one call that leaves the process, with the local
work up to the next one: `LoopTip`, `LoopBlock` (the two RPCs of
`GetGlobalHeadBlock`), `Fetch`, then either `ForkBack`, `Refetch` (only without a
local block), `Rewind`, `ForkNotify`, or `Extract`, `SaveHead`, `SaveBlock`,
`NewNotify`. The task's locals are variables, so that a crash loses them and the
records stay. The node holds one of the chains in `Chains` and may switch to any
longer one at any time; a block is its hash, and `HashAssumption` says that a
hash commits to its history. `DaiWrite` and `DaiRead` give the faulty outcomes
of a DAI call. History variables record what observers were given (`extracted`,
`standing`, `announced`), which blocks were left incomplete (`missed`), and
which hashes the scanner took on trust (`adopted`: the first start, a rescan, a
walk back past its records). Each pipeline call is one step here; `ExtractBatch`
justifies that. Run and Stop come at any moment, any number of times; crashes and
the operator's other calls are counted.

**ChainFollower** has two variables: the saved head, and the blocks the observers
hold. `Deliver` gives them a child of the head, `Advance` moves the head there,
`Retreat` moves it one block down, `Retract` takes back a block that is no longer
behind it. `F == INSTANCE ChainFollower WITH held <- Told` maps the scanner to it:
`Told` is what was delivered or announced and not notified as a fork since. `Extract`
is `Deliver`, `SaveHead` is `Advance`, `Rewind` is `Retreat`, `ForkNotify` is
`Retract`, or a stutter where the fork block was not found or not held; all other
steps, those of the node included, are stutters. At block 1, where line 147 stops
the walk back, `Retreat` may stay at height 1 and `Retract` may take back the
head's own block.

**ExtractBatch** has one action per channel operation. A rendezvous on an
unbuffered channel is one step of both sides; `Produce` and `HandOn` are the
branches of the `select`. `P == INSTANCE BatchPromise WITH phase <- Phase` maps
it to `BatchPromise`: a call is open from its start until it returns, and
`KeepsPromise`, which is `P!Promise`, says that each step handles one
transaction, returns, or changes nothing the caller sees.

**Extraction** takes one block from `Blocks` through `GetGetBlock`,
`ExtractTransaction` and `Notify`. The goroutines in between are those of
`ExtractBatch`; here only the order of their results is left, any transfer
before any other, and any observer and account before any other (Go ranges over
maps in random order; the lists of one account are put in any order too, which is
more than the code does and can only add behaviours). An operation is a record of
what the code looks at: is the list empty, is there a name and an object, which
name, is the amount there, a string, of two parts and of which coin, which parties,
are these and the memo strings. A
notification may be refused, and an unscan record may fail to be saved.
`WellFormed` says which blocks the properties promise something about: an id for
each transaction, a name and an object in each operation, and a memo with each
that has an amount and two parties. On others the code panics (`Panics` and
`GetGetBlock`, for the assertions at api.go:245, 251, 252, 258, 268 to 270 and the
index at 271); since the head has not moved, the next start fetches the same block
and panics again.

**RpcClient** has `Call` as `Lock` and `Answered` or `Failed`, and `GetBalance`'s
reaction to a failure as four steps, for `ErrorTime++` is a read and a write, and
the comparison and the reset are separate accesses that no lock protects.
`Querying` callers are in `GetBalance` (one address) or `GetBalanceByAddress`
(several); all other uses are plain calls. The counter is only ever reset by a
caller that gives up, not by one that succeeds: what one query leaves on it, the
next one finds. History counts failed requests and addresses given up, as long as
no two queries have run side by side.

**TxDecoder** has one action per call to the node of a creation (`ReadBalance`,
`CheckTo`, `ReadHead`, `Build`) and one each for signing, verifying and
submitting. A creation asks for a signature by each address the wallet has for the
account at that moment (tx_decode.go:487), and a verification appends them all
(196). The account itself is taken to sign with one key, and the node to refuse a
signature too many, so that a transaction with several addresses, or verified
twice, is refused. Submission may be repeated too, when the answer was lost:
the node executed it and refuses to execute it again. An answer may also say
that the transaction expired, which the code does not look at.

The node reorganises above its irreversible block only. Its state is that of its
head, as `GetBalance` reads it: `balance` is the account's after each block from
the irreversible one up, and `block` says which block holds each executed
transaction. `NodeAdvance` finds the fork, drops what was deposited and paid in the
blocks above it, and the account is back at what it had there. What the new branch
has of these comes again as a deposit, as a transaction the wallet submits again,
or as one the node takes up again by itself (`Reapply`). A transaction under way
that this takes money from, and one it undoes, join `disturbed`, as do those another payment
is executed beside: `LeavesRetained` and `GoodToSend` promise nothing of these.
That is not a convenience: the code reads the balance once, and without either half of
`disturbed` TLC finds both properties violated: by a payment made from a deposit
that is then taken back, and by one that is undone and whose cover another payment
has spent by the time it is executed again. A reorganisation that leaves the account no less
than it had is no excuse, nor is one that drops other blocks. Amounts are counted in parts of
the chain's smallest unit (`Fine` of them make one), so that the cut of
`IntPart` shows. A raw transaction has one entry in `To`, as the framework and
the summary fill it.

## The runs

| run | question | expected |
|---|---|---|
| `scan_reliable` | `LagsTip` `NoOrphan` `NoGap` `NoRedelivery` `HeadStep` `Follows`: is every reorganisation undone, with no gap left and nothing repeated, if nothing crashes? | pass |
| `scan_hostile` | `TypeOK` `HeadCovered` `ForkAboveGenesis`: is nothing skipped when everything may fail? | pass |
| `scan_live` | `CatchesUp` `StopHalts`: does it get to the tip; does Stop stop it? | pass |
| `batch_safe` | `TypeOK` `QuietReturn` `TokenBound` `NeverStuck` `KeepsPromise` `ExtractorsEnd` `EveryBatchReturns`: does a call do what it promises and leave nothing running that matters; can anything wait for ever? | pass |
| `extraction` | `TypeOK` `DeliversExactly` `SidsMeetInATransaction`: does each observer get what is due of a block, once; which Sids coincide? | pass |
| `rpc_client` | `TypeOK` `FourFailuresOneError` `BudgetComesBack` `EveryCallEnds`: what do races on the counter do; does every call end? | pass |
| `tx_refs` | `TypeOK` `RefIsFinal` `RefHoldsForLife` `LeavesRetained` `SummaryMovesEnough` `GoodToSend`: is a built transaction good whatever the node does, and still when it is sent; does a summary move and leave what it should? | pass |
| `scan_stamp` | `StampIsOwn` | violated: transactions are marked with the previous block's hash (blockscanner.go:176) |
| `scan_orphan` | `NoOrphan` with a crash | violated: the fork notification is lost (blockscanner.go:168) |
| `scan_unscan` | `MissedIsRecorded` | violated: the record goes before the walk back is certain (blockscanner.go:145) |
| `batch_refused` | `RefusalIsReported` | violated: `newExtractDataNotify` returns nil always (blockscanner.go:504) |
| `tx_amount` | `RecordedIsSent` | violated: the recorded amount is not cut, the sent one is (tx_decode.go:423) |

Each violated property states what a comment of the code says; `findings` in
`PROJECT.json` quotes it. The trace of `scan_orphan` is the shortest and loses one
notification. One crash can cost more: between saving the head (184) and the local
block (185) it leaves a height without a record. A later reorganisation that walks
back onto that height takes the node's hash instead (160), sees no further fork, and
leaves every block of the old branch from there down with the observers. So `HeldInv`
below fails with that crash at once, though nobody is told anything wrong until then.

### Bounds, and why they are enough

- `scan_reliable`: six blocks on the longest of four branches, which leave the
  scanned part one deep, two deep and altogether, so that one turn of the fork
  branch is enough for one and not for the others, the walk back may end at
  block 1, and the node may return to a branch left before. TLC checks deadlock
  here: the task always has a step.
- `scan_hostile`: chains up to four, two branches that share nothing (the walk
  back reaches block 1), one crash, one operator call, every DAI call failing or
  not. Failed extractions are left to the other runs. The states are compared
  under `MCView`, which drops `unscan`, `standing`, `announced` and `missed`: no
  guard and no other variable's next value reads them, and neither does any
  property of this run but `TypeOK`, whose proof covers them.
- `scan_live`: chains up to five with a reorganisation two deep above a common
  block 1, and one that replaces block 1; Run and Stop at any
  moment and one other operator call, no crashes (a crash
  only returns to the start of a run).
- `batch_safe`: batches of three and one transactions over two tokens; three are
  needed to have one with a stuck observer, one queued behind it, and one that
  must still get its result off, and the two calls wait for each other's tokens.
  `batch_refused`: a batch of two, and an empty one beside it.
- `extraction`: two transactions of up to two operations and up to one, each of
  thirteen kinds, and, with up to one operation each, ids missing or empty; two
  addresses of one account, one of another and a stranger; two observers, one
  refusal (`MaxRefusals`). Two operations in one transaction are what it takes
  for Sids to meet, two transactions for them not to.
- `rpc_client`: the scanner's thread with a plain call, one wallet thread with a
  query of up to two addresses, one with two queries of one (`MaxCalls`,
  `MaxAddresses`): four failures in one query, failures left to the next query,
  and two queries that race each other and a plain call.
- `tx_refs`: numbers modulo 5 instead of 2^16, on seven blocks, so that they
  wrap while a transaction lives, with a fork in the second block and one in the
  fifth, and steps of the chain of one block and of two; lag 2 and life 1 leave the last slot free as
  `RefAssumption` asks. A balance of 2 to 3, a transfer of two and a half
  units and a summary that retains a half, so that rounding, deposits, a transfer the
  balance does not cover yet, a deposit and a payment that a reorganisation drops,
  and the crossing of the two all happen. `MaxKeys` and `MaxSigs` are 2: one address
  or signature too many is as bad as several.

Deadlock is not checked where the system really may stop: batches end, raw
transactions end, and with a crash bound the chain ends.

### Fairness

`BlockScan`: weak fairness of the steps that are local or DAI calls (the timer
runs the task again and again, the process is restarted) and strong fairness of
each RPC (made again and again, it is answered in the end; strong, because a
failed attempt ends the run and disables it in between). Nothing is assumed of
the node's chain, failures, crashes or the operator. `CatchesUp` then says: in
behaviours with no rescan and no `ScanBlock`, in which the scanner is kept running, since the
chain can only grow to its bound, the head ends at the block below the tip and
stays there.

`CatchesUp` has one condition on the node: block 1 stays. A node whose block 1 is not the one
scanned keeps the task at height 1 for ever, since line 147 puts the height back
to 1 and line 163 takes the local block's hash again. A real chain's block 1 does
not change. The tree of the run has such a branch all the same: there the task
has no other end than Stop, which is what `StopHalts` is about.

`ExtractBatch`: weak fairness of each goroutine that can run, and strong
fairness of taking a token, for which the batches compete: Go queues the senders
of a channel.
`ExtractorsEnd` assumes nothing of the observers; `EveryBatchReturns` assumes
that they answer.

`RpcClient`: strong fairness of `Lock` (a Go mutex is handed to one that has
waited), weak fairness of everything else a thread does, and the node ends each
request, with an answer or an error. The last is an assumption on the node: `Call`
sets no time limit and holds the mutex meanwhile, so a node that never answers
stops every thread. `EveryCallEnds` holds for callers that make `MaxCalls` calls
each. It is not claimed for an endless stream of calls: others' failures may raise
the counter above the limit and reset it, each time between a caller's own, and
that caller tries again and again.

## The proofs

TLAPS checks these for every tree of chains, batch set, request set and bound,
from the named assumptions of each module only.

**BlockScan**, everything failing (`BlockScanProofs`): `TypeCorrect`, `NothingSkipped`
(`HeadCovered`), `NoWrap` (`ForkAboveGenesis`). `HeadCovered` is not inductive:
the head is written from the task's locals, and those come from the local
records and from an RPC answered by a chain that is gone. `IInv` says of all of
them what `HeadCovered` says of the head: `LocalSound` for the records,
`TaskSound` for the locals at each `pc`, `BlockSound` that a fetched block and
its previous hash stood together on some chain, `RequestSound` for the operator.
A block is "covered" when each block below it was extracted, down to an adopted
one, on every chain it is on (one chain and all agree by `HashAssumption`). The
step lemma has one case per action; the two that carry it are `Extract`, which
extends coverage by the fetched block, and `ForkBack`, which falls back on a
local record. `NoWrap` follows because a fork at block 1 would need a soundly
covered height 0 whose hash is not `Genesis`.

`StaysBelowTip` (`LagsTip`) holds when `MaxOps = 0`, crashes and DAI faults
included, by the invariant `LagInv`: the height stays below the tip last read,
and that below the node's, whose chain only grows. An operator's rescan breaks it:
`SetRescanBlockHeight` above the tip's block passes if the node has it.

**BlockScan** with a DAI that works (`BlockScanTraceProofs`). Under `Unmoved` (no
DAI error, no operator call but Run and Stop; crashes at any step): `HeadMoves`
(`HeadStep`), by `HeadInv`, which says at each `pc` where the task stands against
the saved head. Under `Undisturbed` (no crash either, which is what `scan_reliable`
sets; `scan_orphan` shows that it is needed): `NothingOrphaned` (`NoOrphan`),
`HeldWithoutGap` (`NoGap`), `NothingRedelivered` (`NoRedelivery`) and
`FollowsChain` (`Follows`). The node may reorganise and refuse calls at any moment
all the same, and extractions may fail. `NoOrphan` and `NoGap` speak of the moments
between two runs only; `HeldInv` says what holds at each `pc`: what the observers
hold lies on the branch of the block the task stands on, *with every block between*,
and *the local records name that branch from there up to the head*, but for the one
fork the task is about to notify. The records are what makes it inductive: the walk
back goes by them, so each step down meets the very block that was told, and notifies
it, before it passes below it; where there is no record, nothing was told. Moving up,
`HashAssumption` carries what was told over to the chain the new block was
fetched from, and no block on one chain is met twice, which is `NoRedelivery`.
`FollowsChain` takes the steps one by one: `ExtractDelivers`, `SaveHeadAdvances`,
`RewindRetreats`, `ForkNotifyRetracts`, and `OthersStutter` for the rest.

**ChainFollower** (`ChainFollowerProofs`): `FollowersHoldAStretch`. It says what the
promise is worth to an observer, whatever implements it: whenever nothing is left
to take back, what is held is a stretch of one branch that ends at the head
(`Stretch`). `StretchInv` adds that at any other time one block is held too many and
the rest are such a stretch. The delicate step is `Retreat`, whose new head need not
be the parent: if anything but the left block is held, then so is the parent, and
it is behind the new head at the new head's height. The theorem's
hypothesis `Tree` is what `ChainAssumption` and `HashAssumption` of `BlockScan`
say of its chains.

**ExtractBatch** (`ExtractBatchProofs`): `TypeCorrect`, `ReturnIsQuiet`
(`QuietReturn`), `TokensBounded` (`TokenBound`), `PromiseKept` (the refinement),
`NeverWedged` (`NeverStuck`). `OnePlace` says that a transaction is not started,
with its goroutine, queued, with the saver or handled, and only one of these;
`Counted` that `done` is the number handled. So `quit` is closed when all are handled, and then nobody holds
one. The token proof counts the holders by cardinality of their set.
`NeverStuck` is the part of `EveryBatchReturns` that is a safety property: a call
that has not returned can go on, or waits for a token that is free or that some
goroutine can give back. It needs `PlaceInv`, the other half of `OnePlace`: a
goroutine that has got its result off finds it in the queue, with the saver or
handled, so that nothing is lost on the way and an idle pipeline has handled all; and
`TokenInv`, by which a full `extractingCH` means goroutines that hold its tokens, of
which each one's call still takes results.

**Extraction** (`ExtractionProofs`): `TypeCorrect`, `DeliveryIsExact`
(`DeliversExactly`), `SidsMeetOnlyThere` (`SidsMeetInATransaction`), for every set
of blocks, subscription and number of refusals. `Exact` says that what was given
or is being given is what `ExtractData` yields for the transfers handled; a
lemma says that over all transfers that is `Due`, the definition of what should be
given that knows nothing of the code's steps.

**RpcClient** (`RpcClientProofs`): `TypeCorrect`, `BudgetReturns`
(`BudgetComesBack`), `FailuresAccounted` (`FourFailuresOneError`), for any set of
threads and any bounds. `BudgetComesBack` is inductive as it stands: only a write
raises the counter, and the writer then checks it, and sees what is there then,
lost updates or not. `FourFailuresOneError` needs `Accounted`, which follows the
one query there is through its read and write, and `Alone`, that there is one.

**TxDecoder** (`TxDecoderProofs`): `TypeCorrect`, `ReferenceIsFinal`,
`ReferenceHolds`, `SummaryRetains`, `SummaryMoves`, `SendsGood` (`GoodToSend`). `RefSound` carries the age of the
referenced block from `ReadHead` on, so that with `RefAssumption` no later block
can have its number before the transaction expires; `FundsSound` carries the
summary's margin through reading, building and what happens meanwhile. `CoverSound`
is what `GoodToSend` adds: the balance read before everything else still bounds the
account's from below until the amount is fixed, and from then on the amount does, as
long as the transaction is not `disturbed`. The delicate step is `NodeAdvance`
(`AdvanceKeeps`): the balance falls to that of the fork, which is less only for
transactions it disturbs, and a payment it undoes, whose cover others may have
spent since, is disturbed as well. So what `SummaryRetains` and `SendsGood` say of a
transaction holds through any number of other reorganisations.

Only model-checked: the liveness properties (`CatchesUp`, `StopHalts`,
`ExtractorsEnd`, `EveryBatchReturns`, `EveryCallEnds`), which are out of the
prover's reach, as is `ENABLED`: `NeverStuck` names the guards instead. Every other
property of a passing run is proved.

## Not modelled, and why

- The DAI, the framework's timer and observers, and the node are outside `src/`;
  they appear as the outcomes the code can meet. That the timer runs one task at
  a time, and that observers are not added or removed while a block is notified
  (a data race on the map `Observers`), are assumptions.
- Byte layouts, signatures, addresses and configuration: pure calls of
  libraries, without state. The signer and the cache are never used.
- `contract.go`: stubs. Their calls of the node are commented out, and what is
  left returns constants.
- `ParseHeader` and `ParseBlock` (`model.go`) copy fields; `BlockScan` keeps the
  three that are read back.
- `GetScannedBlockHeader` always asks the node, and returns its block below the tip
  (blockscanner.go:605), whatever was scanned; the comment at 607 says that the API
  is asked where there is no local record. It changes nothing here, so that there is
  no behaviour to check.
- A `To` map of several entries: the decoder takes one of them to check
  (tx_decode.go:73) and one to send (410, 416), each time the one that Go's random
  order of the map puts first. Neither the framework
  nor the summary makes one for a chain without multiple outputs.
- 64-bit overflow of amounts: the chain's supply is far below it.
- Accounts on chain that need several keys. `VerifyRawTransaction` speaks of
  multiple signatures ("支持多重签名", tx_decode.go:178); the model's account needs one.

Some hazards are in the models and no property catches them; `PROJECT.json` gives
the reason for each. The main ones: a first start, or a start whose read of the head
failed, leaves out the blocks below (`HeadCovered` excuses what is below an
`adopted` hash, which the code cannot tell apart either); a rescan the task overwrites
is lost; the death at blockscanner.go:100 is followed by a restart by assumption; two
transfers of one transaction between the same accounts share their Sids
(`SidsMeetInATransaction` says that nothing else does); and an address whose query fails
is left out without an error.

## Plan

1. `BlockScan` with its proofs - done.
2. `ExtractBatch` implementing `BatchPromise`, with its proofs - done.
3. `TxDecoder` with its proofs, with repeated verification and submission - done.
4. `RpcClient` with its proofs - done.
5. `Extraction` with its proofs - done.
6. The proofs of `NoOrphan`, `NoRedelivery` and `HeadStep` - done.
7. `BlockScan` implementing `ChainFollower`, and what that is worth; `NoGap`,
   `NeverStuck` and `GoodToSend` with their proofs - done.
8. Left: `NoOrphan` and `NoRedelivery` with operator calls, for which they would
   have to be restated (a rescan delivers again by intent); a proof that `Extract` of
   `BlockScan` is a call of `BatchPromise` followed through to `Extraction`, which so
   far is an argument in this file.
