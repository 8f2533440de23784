----------------------------- MODULE ExtractBatch -----------------------------
(***************************************************************************)
(* BatchExtractTransactions and extractRuntime of                          *)
(* futurepia/blockscanner.go: the goroutines of a batch and the channels   *)
(* between them. extractWork starts one goroutine per transaction, at most *)
(* maxExtractingSize at a time over all batches (extractingCH); each sends *)
(* its result on the unbuffered producer; extractRuntime queues it and     *)
(* hands it on over the unbuffered worker; saveWork handles it and closes  *)
(* quit after the last. The scanner's task and a ScanBlock call run        *)
(* batches side by side.                                                   *)
(*                                                                         *)
(* A rendezvous on an unbuffered channel is one step of both sides.        *)
(***************************************************************************)
EXTENDS Integers, Sequences, FiniteSets

CONSTANTS
  Batch,          \* the calls of BatchExtractTransactions that run side by side
  Size,           \* the number of transactions of each
  MaxExtracting   \* maxExtractingSize: the capacity of extractingCH

ASSUME BatchAssumption ==
  /\ IsFiniteSet(Batch)
  /\ Size \in [Batch -> Nat]
  /\ MaxExtracting \in Nat \ {0}

VARIABLES
  main,       \* the caller: before the call, in extractRuntime's select, returned
  next,       \* the transactions extractWork has started a goroutine for
  extractor,  \* each transaction's goroutine
  values,     \* extractRuntime's queue
  saver,      \* saveWork: ranging over worker, or busy with a result
  item,       \* the result it is busy with
  done,       \* results handled
  failed,     \* extractions that failed
  quit,       \* is quit closed?
  closed,     \* are worker and producer closed?
  tokens,     \* the tokens in extractingCH
  unscan,     \* history: was an unscan record of the block saved?
  refused,    \* history: the transactions an observer returned an error for
  handled,    \* history: the transactions handled
  broken,     \* history: those whose extraction failed
  err         \* what the call returned: was it an error?

batchVars == <<main, next, extractor, values, saver, item, done, failed, quit, closed>>
seenVars  == <<unscan, refused, handled, broken, err>>
vars      == <<batchVars, tokens, seenVars>>

Txs(b)     == 1..Size[b]
Results(b) == [tx : Txs(b), ok : BOOLEAN]
NoResult   == [tx |-> 0, ok |-> TRUE]

TypeOK ==
  /\ main \in [Batch -> {"new", "select", "returned"}]
  /\ next \in [Batch -> Nat] /\ \A b \in Batch : next[b] <= Size[b]
  /\ DOMAIN extractor = Batch
  /\ \A b \in Batch : extractor[b] \in [Txs(b) -> {"none", "extract", "release", "end"}]
  /\ DOMAIN values = Batch /\ \A b \in Batch : values[b] \in Seq(Results(b))
  /\ saver \in [Batch -> {"range", "save", "end"}]
  /\ DOMAIN item = Batch /\ \A b \in Batch : item[b] \in Results(b) \cup {NoResult}
  /\ done \in [Batch -> Nat] /\ \A b \in Batch : done[b] <= Size[b]
  /\ failed \in [Batch -> Nat]
  /\ quit \in [Batch -> BOOLEAN]
  /\ closed \in [Batch -> BOOLEAN]
  /\ tokens \in Int
  /\ unscan \in [Batch -> BOOLEAN]
  /\ DOMAIN refused = Batch /\ \A b \in Batch : refused[b] \subseteq Txs(b)
  /\ DOMAIN handled = Batch /\ \A b \in Batch : handled[b] \subseteq Txs(b)
  /\ DOMAIN broken = Batch /\ \A b \in Batch : broken[b] \subseteq Txs(b)
  /\ err \in [Batch -> BOOLEAN]

Init ==
  /\ main = [b \in Batch |-> "new"]
  /\ next = [b \in Batch |-> 0]
  /\ extractor = [b \in Batch |-> [t \in Txs(b) |-> "none"]]
  /\ values = [b \in Batch |-> <<>>]
  /\ saver = [b \in Batch |-> "range"]
  /\ item = [b \in Batch |-> NoResult]
  /\ done = [b \in Batch |-> 0]
  /\ failed = [b \in Batch |-> 0]
  /\ quit = [b \in Batch |-> FALSE]
  /\ closed = [b \in Batch |-> FALSE]
  /\ tokens = 0
  /\ unscan = [b \in Batch |-> FALSE]
  /\ refused = [b \in Batch |-> {}]
  /\ handled = [b \in Batch |-> {}]
  /\ broken = [b \in Batch |-> {}]
  /\ err = [b \in Batch |-> FALSE]

-----------------------------------------------------------------------------
(* The caller and extractWork.                                             *)

\* A batch without transactions returns at once; another starts saveWork and extractWork
\* and enters extractRuntime.
Call(b) ==
  /\ main[b] = "new"
  /\ main' = [main EXCEPT ![b] = IF Size[b] = 0 THEN "returned" ELSE "select"]
  /\ UNCHANGED <<next, extractor, values, saver, item, done, failed, quit, closed, tokens,
                 seenVars>>

\* A send on extractingCH does not block.
Room == tokens < MaxExtracting

\* extractWork takes a token and starts the next transaction's goroutine.
Start(b) ==
  /\ main[b] # "new"
  /\ next[b] < Size[b]
  /\ Room
  /\ tokens' = tokens + 1
  /\ next' = [next EXCEPT ![b] = @ + 1]
  /\ extractor' = [extractor EXCEPT ![b][next[b] + 1] = "extract"]
  /\ UNCHANGED <<main, values, saver, item, done, failed, quit, closed, seenVars>>

-----------------------------------------------------------------------------
(* extractRuntime.                                                         *)

\* A bug: a result is taken only when the one before was handed on.
TakesOneByOne(b) == main[b] = "select" /\ values[b] = <<>>

\* The select of extractRuntime always listens on producer.
TakesResults(b) == main[b] = "select"

\* A goroutine's result, of ExtractTransaction, goes to the end of the queue.
Produce(b, t) ==
  /\ extractor[b][t] = "extract"
  /\ TakesResults(b)
  /\ \E ok \in BOOLEAN : values' = [values EXCEPT ![b] = Append(@, [tx |-> t, ok |-> ok])]
  /\ extractor' = [extractor EXCEPT ![b][t] = "release"]
  /\ UNCHANGED <<main, next, saver, item, done, failed, quit, closed, tokens, seenVars>>

\* A bug: the goroutine ends with its token left in extractingCH.
KeepsToken == tokens

\* A token is taken back out of extractingCH.
GivesBack == tokens - 1

\* The goroutine gives its token back and ends.
Release(b, t) ==
  /\ extractor[b][t] = "release"
  /\ tokens' = GivesBack
  /\ extractor' = [extractor EXCEPT ![b][t] = "end"]
  /\ UNCHANGED <<main, next, values, saver, item, done, failed, quit, closed, seenVars>>

\* A bug: the value handed on stays in the queue.
KeepsHead(queue) == queue

Rest(queue) == Tail(queue)

\* The head of the queue goes to saveWork.
HandOn(b) ==
  /\ main[b] = "select"
  /\ saver[b] = "range"
  /\ values[b] # <<>>
  /\ item' = [item EXCEPT ![b] = Head(values[b])]
  /\ values' = [values EXCEPT ![b] = Rest(@)]
  /\ saver' = [saver EXCEPT ![b] = "save"]
  /\ UNCHANGED <<main, next, extractor, done, failed, quit, closed, tokens, seenVars>>

\* quit is closed: extractRuntime returns, the channels are closed, failed is read.
Quit(b) ==
  /\ main[b] = "select"
  /\ quit[b]
  /\ main' = [main EXCEPT ![b] = "returned"]
  /\ closed' = [closed EXCEPT ![b] = TRUE]
  /\ err' = [err EXCEPT ![b] = failed[b] > 0]
  /\ UNCHANGED <<next, extractor, values, saver, item, done, failed, quit, tokens, unscan,
                 refused, handled, broken>>

-----------------------------------------------------------------------------
(* saveWork.                                                               *)

\* Bugs: the count compared one early; with > instead of ==.
LastButOne(n, size) == n = size - 1 \/ size = 1
PastLast(n, size) == n > size

IsLast(n, size) == n = size

\* newExtractDataNotify, where an observer may refuse: that saves an unscan record, and the
\* function returns nil all the same. A failed extraction saves one and counts. Saving may
\* fail.
Save(b) ==
  LET t == item[b].tx IN
  /\ saver[b] = "save"
  /\ \/ /\ item[b].ok
        /\ UNCHANGED <<unscan, refused, broken, failed>>
     \/ /\ item[b].ok
        /\ refused' = [refused EXCEPT ![b] = @ \cup {t}]
        /\ unscan' \in {unscan, [unscan EXCEPT ![b] = TRUE]}
        /\ UNCHANGED <<broken, failed>>
     \/ /\ ~item[b].ok
        /\ unscan' \in {unscan, [unscan EXCEPT ![b] = TRUE]}
        /\ broken' = [broken EXCEPT ![b] = @ \cup {t}]
        /\ failed' = [failed EXCEPT ![b] = @ + 1]
        /\ UNCHANGED refused
  /\ handled' = [handled EXCEPT ![b] = @ \cup {t}]
  /\ done' = [done EXCEPT ![b] = @ + 1]
  /\ quit' = [quit EXCEPT ![b] = @ \/ IsLast(done[b] + 1, Size[b])]
  /\ item' = [item EXCEPT ![b] = NoResult]
  /\ saver' = [saver EXCEPT ![b] = "range"]
  /\ UNCHANGED <<main, next, extractor, values, closed, tokens, err>>

\* The range over worker ends when it is closed.
SaverEnds(b) ==
  /\ saver[b] = "range"
  /\ closed[b]
  /\ saver' = [saver EXCEPT ![b] = "end"]
  /\ UNCHANGED <<main, next, extractor, values, item, done, failed, quit, closed, tokens,
                 seenVars>>

-----------------------------------------------------------------------------
(* The specification.                                                      *)

Next ==
  \E b \in Batch : \/ Call(b) \/ Start(b) \/ HandOn(b) \/ Quit(b) \/ Save(b) \/ SaverEnds(b)
                   \/ \E t \in Txs(b) : Produce(b, t) \/ Release(b, t)

Spec == Init /\ [][Next]_vars

\* Go's scheduler runs every goroutine that can run. Those that wait to send on extractingCH
\* are queued there, so that a batch is not overtaken by the others for ever (hence SF).
\* Nothing is assumed of the observers, who may hold Save up for ever.
Fairness ==
  \A b \in Batch :
    /\ WF_vars(Call(b)) /\ SF_vars(Start(b)) /\ WF_vars(HandOn(b)) /\ WF_vars(Quit(b))
    /\ WF_vars(SaverEnds(b))
    /\ WF_vars(\E t \in Txs(b) : Produce(b, t))
    /\ WF_vars(\E t \in Txs(b) : Release(b, t))

FairSpec == Spec /\ Fairness

ObserversAnswer == \A b \in Batch : WF_vars(Save(b))

-----------------------------------------------------------------------------
(* Properties.                                                             *)

\* When the call has returned, nothing of the batch can still touch its channels or its
\* counters: no goroutine is about to send on the closed producer (line 260), nothing waits
\* in the queue for the closed worker (line 307), saveWork is not busy, and so quit is not
\* closed again (line 249) and failed is not read too early (line 278).
QuietReturn ==
  \A b \in Batch : closed[b] =>
    /\ next[b] = Size[b]
    /\ \A t \in Txs(b) : extractor[b][t] \in {"release", "end"}
    /\ values[b] = <<>>
    /\ saver[b] # "save"

Queued(b) == {values[b][i].tx : i \in DOMAIN values[b]}

\* The strengthening of QuietReturn: a transaction is in one place at a time, done counts
\* the ones handled, and quit is closed when those are all.
OnePlace(b) ==
  /\ \A t \in Txs(b) : extractor[b][t] = "none" <=> t > next[b]
  /\ \A t \in handled[b] \cup Queued(b) : extractor[b][t] \in {"release", "end"}
  /\ handled[b] \cap Queued(b) = {}
  /\ \A i, j \in DOMAIN values[b] : values[b][i].tx = values[b][j].tx => i = j
  /\ saver[b] = "save" => /\ item[b] \in Results(b)
                          /\ extractor[b][item[b].tx] \in {"release", "end"}
                          /\ item[b].tx \notin handled[b] \cup Queued(b)

Counted(b) ==
  /\ done[b] = Cardinality(handled[b])
  /\ quit[b] <=> Size[b] > 0 /\ handled[b] = Txs(b)
  /\ closed[b] => quit[b]
  /\ failed[b] > 0 <=> broken[b] # {}
  /\ main[b] = "new" => next[b] = 0
  /\ main[b] = "returned" => closed[b] \/ Size[b] = 0

IInv == TypeOK /\ \A b \in Batch : OnePlace(b) /\ Counted(b)

Running(b) == {t \in Txs(b) : extractor[b][t] \in {"extract", "release"}}

\* No more goroutines of all the batches run than extractingCH has room for, and a batch
\* that is over leaves no token behind (lines 257 and 262).
TokenBound ==
  /\ tokens = Cardinality(UNION {{b} \X Running(b) : b \in Batch})
  /\ tokens <= MaxExtracting

\* A call that has not returned is never stuck: quit is closed, or saveWork, extractRuntime or
\* a goroutine of the batch has something to do, or extractWork can start one, or some
\* goroutine, of whatever batch, can give the token back that it waits for.
CanGoOn(b) ==
  \/ quit[b]
  \/ saver[b] = "save"
  \/ saver[b] = "range" /\ values[b] # <<>>
  \/ TakesResults(b) /\ \E t \in Txs(b) : extractor[b][t] = "extract"

TokenComesBack ==
  \E c \in Batch : \E t \in Txs(c) : \/ extractor[c][t] = "release"
                                     \/ extractor[c][t] = "extract" /\ TakesResults(c)

NeverStuck ==
  \A b \in Batch : main[b] = "select" =>
    CanGoOn(b) \/ (next[b] < Size[b] /\ (Room \/ TokenComesBack))

\* Its strengthening: no result is lost on the way to saveWork, which ends after the call only.
InHand(b) == IF saver[b] = "save" THEN {item[b].tx} ELSE {}

Placed(b) ==
  /\ \A t \in Txs(b) : extractor[b][t] \in {"release", "end"} =>
                         t \in handled[b] \cup Queued(b) \cup InHand(b)
  /\ main[b] = "select" => Size[b] > 0
  /\ saver[b] = "end" => closed[b]

PlaceInv == \A b \in Batch : Placed(b)

\* The pipeline is an implementation of the promise BlockScan relies on.
Phase == [b \in Batch |-> IF main[b] = "select" THEN "open" ELSE main[b]]

P == INSTANCE BatchPromise WITH phase <- Phase

KeepsPromise == P!Promise

\* A slow observer holds nobody else up: whatever Save does, every goroutine gets its
\* result off and gives its token back (the queue of extractRuntime has no bound).
ExtractorsEnd ==
  \A b \in Batch : \A t \in Txs(b) : extractor[b][t] = "extract" ~> extractor[b][t] = "end"

\* If the observers answer, every call returns and its saveWork ends.
EveryBatchReturns ==
  ObserversAnswer => \A b \in Batch : <>[](main[b] = "returned" /\ (closed[b] => saver[b] = "end"))

\* Line 237 counts the saves that failed, and line 278 turns the count into an error: a call
\* that returns without an error had no notification refused.
RefusalIsReported ==
  \A b \in Batch : main[b] = "returned" /\ ~err[b] => refused[b] = {}

=============================================================================
