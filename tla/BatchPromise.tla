----------------------------- MODULE BatchPromise -----------------------------
(***************************************************************************)
(* What BatchExtractTransactions (futurepia/blockscanner.go 206-283)       *)
(* promises its callers: each transaction of the batch is handled once,    *)
(* then the call returns, with an error iff an extraction failed.          *)
(* BlockScan takes the call as one step on the strength of it.             *)
(***************************************************************************)
EXTENDS Integers

CONSTANTS
  Batch,  \* the calls
  Size    \* the number of transactions of each

VARIABLES
  phase,    \* where each call stands
  handled,  \* the transactions it has told the observers of, or recorded as unscanned
  broken,   \* those whose extraction failed
  err       \* did it return an error?

promiseVars == <<phase, handled, broken, err>>

PromiseInit ==
  /\ phase = [b \in Batch |-> "new"]
  /\ handled = [b \in Batch |-> {}]
  /\ broken = [b \in Batch |-> {}]
  /\ err = [b \in Batch |-> FALSE]

Open(b) ==
  /\ phase[b] = "new"
  /\ phase' = [phase EXCEPT ![b] = IF Size[b] = 0 THEN "returned" ELSE "open"]
  /\ UNCHANGED <<handled, broken, err>>

Handle(b, t) ==
  /\ phase[b] = "open"
  /\ t \notin handled[b]
  /\ handled' = [handled EXCEPT ![b] = @ \cup {t}]
  /\ broken' \in {broken, [broken EXCEPT ![b] = @ \cup {t}]}
  /\ UNCHANGED <<phase, err>>

Return(b) ==
  /\ phase[b] = "open"
  /\ handled[b] = 1..Size[b]
  /\ phase' = [phase EXCEPT ![b] = "returned"]
  /\ err' = [err EXCEPT ![b] = broken[b] # {}]
  /\ UNCHANGED <<handled, broken>>

PromiseNext ==
  \E b \in Batch : Open(b) \/ Return(b) \/ \E t \in 1..Size[b] : Handle(b, t)

Promise == PromiseInit /\ [][PromiseNext]_promiseVars

=============================================================================
