------------------------------- MODULE RpcClient -------------------------------
(***************************************************************************)
(* The Client of futurepia/api.go, as the threads of the wallet and the    *)
(* scanner share it: Call, which holds the one mutex over its request, and *)
(* GetBalance, which tries again on a counter, ErrorTime, that belongs to  *)
(* the client and not to the call, and that no lock protects. Its ++, its  *)
(* comparison and its reset are separate reads and writes here.            *)
(*                                                                         *)
(* A query is GetBalance for one address after the other: many for         *)
(* GetBalanceByAddress, one for the decoders. Any other use of the client  *)
(* is a plain Call.                                                        *)
(***************************************************************************)
EXTENDS Integers

CONSTANTS
  Caller,        \* the threads that use the client
  MaxCalls,      \* bound: the calls and queries of each
  MaxAddresses   \* bound: the addresses of a query of each; 0 if it makes none

ASSUME ClientAssumption ==
  /\ MaxCalls \in [Caller -> Nat]
  /\ MaxAddresses \in [Caller -> Nat]

VARIABLES
  pc,         \* where each caller stands
  lock,       \* the callers that hold the mutex
  errorTime,  \* ErrorTime
  reg,        \* what a caller read of it for ++
  rest,       \* the addresses of its query it has not got over; 0 in a plain call
  calls,      \* what it has made so far
  overlap,    \* history: have two queries run side by side?
  failures,   \* history: requests of queries that failed, before that
  givenUp     \* history: addresses given up after a failed request, before that

countVars == <<failures, givenUp>>
vars == <<pc, lock, errorTime, reg, rest, calls, overlap, countVars>>

States == {"idle", "lock", "sent", "read", "write", "check", "reset"}

Querying(c) == rest[c] > 0

TypeOK ==
  /\ pc \in [Caller -> States]
  /\ lock \subseteq Caller
  /\ errorTime \in Nat
  /\ reg \in [Caller -> Nat]
  /\ rest \in [Caller -> Nat]
  /\ calls \in [Caller -> Nat]
  /\ overlap \in BOOLEAN
  /\ failures \in Nat
  /\ givenUp \in Nat

Init ==
  /\ pc = [c \in Caller |-> "idle"]
  /\ lock = {}
  /\ errorTime = 0
  /\ reg = [c \in Caller |-> 0]
  /\ rest = [c \in Caller |-> 0]
  /\ calls = [c \in Caller |-> 0]
  /\ overlap = FALSE
  /\ failures = 0
  /\ givenUp = 0

-----------------------------------------------------------------------------
(* Call, and what its answer means to the caller.                          *)

Starts(c) ==
  /\ pc[c] = "idle"
  /\ calls[c] < MaxCalls[c]
  /\ calls' = [calls EXCEPT ![c] = @ + 1]
  /\ pc' = [pc EXCEPT ![c] = "lock"]

\* GetDynamicGlobal, GetGetBlock, PushTransaction.
StartCall(c) ==
  /\ Starts(c)
  /\ UNCHANGED <<lock, errorTime, reg, rest, overlap, countVars>>

\* GetBalance, GetBalanceByAddress.
StartQuery(c) ==
  /\ Starts(c)
  /\ \E n \in 1..MaxAddresses[c] : rest' = [rest EXCEPT ![c] = n]
  /\ overlap' = (overlap \/ \E d \in Caller \ {c} : Querying(d))
  /\ UNCHANGED <<lock, errorTime, reg, countVars>>

Lock(c) ==
  /\ pc[c] = "lock"
  /\ lock = {}
  /\ lock' = lock \cup {c}
  /\ pc' = [pc EXCEPT ![c] = "sent"]
  /\ UNCHANGED <<errorTime, reg, rest, calls, overlap, countVars>>

\* A bug: an error returns past the Unlock.
KeptOnError(c) == lock

\* The deferred Unlock.
Unlocked(c) == lock \ {c}

\* A bug: an address is counted off for a plain call too.
OneLess(n) == n - 1

CountedOff(n) == IF n > 0 THEN n - 1 ELSE n

\* The caller has its answer, or goes on with its query's next address.
GoesOn(c) ==
  /\ rest' = [rest EXCEPT ![c] = CountedOff(@)]
  /\ pc' = [pc EXCEPT ![c] = IF rest[c] > 1 THEN "lock" ELSE "idle"]

\* The request succeeded. A result GetBalance can make nothing of (no account of that name,
\* another coin) is an error it returns without trying again, and to the client no
\* different.
Answered(c) ==
  /\ pc[c] = "sent"
  /\ lock' = lock \ {c}
  /\ GoesOn(c)
  /\ UNCHANGED <<errorTime, reg, calls, overlap, countVars>>

\* No connection, an error object, or no result.
Failed(c) ==
  /\ pc[c] = "sent"
  /\ lock' = Unlocked(c)
  /\ IF Querying(c)
       THEN /\ pc' = [pc EXCEPT ![c] = "read"]
            /\ failures' = IF overlap THEN failures ELSE failures + 1
            /\ UNCHANGED rest
       ELSE GoesOn(c) /\ UNCHANGED failures
  /\ UNCHANGED <<errorTime, reg, calls, overlap, givenUp>>

-----------------------------------------------------------------------------
(* GetBalance after a failed Call.                                         *)

\* ErrorTime++, its read and its write.
ReadErrorTime(c) ==
  /\ pc[c] = "read"
  /\ reg' = [reg EXCEPT ![c] = errorTime]
  /\ pc' = [pc EXCEPT ![c] = "write"]
  /\ UNCHANGED <<lock, errorTime, rest, calls, overlap, countVars>>

\* A bug: the increment is forgotten.
NotRaised(n) == n

Raised(n) == n + 1

WriteErrorTime(c) ==
  /\ pc[c] = "write"
  /\ errorTime' = Raised(reg[c])
  /\ reg' = [reg EXCEPT ![c] = 0]
  /\ pc' = [pc EXCEPT ![c] = "check"]
  /\ UNCHANGED <<lock, rest, calls, overlap, countVars>>

\* A bug: >= for >.
GivesUpEarly(n) == n >= 3

GivesUp(n) == n > 3

\* Give up, or call GetBalance again.
CheckErrorTime(c) ==
  /\ pc[c] = "check"
  /\ pc' = [pc EXCEPT ![c] = IF GivesUp(errorTime) THEN "reset" ELSE "lock"]
  /\ UNCHANGED <<lock, errorTime, reg, rest, calls, overlap, countVars>>

\* A bug: the counter is not reset.
NotReset(n) == n

AfterReset(n) == 0

\* The error is returned, and GetBalanceByAddress leaves the address out.
Reset(c) ==
  /\ pc[c] = "reset"
  /\ errorTime' = AfterReset(errorTime)
  /\ givenUp' = IF overlap THEN givenUp ELSE givenUp + 1
  /\ GoesOn(c)
  /\ UNCHANGED <<lock, reg, calls, overlap, failures>>

-----------------------------------------------------------------------------
(* The specification.                                                      *)

Next ==
  \E c \in Caller : \/ StartCall(c) \/ StartQuery(c) \/ Lock(c) \/ Answered(c) \/ Failed(c)
                    \/ ReadErrorTime(c) \/ WriteErrorTime(c) \/ CheckErrorTime(c) \/ Reset(c)

Spec == Init /\ [][Next]_vars

\* Every thread that can run does, and a sync.Mutex is not denied to one that waits for ever
\* (hence SF). Of the node: each request ends, if only in an error.
Fairness ==
  \A c \in Caller :
    /\ SF_vars(Lock(c)) /\ WF_vars(Answered(c) \/ Failed(c))
    /\ WF_vars(ReadErrorTime(c)) /\ WF_vars(WriteErrorTime(c))
    /\ WF_vars(CheckErrorTime(c)) /\ WF_vars(Reset(c))

FairSpec == Spec /\ Fairness

-----------------------------------------------------------------------------
(* Properties.                                                             *)

\* As long as queries do not overlap, each error returned cost four failed requests, of
\* this query or of those before it, which left the rest of their failures on the counter
\* (nothing but line 153 takes them off).
FourFailuresOneError ==
  ~overlap /\ (\A c \in Caller : pc[c] \notin {"read", "write"})
    => failures = 4 * givenUp + errorTime

\* However the unprotected reads and writes of lines 151 to 153 fall, ErrorTime stays above
\* three only while somebody is on the way to reset it: no lost update leaves the client
\* with its retries used up.
BudgetComesBack ==
  errorTime > 3 => \E c \in Caller : pc[c] \in {"check", "reset"}

\* Every call and every query ends, whatever the node answers and however the counter is
\* raced for: nobody keeps the mutex, and nobody tries again for ever.
EveryCallEnds == \A c \in Caller : pc[c] # "idle" ~> pc[c] = "idle"

-----------------------------------------------------------------------------
(* The inductive invariant.                                                *)

\* The mutex is held by the one whose request is under way.
Exclusive ==
  /\ \A c \in Caller : c \in lock <=> pc[c] = "sent"
  /\ \A c, d \in lock : c = d

\* Only a query is on the way through the counter.
QueryingSound == \A c \in Caller : pc[c] \in {"read", "write", "check", "reset"} => Querying(c)

\* Before the first overlap there is one query at most.
Alone == ~overlap => \A c, d \in Caller : Querying(c) /\ Querying(d) => c = d

\* Until then the counter is one ahead of the failures only between them and its write, and
\* the register holds it.
Accounted ==
  ~overlap =>
    /\ FourFailuresOneError
    /\ \A c \in Caller :
         /\ pc[c] \in {"read", "write"} => failures = 4 * givenUp + errorTime + 1
         /\ pc[c] = "write" => reg[c] = errorTime
         /\ pc[c] = "reset" => errorTime = 4
    /\ errorTime <= 4

IInv == TypeOK /\ Exclusive /\ QueryingSound /\ BudgetComesBack /\ Alone /\ Accounted

=============================================================================
