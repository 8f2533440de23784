---------------------------- MODULE RpcClientProofs ----------------------------
(***************************************************************************)
(* Proofs about RpcClient, for any number of threads, calls and addresses. *)
(***************************************************************************)
EXTENDS RpcClient, TLAPS

LEMMA InitInv == Init => IInv
  <1> SUFFICES ASSUME Init PROVE IInv
    OBVIOUS
  <1>1. TypeOK
    BY ClientAssumption DEF Init, TypeOK, States
  <1>2. Exclusive /\ QueryingSound /\ BudgetComesBack
    BY DEF Init, Exclusive, QueryingSound, BudgetComesBack
  <1>3. Alone /\ Accounted
    BY DEF Init, Alone, Accounted, FourFailuresOneError, Querying
  <1> QED
    BY <1>1, <1>2, <1>3 DEF IInv

\* One case per action; in each, what the counter was worth before and is worth after.
LEMMA StepInv == IInv /\ [Next]_vars => IInv'
  <1> SUFFICES ASSUME IInv, [Next]_vars PROVE IInv'
    OBVIOUS
  <1> USE DEF IInv
  <1>1. ASSUME NEW c \in Caller, StartCall(c) PROVE IInv'
    <2> USE <1>1 DEF StartCall, Starts, countVars
    <2>1. TypeOK'
      BY ClientAssumption DEF TypeOK, States
    <2>2. (Exclusive /\ QueryingSound /\ BudgetComesBack)'
      BY DEF TypeOK, Exclusive, QueryingSound, BudgetComesBack, Querying
    <2>3. Alone'
      BY <2>1 DEF TypeOK, Alone, Querying, QueryingSound
    <2>4. Accounted'
      BY <2>1, <2>2, <2>3 DEF TypeOK, Alone, Accounted, FourFailuresOneError, Querying,
                              QueryingSound, BudgetComesBack
    <2> QED
      BY <2>1, <2>2, <2>3, <2>4
  <1>2. ASSUME NEW c \in Caller, StartQuery(c) PROVE IInv'
    <2> USE <1>2 DEF StartQuery, Starts, countVars
    <2>1. TypeOK'
      BY ClientAssumption DEF TypeOK, States
    <2>2. (Exclusive /\ QueryingSound /\ BudgetComesBack)'
      BY <2>1 DEF TypeOK, Exclusive, QueryingSound, BudgetComesBack, Querying
    <2>3. Alone'
      BY <2>1 DEF TypeOK, Alone, Querying, QueryingSound
    <2>4. Accounted'
      BY <2>1, <2>2, <2>3 DEF TypeOK, Alone, Accounted, FourFailuresOneError, Querying,
                              QueryingSound, BudgetComesBack
    <2> QED
      BY <2>1, <2>2, <2>3, <2>4
  <1>3. ASSUME NEW c \in Caller, Lock(c) PROVE IInv'
    <2> USE <1>3 DEF Lock, countVars
    <2>1. TypeOK'
      BY DEF TypeOK, States
    <2>2. (Exclusive /\ QueryingSound /\ BudgetComesBack)'
      BY DEF TypeOK, Exclusive, QueryingSound, BudgetComesBack, Querying
    <2>3. Alone'
      BY <2>1 DEF TypeOK, Alone, Querying, QueryingSound
    <2>4. Accounted'
      BY <2>1, <2>2, <2>3 DEF TypeOK, Alone, Accounted, FourFailuresOneError, Querying,
                              QueryingSound, BudgetComesBack
    <2> QED
      BY <2>1, <2>2, <2>3, <2>4
  <1>4. ASSUME NEW c \in Caller, Answered(c) PROVE IInv'
    <2> USE <1>4 DEF Answered, GoesOn, CountedOff, countVars
    <2>1. TypeOK'
      BY DEF TypeOK, States, Querying
    <2>2. (Exclusive /\ QueryingSound /\ BudgetComesBack)'
      BY DEF TypeOK, Exclusive, QueryingSound, BudgetComesBack, Querying
    <2>3. Alone'
      BY <2>1 DEF TypeOK, Alone, Querying, QueryingSound
    <2>4. Accounted'
      BY <2>1, <2>2, <2>3 DEF TypeOK, Alone, Accounted, FourFailuresOneError, Querying,
                              QueryingSound, BudgetComesBack
    <2> QED
      BY <2>1, <2>2, <2>3, <2>4
  <1>5. ASSUME NEW c \in Caller, Failed(c) PROVE IInv'
    <2> USE <1>5 DEF Failed, GoesOn, CountedOff, Unlocked
    <2>1. TypeOK'
      BY DEF TypeOK, States, Querying
    <2>2. (Exclusive /\ QueryingSound /\ BudgetComesBack)'
      BY DEF TypeOK, Exclusive, QueryingSound, BudgetComesBack, Querying
    <2>3. Alone'
      BY <2>1 DEF TypeOK, Alone, Querying, QueryingSound
    <2>4. Accounted'
      BY <2>1, <2>2, <2>3 DEF TypeOK, Alone, Accounted, FourFailuresOneError, Querying,
                              QueryingSound, BudgetComesBack
    <2> QED
      BY <2>1, <2>2, <2>3, <2>4
  <1>6. ASSUME NEW c \in Caller, ReadErrorTime(c) PROVE IInv'
    <2> USE <1>6 DEF ReadErrorTime, countVars
    <2>1. TypeOK'
      BY DEF TypeOK, States
    <2>2. (Exclusive /\ QueryingSound /\ BudgetComesBack)'
      BY DEF TypeOK, Exclusive, QueryingSound, BudgetComesBack, Querying
    <2>3. Alone'
      BY <2>1 DEF TypeOK, Alone, Querying, QueryingSound
    <2>4. Accounted'
      BY <2>1, <2>2, <2>3 DEF TypeOK, Alone, Accounted, FourFailuresOneError, Querying,
                              QueryingSound, BudgetComesBack
    <2> QED
      BY <2>1, <2>2, <2>3, <2>4
  <1>7. ASSUME NEW c \in Caller, WriteErrorTime(c) PROVE IInv'
    <2> USE <1>7 DEF WriteErrorTime, countVars, Raised
    <2>1. TypeOK'
      BY DEF TypeOK, States
    <2>2. (Exclusive /\ QueryingSound /\ BudgetComesBack)'
      BY DEF TypeOK, Exclusive, QueryingSound, BudgetComesBack, Querying
    <2>3. Alone'
      BY <2>1 DEF TypeOK, Alone, Querying, QueryingSound
    <2>4. Accounted'
      BY <2>1, <2>2, <2>3 DEF TypeOK, Alone, Accounted, FourFailuresOneError, Querying,
                              QueryingSound, BudgetComesBack
    <2> QED
      BY <2>1, <2>2, <2>3, <2>4
  <1>8. ASSUME NEW c \in Caller, CheckErrorTime(c) PROVE IInv'
    <2> USE <1>8 DEF CheckErrorTime, countVars, GivesUp
    <2>1. TypeOK'
      BY DEF TypeOK, States
    <2>2. (Exclusive /\ QueryingSound /\ BudgetComesBack)'
      BY DEF TypeOK, Exclusive, QueryingSound, BudgetComesBack, Querying
    <2>3. Alone'
      BY <2>1 DEF TypeOK, Alone, Querying, QueryingSound
    <2>4. Accounted'
      BY <2>1, <2>2, <2>3 DEF TypeOK, Alone, Accounted, FourFailuresOneError, Querying,
                              QueryingSound, BudgetComesBack
    <2> QED
      BY <2>1, <2>2, <2>3, <2>4
  <1>9. ASSUME NEW c \in Caller, Reset(c) PROVE IInv'
    <2> USE <1>9 DEF Reset, GoesOn, CountedOff, AfterReset
    <2>1. TypeOK'
      BY DEF TypeOK, States, Querying
    <2>2. (Exclusive /\ QueryingSound /\ BudgetComesBack)'
      BY DEF TypeOK, Exclusive, QueryingSound, BudgetComesBack, Querying
    <2>3. Alone'
      BY <2>1 DEF TypeOK, Alone, Querying, QueryingSound
    <2>4. Accounted'
      BY <2>1, <2>2, <2>3 DEF TypeOK, Alone, Accounted, FourFailuresOneError, Querying,
                              QueryingSound, BudgetComesBack
    <2> QED
      BY <2>1, <2>2, <2>3, <2>4
  <1>10. CASE UNCHANGED vars
    BY <1>10 DEF vars, countVars, TypeOK, Exclusive, QueryingSound, BudgetComesBack, Alone,
                 Accounted, FourFailuresOneError, Querying
  <1> QED
    BY <1>1, <1>2, <1>3, <1>4, <1>5, <1>6, <1>7, <1>8, <1>9, <1>10 DEF Next

LEMMA Inv == Spec => []IInv
  BY InitInv, StepInv, PTL DEF Spec

\* Every variable keeps its type.
THEOREM TypeCorrect == Spec => []TypeOK
  <1>1. IInv => TypeOK
    BY DEF IInv
  <1> QED
    BY <1>1, Inv, PTL

\* ErrorTime stays above three only while somebody is about to reset it, however the reads
\* and writes of GetBalance (api.go 151 to 153) interleave.
THEOREM BudgetReturns == Spec => []BudgetComesBack
  <1>1. IInv => BudgetComesBack
    BY DEF IInv
  <1> QED
    BY <1>1, Inv, PTL

\* Before two queries overlap, every error GetBalance returns for a failed request stands
\* for four of them, in this query or before (api.go 151 to 153).
THEOREM FailuresAccounted == Spec => []FourFailuresOneError
  <1>1. IInv => FourFailuresOneError
    BY DEF IInv, Accounted, FourFailuresOneError
  <1> QED
    BY <1>1, Inv, PTL

\* One request at a time: the mutex of Call (api.go 312) is never held by two.
THEOREM OneRequest == Spec => [](\A c, d \in Caller : pc[c] = "sent" /\ pc[d] = "sent" => c = d)
  <1>1. IInv => \A c, d \in Caller : pc[c] = "sent" /\ pc[d] = "sent" => c = d
    BY DEF IInv, Exclusive
  <1> QED
    BY <1>1, Inv, PTL

=============================================================================
