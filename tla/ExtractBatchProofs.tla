-------------------------- MODULE ExtractBatchProofs --------------------------
(* Proofs about ExtractBatch, for every set of batches of every size and any  *)
(* capacity of extractingCH.                                                  *)
EXTENDS ExtractBatch, FiniteSetTheorems, TLAPS

-----------------------------------------------------------------------------
(* Sets of transactions and queues of results.                              *)

\* A set of transactions as large as the batch is the whole batch.
LEMMA FullIsAll ==
  ASSUME NEW n \in Nat, NEW S \in SUBSET (1..n)
  PROVE  /\ IsFiniteSet(S) /\ Cardinality(S) \in Nat
         /\ Cardinality(S) <= n
         /\ Cardinality(S) = n <=> S = 1..n
  <1>1. IsFiniteSet(1..n) /\ Cardinality(1..n) = n
    BY FS_Interval
  <1>2. IsFiniteSet(S) /\ Cardinality(S) <= n /\ (Cardinality(S) = n => S = 1..n)
    BY <1>1, FS_Subset
  <1> QED
    BY <1>1, <1>2, FS_CardinalityType

\* Counting one more element.
LEMMA OneMore ==
  ASSUME NEW n \in Nat, NEW S \in SUBSET (1..n), NEW t \in 1..n, t \notin S
  PROVE  Cardinality(S \cup {t}) = Cardinality(S) + 1
  BY FullIsAll, FS_AddElement

\* A result at the end of the queue.
LEMMA AppendFacts ==
  ASSUME NEW R, NEW q \in Seq(R), NEW r \in R
  PROVE  /\ Append(q, r) \in Seq(R)
         /\ DOMAIN Append(q, r) = DOMAIN q \cup {Len(q) + 1}
         /\ Len(q) + 1 \notin DOMAIN q
         /\ Append(q, r)[Len(q) + 1] = r
         /\ \A i \in DOMAIN q : Append(q, r)[i] = q[i]
  OBVIOUS

\* The head of the queue, and what is left.
LEMMA RestFacts ==
  ASSUME NEW R, NEW q \in Seq(R), q # <<>>
  PROVE  /\ Head(q) \in R /\ Head(q) = q[1] /\ 1 \in DOMAIN q
         /\ Rest(q) \in Seq(R)
         /\ \A i \in DOMAIN Rest(q) : /\ i \in Nat /\ i + 1 \in DOMAIN q /\ i + 1 # 1
                                      /\ Rest(q)[i] = q[i + 1]
  BY DEF Rest

-----------------------------------------------------------------------------
(* The inductive invariant.                                                 *)

LEMMA InitInv == Init => IInv
  <1> SUFFICES ASSUME Init PROVE IInv
    OBVIOUS
  <1>1. TypeOK
    BY BatchAssumption DEF Init, TypeOK, NoResult, Txs
  <1>2. ASSUME NEW b \in Batch PROVE OnePlace(b)
    BY BatchAssumption DEF Init, OnePlace, Queued, Txs
  <1>3. ASSUME NEW b \in Batch PROVE Counted(b)
    <2>1. Cardinality({}) = 0
      BY FS_EmptySet
    <2>2. Size[b] > 0 => Txs(b) # {}
      BY BatchAssumption DEF Txs
    <2> QED
      BY <2>1, <2>2 DEF Init, Counted
  <1> QED
    BY <1>1, <1>2, <1>3 DEF IInv

\* A batch none of whose own state changes keeps its part of the invariant.
LEMMA Untouched ==
  ASSUME NEW c \in Batch, OnePlace(c), Counted(c),
         main'[c] = main[c], next'[c] = next[c], extractor'[c] = extractor[c],
         values'[c] = values[c], saver'[c] = saver[c], item'[c] = item[c],
         done'[c] = done[c], failed'[c] = failed[c], quit'[c] = quit[c],
         closed'[c] = closed[c], handled'[c] = handled[c], broken'[c] = broken[c]
  PROVE  OnePlace(c)' /\ Counted(c)'
  BY DEF OnePlace, Counted, Queued, Txs, Results

\* Types that IInv gives, batch by batch.
LEMMA BatchTypes ==
  ASSUME TypeOK, NEW b \in Batch
  PROVE  /\ Size[b] \in Nat /\ next[b] \in Nat /\ next[b] <= Size[b]
         /\ extractor[b] \in [Txs(b) -> {"none", "extract", "release", "end"}]
         /\ values[b] \in Seq(Results(b))
         /\ done[b] \in Nat /\ failed[b] \in Nat
         /\ handled[b] \in SUBSET (1..Size[b])
         /\ \A i \in DOMAIN values[b] : values[b][i] \in Results(b)
         /\ handled[b] \cup Queued(b) \subseteq Txs(b)
  <1>1. values[b] \in Seq(Results(b))
    BY DEF TypeOK
  <1>2. \A i \in DOMAIN values[b] : values[b][i] \in Results(b)
    BY <1>1
  <1>3. \A r \in Results(b) : r.tx \in Txs(b)
    BY DEF Results
  <1>4. Queued(b) \subseteq Txs(b)
    BY <1>2, <1>3 DEF Queued
  <1> QED
    BY <1>1, <1>2, <1>4, BatchAssumption DEF TypeOK, Txs

LEMMA CallInv == \A b \in Batch : IInv /\ Call(b) => IInv'
  <1> SUFFICES ASSUME NEW b \in Batch, IInv, Call(b) PROVE IInv'
    OBVIOUS
  <1>1. TypeOK'
    BY DEF IInv, TypeOK, Call, seenVars, Txs, Results
  <1>2. ASSUME NEW c \in Batch PROVE OnePlace(c)' /\ Counted(c)'
    <2>1. CASE c # b
      BY <2>1, Untouched DEF IInv, TypeOK, Call, seenVars
    <2>2. CASE c = b
      <3>1. OnePlace(b)'
        BY DEF IInv, Call, OnePlace, Queued, seenVars
      <3>2. /\ main'[b] = IF Size[b] = 0 THEN "returned" ELSE "select"
            /\ ~closed[b] => ~closed'[b]
        BY DEF IInv, TypeOK, Call
      <3>3. Counted(b)'
        BY <3>2 DEF IInv, Call, Counted, seenVars, Txs
      <3> QED
        BY <2>2, <3>1, <3>3
    <2> QED
      BY <2>1, <2>2
  <1> QED
    BY <1>1, <1>2 DEF IInv

LEMMA StartInv == \A b \in Batch : IInv /\ Start(b) => IInv'
  <1> SUFFICES ASSUME NEW b \in Batch, IInv, Start(b) PROVE IInv'
    OBVIOUS
  <1> DEFINE t == next[b] + 1
  <1>1. /\ t \in Txs(b) /\ next[b] \in Nat /\ t <= Size[b]
        /\ extractor[b] \in [Txs(b) -> {"none", "extract", "release", "end"}]
    BY BatchTypes DEF IInv, Start, Txs
  <1>2. /\ next' = [next EXCEPT ![b] = t]
        /\ extractor' = [extractor EXCEPT ![b] = [extractor[b] EXCEPT ![t] = "extract"]]
    BY DEF Start, IInv, TypeOK
  <1>3. TypeOK'
    BY <1>1, <1>2 DEF IInv, TypeOK, Start, seenVars, Txs, Results
  <1>4. ASSUME NEW c \in Batch PROVE OnePlace(c)' /\ Counted(c)'
    <2>1. CASE c # b
      BY <2>1, <1>2, Untouched DEF IInv, TypeOK, Start, seenVars
    <2>2. CASE c = b
      <3>1. /\ next'[b] = t
            /\ extractor'[b][t] = "extract"
            /\ \A u \in Txs(b) : u # t => extractor'[b][u] = extractor[b][u]
        BY <1>1, <1>2 DEF IInv, TypeOK
      <3>2. extractor[b][t] = "none"
        BY <1>1 DEF IInv, OnePlace, Txs
      <3>3. t \notin handled[b] \cup Queued(b)
        BY <3>2 DEF IInv, OnePlace
      <3>4. saver[b] = "save" => item[b].tx # t /\ item[b].tx \in Txs(b)
        BY <3>2 DEF IInv, OnePlace, Results
      <3>5. \A u \in Txs(b) : extractor'[b][u] = "none" <=> u > next'[b]
        BY <1>1, <3>1 DEF IInv, OnePlace, Txs
      <3>6. handled[b] \cup Queued(b) \subseteq Txs(b)
        BY BatchTypes DEF IInv
      <3>7. OnePlace(b)'
        BY <3>1, <3>3, <3>4, <3>5, <3>6 DEF IInv, OnePlace, Start, seenVars, Queued, Txs, Results
      <3>8. Counted(b)'
        BY DEF IInv, Counted, Start, seenVars, Txs
      <3> QED
        BY <2>2, <3>7, <3>8
    <2> QED
      BY <2>1, <2>2
  <1> QED
    BY <1>3, <1>4 DEF IInv

LEMMA ProduceInv == \A b \in Batch : \A t \in Txs(b) : IInv /\ Produce(b, t) => IInv'
  <1> SUFFICES ASSUME NEW b \in Batch, NEW t \in Txs(b), IInv, Produce(b, t) PROVE IInv'
    OBVIOUS
  <1>1. PICK ok \in BOOLEAN :
          values' = [values EXCEPT ![b] = Append(values[b], [tx |-> t, ok |-> ok])]
    BY DEF Produce
  <1> DEFINE r == [tx |-> t, ok |-> ok]
             q == values[b]
             n == Len(q) + 1
  <1>2. /\ q \in Seq(Results(b)) /\ r \in Results(b) /\ r.tx = t
        /\ extractor[b] \in [Txs(b) -> {"none", "extract", "release", "end"}]
    BY BatchTypes DEF IInv, Results
  <1>3. /\ Append(q, r) \in Seq(Results(b))
        /\ DOMAIN Append(q, r) = DOMAIN q \cup {n}
        /\ n \notin DOMAIN q
        /\ Append(q, r)[n] = r
        /\ \A i \in DOMAIN q : Append(q, r)[i] = q[i]
    BY <1>2, AppendFacts
  <1>4. /\ values'[b] = Append(q, r)
        /\ \A c \in Batch : c # b => values'[c] = values[c]
        /\ DOMAIN values' = Batch
    BY <1>1 DEF IInv, TypeOK
  <1>5. /\ extractor' = [extractor EXCEPT ![b] = [extractor[b] EXCEPT ![t] = "release"]]
        /\ extractor'[b] = [extractor[b] EXCEPT ![t] = "release"]
        /\ \A c \in Batch : c # b => extractor'[c] = extractor[c]
    BY DEF Produce, IInv, TypeOK
  <1>6. TypeOK'
    <2>1. \A c \in Batch : values'[c] \in Seq(Results(c))
      BY <1>3, <1>4, BatchTypes DEF IInv
    <2>2. \A c \in Batch : extractor'[c] \in [Txs(c) -> {"none", "extract", "release", "end"}]
      BY <1>2, <1>5, BatchTypes DEF IInv
    <2> QED
      BY <1>4, <1>5, <2>1, <2>2 DEF IInv, TypeOK, Produce, seenVars, Txs, Results
  <1>7. ASSUME NEW c \in Batch PROVE OnePlace(c)' /\ Counted(c)'
    <2>1. CASE c # b
      BY <2>1, <1>4, <1>5, Untouched DEF IInv, Produce, seenVars
    <2>2. CASE c = b
      <3>1. extractor[b][t] = "extract"
        BY DEF Produce
      <3>2. t \notin handled[b] \cup Queued(b)
        BY <3>1 DEF IInv, OnePlace
      <3>3. Queued(b)' = Queued(b) \cup {t}
        BY <1>2, <1>3, <1>4 DEF Queued
      <3>4. \A u \in Txs(b) : extractor'[b][u] = IF u = t THEN "release" ELSE extractor[b][u]
        BY <1>2, <1>5
      <3>5. \A u \in Txs(b) : extractor'[b][u] = "none" <=> u > next[b]
        BY <3>1, <3>4 DEF IInv, OnePlace
      <3>6. \A i, j \in DOMAIN values'[b] : values'[b][i].tx = values'[b][j].tx => i = j
        <4>1. \A i \in DOMAIN q : q[i].tx # t
          BY <3>2 DEF Queued
        <4>2. \A i, j \in DOMAIN q : q[i].tx = q[j].tx => i = j
          BY DEF IInv, OnePlace
        <4> QED
          BY <4>1, <4>2, <1>2, <1>3, <1>4
      <3>7. \A u \in handled[b] \cup Queued(b)' : extractor'[b][u] \in {"release", "end"}
        BY <3>3, <3>4, BatchTypes DEF IInv, OnePlace
      <3>8. saver[b] = "save" => /\ item[b] \in Results(b) /\ item[b].tx # t
                                 /\ extractor'[b][item[b].tx] \in {"release", "end"}
                                 /\ item[b].tx \notin handled[b] \cup Queued(b)'
        BY <3>1, <3>3, <3>4 DEF IInv, OnePlace, Results
      <3>9. OnePlace(b)'
        BY <3>2, <3>3, <3>5, <3>6, <3>7, <3>8
        DEF IInv, OnePlace, Produce, seenVars, Results, Txs
      <3>10. Counted(b)'
        BY DEF IInv, Counted, Produce, seenVars, Txs
      <3> QED
        BY <2>2, <3>9, <3>10
    <2> QED
      BY <2>1, <2>2
  <1> QED
    BY <1>6, <1>7 DEF IInv

LEMMA ReleaseInv == \A b \in Batch : \A t \in Txs(b) : IInv /\ Release(b, t) => IInv'
  <1> SUFFICES ASSUME NEW b \in Batch, NEW t \in Txs(b), IInv, Release(b, t) PROVE IInv'
    OBVIOUS
  <1>1. /\ extractor' = [extractor EXCEPT ![b] = [extractor[b] EXCEPT ![t] = "end"]]
        /\ extractor'[b] = [extractor[b] EXCEPT ![t] = "end"]
        /\ \A c \in Batch : c # b => extractor'[c] = extractor[c]
        /\ extractor[b] \in [Txs(b) -> {"none", "extract", "release", "end"}]
        /\ extractor[b][t] = "release"
    BY DEF Release, GivesBack, IInv, TypeOK
  <1>2. TypeOK'
    BY <1>1 DEF IInv, TypeOK, Release, GivesBack, seenVars, Txs, Results
  <1>3. ASSUME NEW c \in Batch PROVE OnePlace(c)' /\ Counted(c)'
    <2>1. CASE c # b
      BY <2>1, <1>1, Untouched DEF IInv, Release, seenVars
    <2>2. CASE c = b
      <3>1. \A u \in Txs(b) : extractor'[b][u] = IF u = t THEN "end" ELSE extractor[b][u]
        BY <1>1
      <3>2. handled[b] \cup Queued(b) \subseteq Txs(b) /\ Queued(b)' = Queued(b)
        BY BatchTypes DEF IInv, Release, Queued
      <3>3. OnePlace(b)'
        BY <1>1, <3>1, <3>2 DEF IInv, OnePlace, Release, seenVars, Results, Txs
      <3>4. Counted(b)'
        BY DEF IInv, Counted, Release, seenVars, Txs
      <3> QED
        BY <2>2, <3>3, <3>4
    <2> QED
      BY <2>1, <2>2
  <1> QED
    BY <1>2, <1>3 DEF IInv

LEMMA HandOnInv == \A b \in Batch : IInv /\ HandOn(b) => IInv'
  <1> SUFFICES ASSUME NEW b \in Batch, IInv, HandOn(b) PROVE IInv'
    OBVIOUS
  <1> DEFINE q == values[b]
  <1>1. q \in Seq(Results(b)) /\ q # <<>>
    BY BatchTypes DEF IInv, HandOn
  <1>2. /\ Head(q) \in Results(b) /\ Head(q) = q[1] /\ 1 \in DOMAIN q
        /\ Rest(q) \in Seq(Results(b))
        /\ \A i \in DOMAIN Rest(q) : /\ i \in Nat /\ i + 1 \in DOMAIN q /\ i + 1 # 1
                                     /\ Rest(q)[i] = q[i + 1]
    BY <1>1, RestFacts
  <1>3. /\ values' = [values EXCEPT ![b] = Rest(q)]
        /\ values'[b] = Rest(q)
        /\ \A c \in Batch : c # b => values'[c] = values[c]
        /\ item' = [item EXCEPT ![b] = Head(q)]
        /\ item'[b] = Head(q)
        /\ \A c \in Batch : c # b => item'[c] = item[c] /\ saver'[c] = saver[c]
    BY DEF HandOn, IInv, TypeOK
  <1>4. TypeOK'
    <2>1. \A c \in Batch : values'[c] \in Seq(Results(c)) /\ item'[c] \in Results(c) \cup {NoResult}
      BY <1>2, <1>3, BatchTypes DEF IInv, TypeOK
    <2> QED
      BY <1>3, <2>1 DEF IInv, TypeOK, HandOn, seenVars, Txs, Results, NoResult
  <1>5. ASSUME NEW c \in Batch PROVE OnePlace(c)' /\ Counted(c)'
    <2>1. CASE c # b
      BY <2>1, <1>3, Untouched DEF IInv, HandOn, seenVars
    <2>2. CASE c = b
      <3>1. \A i, j \in DOMAIN q : q[i].tx = q[j].tx => i = j
        BY DEF IInv, OnePlace
      <3>2. \A i, j \in DOMAIN Rest(q) : Rest(q)[i].tx = Rest(q)[j].tx => i = j
        BY <1>2, <3>1
      <3>3. \A i \in DOMAIN Rest(q) : Rest(q)[i].tx # Head(q).tx
        BY <1>2, <3>1
      <3>4. Queued(b)' \subseteq Queued(b) /\ Head(q).tx \in Queued(b) /\ Head(q).tx \notin Queued(b)'
        <4>1. /\ Queued(b)' = {Rest(q)[i].tx : i \in DOMAIN Rest(q)}
              /\ Queued(b) = {q[i].tx : i \in DOMAIN q}
          BY <1>3 DEF Queued
        <4>2. {Rest(q)[i].tx : i \in DOMAIN Rest(q)} \subseteq {q[i].tx : i \in DOMAIN q}
          BY <1>2
        <4> QED
          BY <4>1, <4>2, <1>2, <3>3
      <3>5. Head(q).tx \notin handled[b] /\ extractor[b][Head(q).tx] \in {"release", "end"}
        BY <3>4 DEF IInv, OnePlace
      <3>6. OnePlace(b)'
        BY <1>2, <1>3, <3>2, <3>4, <3>5 DEF IInv, OnePlace, HandOn, seenVars, Txs, Results
      <3>7. Counted(b)'
        BY DEF IInv, Counted, HandOn, seenVars, Txs
      <3> QED
        BY <2>2, <3>6, <3>7
    <2> QED
      BY <2>1, <2>2
  <1> QED
    BY <1>4, <1>5 DEF IInv

LEMMA QuitInv == \A b \in Batch : IInv /\ Quit(b) => IInv'
  <1> SUFFICES ASSUME NEW b \in Batch, IInv, Quit(b) PROVE IInv'
    OBVIOUS
  <1>1. TypeOK'
    BY DEF IInv, TypeOK, Quit, Txs, Results
  <1>2. ASSUME NEW c \in Batch PROVE OnePlace(c)' /\ Counted(c)'
    <2>1. CASE c # b
      BY <2>1, Untouched DEF IInv, TypeOK, Quit
    <2>2. CASE c = b
      <3>1. OnePlace(b)'
        BY DEF IInv, OnePlace, Quit, Queued, Txs, Results
      <3>2. main'[b] = "returned" /\ closed'[b] /\ quit[b]
        BY DEF IInv, TypeOK, Quit
      <3>3. Counted(b)'
        BY <3>2 DEF IInv, Counted, Quit, Txs
      <3> QED
        BY <2>2, <3>1, <3>3
    <2> QED
      BY <2>1, <2>2
  <1> QED
    BY <1>1, <1>2 DEF IInv

\* The result saveWork is busy with is a transaction of a call that is still in its select.
LEMMA BusyFacts ==
  ASSUME IInv, NEW b \in Batch, saver[b] = "save"
  PROVE  /\ item[b] \in Results(b) /\ item[b].tx \in Txs(b)
         /\ item[b].tx \notin handled[b] \cup Queued(b)
         /\ extractor[b][item[b].tx] \in {"release", "end"}
         /\ ~quit[b] /\ ~closed[b] /\ main[b] = "select" /\ Size[b] > 0
  <1>1. /\ item[b] \in Results(b) /\ item[b].tx \in Txs(b)
        /\ item[b].tx \notin handled[b] \cup Queued(b)
        /\ extractor[b][item[b].tx] \in {"release", "end"}
    BY DEF IInv, OnePlace, Results
  <1>2. Size[b] > 0 /\ next[b] # 0 /\ next[b] \in Nat
    BY <1>1, BatchTypes DEF IInv, OnePlace, Txs
  <1>3. ~quit[b] /\ ~closed[b]
    BY <1>1 DEF IInv, Counted
  <1>4. main[b] = "select"
    BY <1>2, <1>3 DEF IInv, Counted, TypeOK
  <1> QED
    BY <1>1, <1>2, <1>3, <1>4

LEMMA SaveInv == \A b \in Batch : IInv /\ Save(b) => IInv'
  <1> SUFFICES ASSUME NEW b \in Batch, IInv, Save(b) PROVE IInv'
    OBVIOUS
  <1> DEFINE t == item[b].tx
  <1>1. /\ saver[b] = "save" /\ t \in Txs(b)
        /\ t \notin handled[b] \cup Queued(b)
        /\ extractor[b][t] \in {"release", "end"}
        /\ ~quit[b] /\ ~closed[b] /\ main[b] = "select" /\ Size[b] > 0
    BY BusyFacts DEF Save
  <1>2. /\ handled' = [handled EXCEPT ![b] = @ \cup {t}]
        /\ done' = [done EXCEPT ![b] = @ + 1]
        /\ quit' = [quit EXCEPT ![b] = @ \/ IsLast(done[b] + 1, Size[b])]
        /\ item' = [item EXCEPT ![b] = NoResult]
        /\ saver' = [saver EXCEPT ![b] = "range"]
        /\ UNCHANGED <<main, next, extractor, values, closed, tokens, err>>
    BY DEF Save
  <1>3. /\ unscan' \in {unscan, [unscan EXCEPT ![b] = TRUE]}
        /\ refused' \in {refused, [refused EXCEPT ![b] = @ \cup {t}]}
        /\ \/ broken' = broken /\ failed' = failed
           \/ broken' = [broken EXCEPT ![b] = @ \cup {t}] /\ failed' = [failed EXCEPT ![b] = @ + 1]
    BY DEF Save
  <1>4. /\ handled'[b] = handled[b] \cup {t} /\ done'[b] = done[b] + 1
        /\ (quit'[b] <=> done[b] + 1 = Size[b])
        /\ saver'[b] = "range"
        /\ failed'[b] > 0 <=> broken'[b] # {}
        /\ \A c \in Batch : c # b =>
             /\ handled'[c] = handled[c] /\ done'[c] = done[c] /\ quit'[c] = quit[c]
             /\ item'[c] = item[c] /\ saver'[c] = saver[c]
             /\ broken'[c] = broken[c] /\ failed'[c] = failed[c]
    <2>1. failed[b] \in Nat /\ (failed[b] > 0 <=> broken[b] # {})
      BY DEF IInv, TypeOK, Counted
    <2>2. /\ handled'[b] = handled[b] \cup {t} /\ done'[b] = done[b] + 1
          /\ saver'[b] = "range"
          /\ \A c \in Batch : c # b =>
               /\ handled'[c] = handled[c] /\ done'[c] = done[c] /\ quit'[c] = quit[c]
               /\ item'[c] = item[c] /\ saver'[c] = saver[c]
      BY <1>2 DEF IInv, TypeOK
    <2>3. quit'[b] = (quit[b] \/ IsLast(done[b] + 1, Size[b]))
      BY <1>2 DEF IInv, TypeOK
    <2>4. quit'[b] <=> done[b] + 1 = Size[b]
      BY <1>1, <2>3 DEF IsLast
    <2>5. CASE broken' = broken /\ failed' = failed
      BY <2>1, <2>2, <2>4, <2>5
    <2>6. CASE /\ broken' = [broken EXCEPT ![b] = @ \cup {t}]
               /\ failed' = [failed EXCEPT ![b] = @ + 1]
      <3>1. broken'[b] # {} /\ failed'[b] = failed[b] + 1
        BY <2>6 DEF IInv, TypeOK
      <3>2. \A c \in Batch : c # b => broken'[c] = broken[c] /\ failed'[c] = failed[c]
        BY <2>6 DEF IInv, TypeOK
      <3> QED
        BY <2>1, <2>2, <2>4, <3>1, <3>2
    <2> QED
      BY <1>3, <2>5, <2>6
  <1>5. TypeOK'
    <2>1. done' \in [Batch -> Nat] /\ failed' \in [Batch -> Nat]
      <3>1. done' \in [Batch -> Nat]
        BY <1>2 DEF IInv, TypeOK
      <3>2. CASE failed' = failed
        BY <3>1, <3>2 DEF IInv, TypeOK
      <3>3. CASE failed' = [failed EXCEPT ![b] = @ + 1]
        BY <3>1, <3>3 DEF IInv, TypeOK
      <3> QED
        BY <1>3, <3>2, <3>3
    <2>2. /\ quit' \in [Batch -> BOOLEAN]
          /\ saver' \in [Batch -> {"range", "save", "end"}]
          /\ unscan' \in [Batch -> BOOLEAN]
      <3>1. IsLast(done[b] + 1, Size[b]) \in BOOLEAN
        BY DEF IsLast
      <3>2. (quit[b] \/ IsLast(done[b] + 1, Size[b])) \in BOOLEAN
        OBVIOUS
      <3>3. quit' \in [Batch -> BOOLEAN]
        BY <1>2, <3>2 DEF IInv, TypeOK
      <3>4. saver' \in [Batch -> {"range", "save", "end"}]
        BY <1>2 DEF IInv, TypeOK
      <3>5. unscan' \in [Batch -> BOOLEAN]
        BY <1>3 DEF IInv, TypeOK
      <3> QED
        BY <3>3, <3>4, <3>5
    <2>3. DOMAIN item' = Batch /\ \A c \in Batch : item'[c] \in Results(c) \cup {NoResult}
      BY <1>2 DEF IInv, TypeOK
    <2>4. DOMAIN handled' = Batch /\ \A c \in Batch : handled'[c] \subseteq Txs(c)
      BY <1>1, <1>2 DEF IInv, TypeOK
    <2>5. DOMAIN refused' = Batch /\ \A c \in Batch : refused'[c] \subseteq Txs(c)
      <3>1. CASE refused' = refused
        BY <3>1 DEF IInv, TypeOK
      <3>2. CASE refused' = [refused EXCEPT ![b] = @ \cup {t}]
        BY <1>1, <3>2 DEF IInv, TypeOK
      <3> QED
        BY <1>3, <3>1, <3>2
    <2>6. DOMAIN broken' = Batch /\ \A c \in Batch : broken'[c] \subseteq Txs(c)
      <3>1. CASE broken' = broken
        BY <3>1 DEF IInv, TypeOK
      <3>2. CASE broken' = [broken EXCEPT ![b] = @ \cup {t}]
        BY <1>1, <3>2 DEF IInv, TypeOK
      <3> QED
        BY <1>3, <3>1, <3>2
    <2>7. \A c \in Batch : done'[c] <= Size[c]
      <3>1. /\ Size[b] \in Nat /\ handled[b] \cup {t} \in SUBSET (1..Size[b])
            /\ t \in 1..Size[b] /\ handled[b] \in SUBSET (1..Size[b]) /\ t \notin handled[b]
            /\ done[b] = Cardinality(handled[b])
        BY <1>1, BatchTypes DEF IInv, Counted, Txs
      <3>2. done[b] + 1 = Cardinality(handled[b] \cup {t})
        BY <3>1, OneMore
      <3>3. done[b] + 1 <= Size[b]
        BY <3>1, <3>2, FullIsAll
      <3> QED
        BY <1>4, <3>3 DEF IInv, TypeOK
    <2> QED
      BY <1>2, <2>1, <2>2, <2>3, <2>4, <2>5, <2>6, <2>7 DEF IInv, TypeOK, Txs, Results, NoResult
  <1>6. ASSUME NEW c \in Batch PROVE OnePlace(c)' /\ Counted(c)'
    <2>1. CASE c # b
      BY <2>1, <1>2, <1>4, Untouched DEF IInv
    <2>2. CASE c = b
      <3>1. OnePlace(b)'
        BY <1>1, <1>2, <1>4 DEF IInv, OnePlace, Queued, Txs
      <3>2. /\ Size[b] \in Nat /\ handled[b] \in SUBSET (1..Size[b])
            /\ t \in 1..Size[b] /\ t \notin handled[b]
            /\ done[b] = Cardinality(handled[b])
        BY <1>1, BatchTypes DEF IInv, Counted, Txs
      <3>3. /\ done'[b] = Cardinality(handled'[b])
            /\ done'[b] = Size[b] <=> handled'[b] = Txs(b)
        <4>1. Cardinality(handled[b] \cup {t}) = Cardinality(handled[b]) + 1
          BY <3>2, OneMore
        <4>2. Cardinality(handled[b] \cup {t}) = Size[b] <=> handled[b] \cup {t} = 1..Size[b]
          <5>1. handled[b] \cup {t} \in SUBSET (1..Size[b])
            BY <3>2
          <5> QED
            BY <3>2, <5>1, FullIsAll
        <4> QED
          BY <1>4, <3>2, <4>1, <4>2 DEF Txs
      <3>4. Counted(b)'
        BY <1>1, <1>2, <1>4, <3>3 DEF IInv, Counted, Txs
      <3> QED
        BY <2>2, <3>1, <3>4
    <2> QED
      BY <2>1, <2>2
  <1> QED
    BY <1>5, <1>6 DEF IInv

LEMMA SaverEndsInv == \A b \in Batch : IInv /\ SaverEnds(b) => IInv'
  <1> SUFFICES ASSUME NEW b \in Batch, IInv, SaverEnds(b) PROVE IInv'
    OBVIOUS
  <1>1. TypeOK'
    BY DEF IInv, TypeOK, SaverEnds, seenVars, Txs, Results
  <1>2. ASSUME NEW c \in Batch PROVE OnePlace(c)' /\ Counted(c)'
    <2>1. CASE c # b
      BY <2>1, Untouched DEF IInv, TypeOK, SaverEnds, seenVars
    <2>2. CASE c = b
      <3>1. saver'[b] = "end"
        BY DEF IInv, TypeOK, SaverEnds
      <3> QED
        BY <2>2, <3>1 DEF IInv, OnePlace, Counted, SaverEnds, seenVars, Queued, Txs, Results
    <2> QED
      BY <2>1, <2>2
  <1> QED
    BY <1>1, <1>2 DEF IInv

\* IInv is an invariant of the pipeline.
THEOREM Inductive == Spec => []IInv
  <1>1. IInv /\ [Next]_vars => IInv'
    <2> SUFFICES ASSUME IInv, [Next]_vars PROVE IInv'
      OBVIOUS
    <2>1. CASE Next
      BY <2>1, CallInv, StartInv, ProduceInv, ReleaseInv, HandOnInv, QuitInv, SaveInv,
         SaverEndsInv DEF Next
    <2>2. CASE UNCHANGED vars
      <3>1. TypeOK'
        BY <2>2 DEF IInv, TypeOK, Txs, Results, NoResult, vars, batchVars, seenVars
      <3>2. \A b \in Batch : OnePlace(b)' /\ Counted(b)'
        BY <2>2, Untouched DEF IInv, vars, batchVars, seenVars
      <3> QED
        BY <3>1, <3>2 DEF IInv
    <2> QED
      BY <2>1, <2>2
  <1> QED
    BY <1>1, InitInv, PTL DEF Spec

\* The variables keep their types.
THEOREM TypeCorrect == Spec => []TypeOK
  BY Inductive, PTL DEF IInv

\* A call that has returned has left nothing running that could use its closed channels:
\* no send on a closed channel, no second close of quit, whatever the interleaving.
THEOREM ReturnIsQuiet == Spec => []QuietReturn
  <1>1. IInv => QuietReturn
    <2> SUFFICES ASSUME IInv, NEW b \in Batch, closed[b]
                 PROVE  /\ next[b] = Size[b]
                        /\ \A t \in Txs(b) : extractor[b][t] \in {"release", "end"}
                        /\ values[b] = <<>>
                        /\ saver[b] # "save"
      BY DEF QuietReturn
    <2>1. handled[b] = Txs(b) /\ Size[b] > 0
      BY DEF IInv, Counted
    <2>2. \A t \in Txs(b) : extractor[b][t] \in {"release", "end"}
      BY <2>1 DEF IInv, OnePlace
    <2>3. next[b] = Size[b]
      <3>1. Size[b] \in Txs(b) /\ next[b] \in Nat /\ next[b] <= Size[b] /\ Size[b] \in Nat
        BY <2>1, BatchTypes DEF IInv, Txs
      <3>2. ~(Size[b] > next[b])
        BY <2>2, <3>1 DEF IInv, OnePlace
      <3> QED
        BY <3>1, <3>2
    <2>4. values[b] = <<>>
      <3>1. SUFFICES ASSUME values[b] # <<>> PROVE FALSE
        OBVIOUS
      <3>2. 1 \in DOMAIN values[b] /\ values[b][1] \in Results(b)
        BY <3>1, BatchTypes DEF IInv
      <3>3. values[b][1].tx \in Queued(b) /\ values[b][1].tx \in Txs(b)
        BY <3>2 DEF Queued, Results
      <3> QED
        BY <2>1, <3>3 DEF IInv, OnePlace
    <2>5. saver[b] # "save"
      BY BusyFacts
    <2> QED
      BY <2>2, <2>3, <2>4, <2>5
  <1> QED
    BY <1>1, Inductive, PTL

-----------------------------------------------------------------------------
(* The pipeline keeps the promise of BatchPromise.                          *)

\* A step that leaves main and the promise's own variables alone is a stutter there.
LEMMA StutterStep ==
  ASSUME UNCHANGED <<main, handled, broken, err>>
  PROVE  UNCHANGED P!promiseVars
  BY DEF P!promiseVars, Phase

LEMMA CallOpens == \A b \in Batch : IInv /\ Call(b) => P!Open(b)
  <1> SUFFICES ASSUME NEW b \in Batch, IInv, Call(b) PROVE P!Open(b)
    OBVIOUS
  <1>1. /\ main[b] = "new"
        /\ main' = [main EXCEPT ![b] = IF Size[b] = 0 THEN "returned" ELSE "select"]
        /\ UNCHANGED <<handled, broken, err>>
    BY DEF Call, seenVars
  <1>2. Phase[b] = "new"
    BY <1>1 DEF Phase
  <1>3. Phase' = [Phase EXCEPT ![b] = IF Size[b] = 0 THEN "returned" ELSE "open"]
    BY <1>1 DEF Phase, IInv, TypeOK
  <1> QED
    BY <1>1, <1>2, <1>3 DEF P!Open

LEMMA QuitReturns == \A b \in Batch : IInv /\ Quit(b) => P!Return(b)
  <1> SUFFICES ASSUME NEW b \in Batch, IInv, Quit(b) PROVE P!Return(b)
    OBVIOUS
  <1>1. /\ main[b] = "select" /\ quit[b]
        /\ main' = [main EXCEPT ![b] = "returned"]
        /\ err' = [err EXCEPT ![b] = failed[b] > 0]
        /\ UNCHANGED <<handled, broken>>
    BY DEF Quit
  <1>2. Phase[b] = "open"
    BY <1>1 DEF Phase
  <1>3. Phase' = [Phase EXCEPT ![b] = "returned"]
    BY <1>1 DEF Phase, IInv, TypeOK
  <1>4. handled[b] = 1..Size[b]
    BY <1>1 DEF IInv, Counted, Txs
  <1>5. (failed[b] > 0) = (broken[b] # {})
    BY DEF IInv, Counted
  <1> QED
    BY <1>1, <1>2, <1>3, <1>4, <1>5 DEF P!Return

LEMMA SaveHandles == \A b \in Batch : IInv /\ Save(b) => P!Handle(b, item[b].tx)
  <1> SUFFICES ASSUME NEW b \in Batch, IInv, Save(b) PROVE P!Handle(b, item[b].tx)
    OBVIOUS
  <1>1. main[b] = "select" /\ item[b].tx \notin handled[b]
    BY BusyFacts DEF Save
  <1>2. /\ handled' = [handled EXCEPT ![b] = @ \cup {item[b].tx}]
        /\ broken' \in {broken, [broken EXCEPT ![b] = @ \cup {item[b].tx}]}
        /\ UNCHANGED <<main, err>>
    BY DEF Save
  <1>3. Phase[b] = "open" /\ UNCHANGED Phase
    BY <1>1, <1>2 DEF Phase
  <1> QED
    BY <1>1, <1>2, <1>3 DEF P!Handle

\* BatchExtractTransactions does what BlockScan takes it to do: every transaction of the
\* block is handled exactly once before the call returns, and the error it returns says
\* whether an extraction failed, for every interleaving of its goroutines.
THEOREM PromiseKept == Spec => KeepsPromise
  <1>1. Init => P!PromiseInit
    BY DEF Init, P!PromiseInit, Phase
  <1>2. IInv /\ [Next]_vars => [P!PromiseNext]_(P!promiseVars)
    <2> SUFFICES ASSUME IInv, [Next]_vars
                 PROVE  P!PromiseNext \/ UNCHANGED P!promiseVars
      OBVIOUS
    <2>1. ASSUME NEW b \in Batch, Call(b) PROVE P!PromiseNext
      BY <2>1, CallOpens DEF P!PromiseNext
    <2>2. ASSUME NEW b \in Batch, Quit(b) PROVE P!PromiseNext
      BY <2>2, QuitReturns DEF P!PromiseNext
    <2>3. ASSUME NEW b \in Batch, Save(b) PROVE P!PromiseNext
      <3>1. item[b].tx \in 1..Size[b]
        BY <2>3, BusyFacts DEF Save, Txs
      <3> QED
        BY <2>3, <3>1, SaveHandles DEF P!PromiseNext
    <2>4. ASSUME NEW b \in Batch, Start(b) \/ HandOn(b) \/ SaverEnds(b)
          PROVE  UNCHANGED P!promiseVars
      BY <2>4, StutterStep DEF Start, HandOn, SaverEnds, seenVars
    <2>5. ASSUME NEW b \in Batch, NEW t \in Txs(b), Produce(b, t) \/ Release(b, t)
          PROVE  UNCHANGED P!promiseVars
      BY <2>5, StutterStep DEF Produce, Release, seenVars
    <2>6. CASE UNCHANGED vars
      BY <2>6, StutterStep DEF vars, batchVars, seenVars
    <2> QED
      BY <2>1, <2>2, <2>3, <2>4, <2>5, <2>6 DEF Next
  <1> QED
    BY <1>1, <1>2, Inductive, PTL DEF Spec, KeepsPromise, P!Promise

-----------------------------------------------------------------------------
(* The tokens of extractingCH.                                              *)

Holding == UNION {{b} \X Running(b) : b \in Batch}

\* A goroutine holds a token from Start to Release; that they are finitely many is part of
\* the invariant.
TokenInv == IsFiniteSet(Holding) /\ TokenBound

LEMMA HoldingIs ==
  \A x : x \in Holding <=> \E b \in Batch : \E t \in Running(b) : x = <<b, t>>
  BY DEF Holding

LEMMA HoldingIsNext ==
  \A x : x \in Holding' <=> \E b \in Batch : \E t \in Running(b)' : x = <<b, t>>
  BY DEF Holding

\* One goroutine changes its state.
LEMMA OneMoves ==
  ASSUME TypeOK, NEW b \in Batch, NEW t \in Txs(b), NEW v,
         extractor' = [extractor EXCEPT ![b][t] = v]
  PROVE  /\ \A u \in Txs(b) : extractor'[b][u] = IF u = t THEN v ELSE extractor[b][u]
         /\ \A c \in Batch : c # b => Running(c)' = Running(c)
  <1>1. extractor[b] \in [Txs(b) -> {"none", "extract", "release", "end"}]
    BY DEF TypeOK
  <1>2. extractor'[b] = [extractor[b] EXCEPT ![t] = v]
    BY DEF TypeOK
  <1>3. \A c \in Batch : c # b => extractor'[c] = extractor[c]
    BY DEF TypeOK
  <1>4. \A u \in Txs(b) : extractor'[b][u] = IF u = t THEN v ELSE extractor[b][u]
    BY <1>1, <1>2
  <1> QED
    BY <1>3, <1>4 DEF Running, Txs

\* No other goroutine starts or ends.
LEMMA HoldingStays ==
  ASSUME \A b \in Batch : Running(b)' = Running(b), tokens' = tokens, TokenInv
  PROVE  TokenInv'
  <1>1. Holding' = Holding
    BY HoldingIs, HoldingIsNext
  <1> QED
    BY <1>1 DEF TokenInv, TokenBound, Holding

LEMMA TokenInit == Init => TokenInv
  <1> SUFFICES ASSUME Init PROVE TokenInv
    OBVIOUS
  <1>1. Holding = {}
    <2>1. \A b \in Batch : \A t \in Txs(b) : extractor[b][t] = "none"
      BY DEF Init
    <2>2. \A b \in Batch : Running(b) = {}
      BY <2>1 DEF Running
    <2> QED
      BY <2>2, HoldingIs
  <1>2. IsFiniteSet(Holding) /\ Cardinality(Holding) = 0
    BY <1>1, FS_EmptySet
  <1> QED
    BY <1>2, BatchAssumption DEF TokenInv, TokenBound, Holding, Init

LEMMA TokenStart == \A b \in Batch : IInv /\ TokenInv /\ Start(b) => TokenInv'
  <1> SUFFICES ASSUME NEW b \in Batch, IInv, TokenInv, Start(b) PROVE TokenInv'
    OBVIOUS
  <1>1. PICK t \in Txs(b) : t = next[b] + 1
    <2>1. next[b] \in Nat /\ Size[b] \in Nat
      BY BatchTypes DEF IInv, TypeOK
    <2>2. next[b] + 1 \in Txs(b)
      BY <2>1 DEF Start, Txs
    <2> QED
      BY <2>2
  <1>2. extractor[b][t] = "none"
    <2>1. t > next[b]
      BY <1>1, BatchTypes DEF IInv, TypeOK
    <2> QED
      BY <2>1 DEF IInv, OnePlace
  <1>3. extractor' = [extractor EXCEPT ![b][t] = "extract"]
    BY <1>1 DEF Start
  <1>4. /\ \A c \in Batch : c # b => Running(c)' = Running(c)
        /\ Running(b)' = Running(b) \cup {t} /\ t \notin Running(b)
    <2>1. /\ \A u \in Txs(b) : extractor'[b][u] = IF u = t THEN "extract" ELSE extractor[b][u]
          /\ \A c \in Batch : c # b => Running(c)' = Running(c)
      BY <1>3, OneMoves DEF IInv
    <2>2. Running(b)' = {u \in Txs(b) : extractor'[b][u] \in {"extract", "release"}}
      BY DEF Running, Txs
    <2> QED
      BY <1>2, <2>1, <2>2 DEF Running
  <1>5. Holding' = Holding \cup {<<b, t>>} /\ <<b, t>> \notin Holding
    BY <1>4, HoldingIs, HoldingIsNext
  <1>6. IsFiniteSet(Holding') /\ Cardinality(Holding') = Cardinality(Holding) + 1
    BY <1>5, FS_AddElement DEF TokenInv
  <1>7. tokens' = tokens + 1 /\ tokens < MaxExtracting /\ tokens \in Int
    BY DEF Start, Room, IInv, TypeOK
  <1> QED
    BY <1>6, <1>7, BatchAssumption DEF TokenInv, TokenBound, Holding

LEMMA TokenRelease ==
  \A b \in Batch : \A t \in Txs(b) : IInv /\ TokenInv /\ Release(b, t) => TokenInv'
  <1> SUFFICES ASSUME NEW b \in Batch, NEW t \in Txs(b), IInv, TokenInv, Release(b, t)
               PROVE  TokenInv'
    OBVIOUS
  <1>1. /\ \A u \in Txs(b) : extractor'[b][u] = IF u = t THEN "end" ELSE extractor[b][u]
        /\ \A c \in Batch : c # b => Running(c)' = Running(c)
    BY OneMoves DEF IInv, Release
  <1>2. Running(b)' = {u \in Txs(b) : extractor'[b][u] \in {"extract", "release"}}
    BY DEF Running, Txs
  <1>3. Running(b)' = Running(b) \ {t} /\ t \in Running(b)
    BY <1>1, <1>2 DEF Running, Release
  <1>4. Holding' = Holding \ {<<b, t>>} /\ <<b, t>> \in Holding
    BY <1>1, <1>3, HoldingIs, HoldingIsNext
  <1>5. IsFiniteSet(Holding') /\ Cardinality(Holding') = Cardinality(Holding) - 1
    BY <1>4, FS_RemoveElement DEF TokenInv
  <1>6. tokens' = tokens - 1 /\ tokens \in Int
    BY DEF Release, GivesBack, IInv, TypeOK
  <1> QED
    BY <1>5, <1>6, BatchAssumption DEF TokenInv, TokenBound, Holding

LEMMA TokensHeld == Spec => []TokenInv
  <1>1. IInv /\ TokenInv /\ [Next]_vars => TokenInv'
    <2> SUFFICES ASSUME IInv, TokenInv, [Next]_vars PROVE TokenInv'
      OBVIOUS
    <2>1. ASSUME NEW b \in Batch, Call(b) \/ HandOn(b) \/ Quit(b) \/ Save(b) \/ SaverEnds(b)
          PROVE  TokenInv'
      <3>1. extractor' = extractor /\ tokens' = tokens
        BY <2>1 DEF Call, HandOn, Quit, Save, SaverEnds, seenVars
      <3> QED
        BY <3>1, HoldingStays DEF Running, Txs
    <2>2. ASSUME NEW b \in Batch, NEW t \in Txs(b), Produce(b, t)
          PROVE  TokenInv'
      <3>1. /\ \A u \in Txs(b) : extractor'[b][u] = IF u = t THEN "release"
                                                             ELSE extractor[b][u]
            /\ \A c \in Batch : c # b => Running(c)' = Running(c)
        BY <2>2, OneMoves DEF IInv, Produce
      <3>2. Running(b)' = {u \in Txs(b) : extractor'[b][u] \in {"extract", "release"}}
        BY DEF Running, Txs
      <3>3. Running(b)' = Running(b) /\ tokens' = tokens
        BY <2>2, <3>1, <3>2 DEF Running, Produce
      <3> QED
        BY <3>1, <3>3, HoldingStays
    <2>3. CASE UNCHANGED vars
      BY <2>3, HoldingStays DEF Running, Txs, vars, batchVars
    <2> QED
      BY <2>1, <2>2, <2>3, TokenStart, TokenRelease DEF Next
  <1> QED
    BY <1>1, TokenInit, Inductive, PTL DEF Spec

\* No more goroutines run than extractingCH has room for, and each gives its token back.
THEOREM TokensBounded == Spec => []TokenBound
  BY TokensHeld, PTL DEF TokenInv
-----------------------------------------------------------------------------
(* A call is never stuck.                                                   *)

\* A batch none of whose own state changes keeps its results where they are.
LEMMA PlacedStays ==
  ASSUME NEW c \in Batch, Placed(c),
         main'[c] = main[c], extractor'[c] = extractor[c], values'[c] = values[c],
         saver'[c] = saver[c], item'[c] = item[c], closed'[c] = closed[c],
         handled'[c] = handled[c]
  PROVE  Placed(c)'
  BY DEF Placed, Queued, InHand, Txs

LEMMA PlaceInit == Init => PlaceInv
  BY DEF Init, PlaceInv, Placed, Txs

\* The steps of extractWork and of the caller move no result.
LEMMA PlaceCall == \A b \in Batch : IInv /\ PlaceInv /\ (Call(b) \/ Quit(b)) => PlaceInv'
  <1> SUFFICES ASSUME NEW b \in Batch, IInv, PlaceInv, Call(b) \/ Quit(b), NEW c \in Batch
               PROVE  Placed(c)'
    BY DEF PlaceInv
  <1>1. UNCHANGED <<extractor, values, saver, item, handled>>
    BY DEF Call, Quit, seenVars
  <1>2. c # b => main'[c] = main[c] /\ closed'[c] = closed[c]
    BY DEF Call, Quit, IInv, TypeOK
  <1>3. /\ main'[b] = "select" => Size[b] > 0
        /\ closed[b] => closed'[b]
    BY BatchAssumption DEF Call, Quit, IInv, TypeOK
  <1>4. Placed(c)
    BY DEF PlaceInv
  <1> QED
    BY <1>1, <1>2, <1>3, <1>4, PlacedStays DEF Placed, Queued, InHand, Txs

LEMMA PlaceStart == \A b \in Batch : IInv /\ PlaceInv /\ Start(b) => PlaceInv'
  <1> SUFFICES ASSUME NEW b \in Batch, IInv, PlaceInv, Start(b), NEW c \in Batch
               PROVE  Placed(c)'
    BY DEF PlaceInv
  <1>1. UNCHANGED <<main, values, saver, item, closed, handled>>
    BY DEF Start, seenVars
  <1>2. /\ next[b] + 1 \in Txs(b)
        /\ extractor' = [extractor EXCEPT ![b][next[b] + 1] = "extract"]
    BY BatchTypes DEF Start, IInv, Txs
  <1>3. /\ \A u \in Txs(b) : extractor'[b][u] \in {"extract", extractor[b][u]}
        /\ c # b => extractor'[c] = extractor[c]
    BY <1>2, OneMoves DEF IInv, TypeOK
  <1>4. Placed(c)
    BY DEF PlaceInv
  <1> QED
    BY <1>1, <1>3, <1>4, PlacedStays DEF Placed, Queued, InHand, Txs

\* The goroutine that gets its result off finds it in the queue.
LEMMA PlaceProduce ==
  \A b \in Batch : \A t \in Txs(b) : IInv /\ PlaceInv /\ Produce(b, t) => PlaceInv'
  <1> SUFFICES ASSUME NEW b \in Batch, NEW t \in Txs(b), IInv, PlaceInv, Produce(b, t),
                      NEW c \in Batch
               PROVE  Placed(c)'
    BY DEF PlaceInv
  <1>1. PICK ok \in BOOLEAN :
          values' = [values EXCEPT ![b] = Append(values[b], [tx |-> t, ok |-> ok])]
    BY DEF Produce
  <1> DEFINE r == [tx |-> t, ok |-> ok]
             q == values[b]
             n == Len(q) + 1
  <1>2. q \in Seq(Results(b)) /\ r \in Results(b) /\ r.tx = t
    BY BatchTypes DEF IInv, Results
  <1>3. /\ DOMAIN Append(q, r) = DOMAIN q \cup {n}
        /\ Append(q, r)[n] = r
        /\ \A i \in DOMAIN q : Append(q, r)[i] = q[i]
    BY <1>2, AppendFacts
  <1>4. values'[b] = Append(q, r) /\ (c # b => values'[c] = values[c])
    BY <1>1 DEF IInv, TypeOK
  <1>5. Queued(b)' = Queued(b) \cup {t}
    BY <1>2, <1>3, <1>4 DEF Queued
  <1>6. /\ \A u \in Txs(b) : extractor'[b][u] = IF u = t THEN "release" ELSE extractor[b][u]
        /\ c # b => extractor'[c] = extractor[c]
    BY OneMoves DEF Produce, IInv, TypeOK
  <1>7. UNCHANGED <<main, saver, item, closed, handled>>
    BY DEF Produce, seenVars
  <1>8. Placed(c)
    BY DEF PlaceInv
  <1>9. CASE c = b
    BY <1>5, <1>6, <1>7, <1>8, <1>9 DEF Placed, InHand, Txs
  <1>10. CASE c # b
    BY <1>4, <1>6, <1>7, <1>8, <1>10, PlacedStays
  <1> QED
    BY <1>9, <1>10

LEMMA PlaceRelease ==
  \A b \in Batch : \A t \in Txs(b) : IInv /\ PlaceInv /\ Release(b, t) => PlaceInv'
  <1> SUFFICES ASSUME NEW b \in Batch, NEW t \in Txs(b), IInv, PlaceInv, Release(b, t),
                      NEW c \in Batch
               PROVE  Placed(c)'
    BY DEF PlaceInv
  <1>1. /\ \A u \in Txs(b) : extractor'[b][u] = IF u = t THEN "end" ELSE extractor[b][u]
        /\ c # b => extractor'[c] = extractor[c]
    BY OneMoves DEF Release, IInv, TypeOK
  <1>2. extractor[b][t] = "release" /\ UNCHANGED <<main, values, saver, item, closed, handled>>
    BY DEF Release, seenVars
  <1>3. Placed(c)
    BY DEF PlaceInv
  <1> QED
    BY <1>1, <1>2, <1>3, PlacedStays DEF Placed, Queued, InHand, Txs

\* Every result of the queue is its head or one of the rest.
LEMMA HeadOrRest ==
  ASSUME NEW R, NEW q \in Seq(R), q # <<>>, NEW i \in DOMAIN q, i # 1
  PROVE  i - 1 \in DOMAIN Rest(q) /\ Rest(q)[i - 1] = q[i]
  BY DEF Rest

\* The head of the queue goes into the hands of saveWork.
LEMMA PlaceHandOn == \A b \in Batch : IInv /\ PlaceInv /\ HandOn(b) => PlaceInv'
  <1> SUFFICES ASSUME NEW b \in Batch, IInv, PlaceInv, HandOn(b), NEW c \in Batch
               PROVE  Placed(c)'
    BY DEF PlaceInv
  <1> DEFINE q == values[b]
  <1>1. q \in Seq(Results(b)) /\ q # <<>> /\ Head(q) = q[1]
    BY BatchTypes, RestFacts DEF IInv, HandOn
  <1>2. /\ values'[b] = Rest(q) /\ item'[b] = Head(q) /\ saver'[b] = "save"
        /\ c # b => values'[c] = values[c] /\ item'[c] = item[c] /\ saver'[c] = saver[c]
    BY DEF HandOn, IInv, TypeOK
  <1>3. saver[b] = "range" /\ UNCHANGED <<main, extractor, closed, handled>>
    BY DEF HandOn, seenVars
  <1>4. Queued(b) \subseteq Queued(b)' \cup {Head(q).tx}
    <2> SUFFICES ASSUME NEW i \in DOMAIN q, i # 1 PROVE q[i].tx \in Queued(b)'
      BY <1>1 DEF Queued
    <2>1. i - 1 \in DOMAIN Rest(q) /\ Rest(q)[i - 1] = q[i]
      BY <1>1, HeadOrRest
    <2> QED
      BY <2>1, <1>2 DEF Queued
  <1>5. InHand(b)' = {Head(q).tx} /\ InHand(b) = {}
    BY <1>2, <1>3 DEF InHand
  <1>6. Placed(c)
    BY DEF PlaceInv
  <1>7. CASE c = b
    BY <1>2, <1>3, <1>4, <1>5, <1>6, <1>7 DEF Placed, Txs
  <1>8. CASE c # b
    BY <1>2, <1>3, <1>6, <1>8, PlacedStays
  <1> QED
    BY <1>7, <1>8

\* A result saveWork is done with has been handled.
LEMMA PlaceSave == \A b \in Batch : IInv /\ PlaceInv /\ Save(b) => PlaceInv'
  <1> SUFFICES ASSUME NEW b \in Batch, IInv, PlaceInv, Save(b), NEW c \in Batch
               PROVE  Placed(c)'
    BY DEF PlaceInv
  <1>1. /\ handled'[b] = handled[b] \cup {item[b].tx} /\ saver'[b] = "range"
        /\ c # b => handled'[c] = handled[c] /\ item'[c] = item[c] /\ saver'[c] = saver[c]
    BY DEF Save, IInv, TypeOK
  <1>2. saver[b] = "save" /\ UNCHANGED <<main, extractor, values, closed>>
    BY DEF Save
  <1>3. Queued(b)' = Queued(b) /\ InHand(b) = {item[b].tx}
    BY <1>2 DEF Queued, InHand
  <1>4. Placed(c)
    BY DEF PlaceInv
  <1>5. CASE c = b
    BY <1>1, <1>2, <1>3, <1>4, <1>5 DEF Placed, Txs
  <1>6. CASE c # b
    BY <1>1, <1>2, <1>4, <1>6, PlacedStays
  <1> QED
    BY <1>5, <1>6

LEMMA PlaceSaverEnds == \A b \in Batch : IInv /\ PlaceInv /\ SaverEnds(b) => PlaceInv'
  <1> SUFFICES ASSUME NEW b \in Batch, IInv, PlaceInv, SaverEnds(b), NEW c \in Batch
               PROVE  Placed(c)'
    BY DEF PlaceInv
  <1>1. /\ saver[b] = "range" /\ closed[b] /\ saver'[b] = "end"
        /\ c # b => saver'[c] = saver[c]
        /\ UNCHANGED <<main, extractor, values, item, closed, handled>>
    BY DEF SaverEnds, seenVars, IInv, TypeOK
  <1>2. Placed(c)
    BY DEF PlaceInv
  <1> QED
    BY <1>1, <1>2, PlacedStays DEF Placed, Queued, InHand, Txs

\* If no goroutine of the batch is still to get its result off, none is to be started and
\* saveWork has nothing to do, then all is handled and quit is closed.
LEMMA IdleMeansDone ==
  ASSUME IInv, PlaceInv, NEW b \in Batch, main[b] = "select", saver[b] # "save",
         values[b] = <<>>, next[b] = Size[b],
         \A t \in Txs(b) : extractor[b][t] # "extract"
  PROVE  quit[b]
  <1>1. \A t \in Txs(b) : extractor[b][t] \in {"release", "end"}
    BY BatchTypes DEF IInv, OnePlace, Txs
  <1>2. Queued(b) = {} /\ InHand(b) = {}
    BY DEF Queued, InHand
  <1>3. Size[b] > 0 /\ Txs(b) \subseteq handled[b]
    BY <1>1, <1>2 DEF PlaceInv, Placed
  <1> QED
    BY <1>3, BatchTypes DEF IInv, Counted, Txs

\* When extractingCH is full, one of the goroutines that hold its tokens can go on.
LEMMA FullMovesOn ==
  ASSUME IInv, PlaceInv, TokenInv, ~Room
  PROVE  TokenComesBack
  <1>1. Holding # {}
    <2>1. tokens > 0
      BY BatchAssumption DEF IInv, TypeOK, Room
    <2> QED
      BY <2>1, FS_EmptySet DEF TokenInv, TokenBound, Holding
  <1>2. PICK c \in Batch : \E t \in Txs(c) : extractor[c][t] \in {"extract", "release"}
    BY <1>1, HoldingIs DEF Running
  <1>3. PICK t \in Txs(c) : extractor[c][t] \in {"extract", "release"}
    BY <1>2
  <1>4. CASE extractor[c][t] = "release"
    BY <1>4 DEF TokenComesBack
  <1>5. CASE extractor[c][t] = "extract"
    <2>1. t \notin handled[c]
      BY <1>5 DEF IInv, OnePlace
    <2>2. ~closed[c] /\ Size[c] > 0
      BY <2>1, BatchAssumption DEF IInv, Counted, Txs
    <2>3. next[c] # 0
      BY <1>5, BatchTypes DEF IInv, OnePlace, Txs
    <2>4. main[c] = "select"
      BY <2>2, <2>3 DEF IInv, Counted, TypeOK
    <2> QED
      BY <1>5, <2>4 DEF TokenComesBack, TakesResults
  <1> QED
    BY <1>3, <1>4, <1>5

\* The calls of BatchExtractTransactions never all wait for each other, nor for a token that
\* nobody gives back: a call that has not returned can go on or gets a token.
THEOREM NeverWedged == Spec => []NeverStuck
  <1>1. IInv /\ PlaceInv /\ [Next]_vars => PlaceInv'
    <2> SUFFICES ASSUME IInv, PlaceInv, [Next]_vars PROVE PlaceInv'
      OBVIOUS
    <2>1. CASE Next
      BY <2>1, PlaceCall, PlaceStart, PlaceProduce, PlaceRelease, PlaceHandOn, PlaceSave,
         PlaceSaverEnds DEF Next
    <2>2. CASE UNCHANGED vars
      BY <2>2, PlacedStays DEF PlaceInv, vars, batchVars, seenVars
    <2> QED
      BY <2>1, <2>2
  <1>2. IInv /\ PlaceInv /\ TokenInv => NeverStuck
    <2> SUFFICES ASSUME IInv, PlaceInv, TokenInv, NEW b \in Batch, main[b] = "select",
                        ~CanGoOn(b)
                 PROVE  next[b] < Size[b] /\ (Room \/ TokenComesBack)
      BY DEF NeverStuck
    <2>1. /\ ~quit[b] /\ saver[b] # "save"
          /\ ~(saver[b] = "range" /\ values[b] # <<>>)
          /\ \A t \in Txs(b) : extractor[b][t] # "extract"
      BY DEF CanGoOn, TakesResults
    <2>2. saver[b] = "range"
      BY <2>1 DEF IInv, TypeOK, Counted, PlaceInv, Placed
    <2>3. next[b] # Size[b]
      BY <2>1, <2>2, IdleMeansDone
    <2> QED
      BY <2>3, BatchTypes, FullMovesOn DEF IInv
  <1>3. Spec => []TokenInv
    BY TokensHeld
  <1> QED
    BY <1>1, <1>2, <1>3, PlaceInit, Inductive, PTL DEF Spec

=============================================================================
