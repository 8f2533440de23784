-------------------------- MODULE ChainFollowerProofs --------------------------
(* Proofs about ChainFollower: from the order of its steps alone, what the    *)
(* observers hold is never left with a gap, for every tree of chains.         *)
EXTENDS ChainFollower, TLAPS

\* Chains start at block 1, and a hash commits to the block's whole history.
Tree ==
  /\ \A c \in Chains : \E n \in Nat : DOMAIN c = 1..n
  /\ \A c, d \in Chains : \A i \in DOMAIN c, j \in DOMAIN d :
       c[i] = d[j] => i = j /\ \A k \in 1..i : c[k] = d[k]

-----------------------------------------------------------------------------
(* Facts about the chains.                                                  *)

LEMMA Below ==
  ASSUME Tree, NEW c \in Chains, NEW h \in DOMAIN c
  PROVE  /\ h \in Nat /\ h >= 1
         /\ \A i \in 1..h : i \in DOMAIN c
  BY DEF Tree

\* A block behind a position is on every chain through it, at one height.
LEMMA BehindEverywhere ==
  ASSUME Tree, NEW pos, NEW b, Behind(pos, b), NEW c \in Chains, At(c, pos)
  PROVE  \E i \in 1..pos.height : c[i] = b
  <1>1. PICK d \in Chains : At(d, pos) /\ \E i \in 1..pos.height : d[i] = b
    BY DEF Behind
  <1>2. \A k \in 1..pos.height : c[k] = d[k]
    BY <1>1 DEF At, Tree
  <1> QED
    BY <1>1, <1>2

\* Nothing is behind no block.
LEMMA NothingBehindNone ==
  ASSUME Tree, NEW b
  PROVE  ~Behind(NoHead, b)
  <1>1. ASSUME NEW c \in Chains, 0 \in DOMAIN c PROVE FALSE
    <2>1. PICK n \in Nat : DOMAIN c = 1..n
      BY DEF Tree
    <2> QED
      BY <1>1, <2>1
  <1> QED
    BY <1>1 DEF Behind, At, NoHead

\* A position is on a chain, and is behind itself.
LEMMA PositionFacts ==
  ASSUME Tree, NEW pos \in Positions
  PROVE  /\ \E c \in Chains : At(c, pos)
         /\ pos.height \in Nat /\ pos.height >= 1
         /\ Behind(pos, pos.hash)
  <1>1. PICK c \in Chains : \E i \in DOMAIN c : pos = [height |-> i, hash |-> c[i]]
    BY DEF Positions
  <1>2. PICK i \in DOMAIN c : pos = [height |-> i, hash |-> c[i]]
    BY <1>1
  <1>3. i \in Nat /\ i >= 1 /\ i \in 1..i
    BY Below
  <1> QED
    BY <1>2, <1>3 DEF At, Behind

\* What is unbroken is behind.
LEMMA UnbrokenBehind ==
  ASSUME NEW pos, NEW given, Unbroken(pos, given), NEW b \in given
  PROVE  Behind(pos, b)
  BY DEF Unbroken, Behind

\* And it is so on every chain through the position.
LEMMA UnbrokenEverywhere ==
  ASSUME Tree, NEW pos, NEW given, Unbroken(pos, given), NEW b \in given,
         NEW c \in Chains, At(c, pos)
  PROVE  \E i \in 1..pos.height : c[i] = b /\ \A j \in i..pos.height : c[j] \in given
  <1>1. PICK d \in Chains :
          At(d, pos) /\ \E i \in 1..pos.height : d[i] = b /\ \A j \in i..pos.height : d[j] \in given
    BY DEF Unbroken
  <1>2. PICK i \in 1..pos.height : d[i] = b /\ \A j \in i..pos.height : d[j] \in given
    BY <1>1
  <1>3. \A k \in 1..pos.height : c[k] = d[k]
    BY <1>1 DEF At, Tree
  <1>4. \A j \in i..pos.height : j \in 1..pos.height
    BY <1>1, Below DEF At
  <1> QED
    BY <1>2, <1>3, <1>4

\* The empty set is unbroken; so is a position's own block.
LEMMA UnbrokenSmall ==
  ASSUME Tree, NEW pos \in Positions, NEW given, given \subseteq {pos.hash}
  PROVE  Unbroken(pos, given)
  <1> SUFFICES ASSUME pos.hash \in given
               PROVE  \E c \in Chains : At(c, pos) /\ \E i \in 1..pos.height :
                        c[i] = pos.hash /\ \A j \in i..pos.height : c[j] \in given
    BY DEF Unbroken
  <1>1. PICK c \in Chains : At(c, pos)
    BY PositionFacts
  <1>2. pos.height \in 1..pos.height /\ \A j \in pos.height..pos.height : j = pos.height
    BY PositionFacts
  <1> QED
    BY <1>1, <1>2 DEF At

\* Without a head, nothing is behind it.
LEMMA NoHeadMeansNone ==
  ASSUME Tree, head = NoHead, Settled
  PROVE  held = {}
  BY NothingBehindNone DEF Settled

-----------------------------------------------------------------------------
(* The steps.                                                               *)

LEMMA DeliverStretch == Tree /\ StretchInv /\ Deliver => StretchInv'
  <1> SUFFICES ASSUME Tree, StretchInv, Deliver PROVE StretchInv'
    OBVIOUS
  <1>1. PICK pos \in Positions : Extends(pos) /\ held' = held \cup {pos.hash}
    BY DEF Deliver
  <1>2. head' = head /\ Settled
    BY DEF Deliver
  <1>3. Beyond = {} /\ Unbroken(head, held)
    <2>1. Beyond = {}
      BY <1>2 DEF Beyond, Settled
    <2> QED
      BY <2>1 DEF StretchInv
  <1>4. ~Behind(head, pos.hash)
    <2>1. CASE head = NoHead
      BY <2>1, NothingBehindNone
    <2>2. CASE head # NoHead
      <3>1. PICK c \in Chains : At(c, head) /\ At(c, pos) /\ pos.height = head.height + 1
        BY <1>1, <2>2 DEF Extends
      <3>2. ASSUME NEW i \in 1..head.height, c[i] = pos.hash PROVE FALSE
        <4>1. i \in DOMAIN c /\ i # pos.height
          BY <3>1, Below DEF At
        <4> QED
          BY <3>1, <3>2, <4>1 DEF At, Tree
      <3> QED
        BY <3>1, <3>2, BehindEverywhere
    <2> QED
      BY <2>1, <2>2
  <1>5. \A b \in held : Behind(head, b)
    BY <1>2 DEF Settled
  <1>6. Beyond' = {pos.hash}
    BY <1>1, <1>2, <1>4, <1>5 DEF Beyond, Behind
  <1>7. held' \ Beyond' = held
    BY <1>1, <1>4, <1>5, <1>6
  <1> QED
    BY <1>2, <1>3, <1>6, <1>7 DEF StretchInv, Unbroken

LEMMA AdvanceStretch == Tree /\ StretchInv /\ Advance => StretchInv'
  <1> SUFFICES ASSUME Tree, StretchInv, Advance PROVE StretchInv'
    OBVIOUS
  <1>1. head' \in Positions /\ Extends(head') /\ head'.hash \in held /\ held' = held
    BY DEF Advance
  <1>2. ~Behind(head, head'.hash)
    <2>1. CASE head = NoHead
      BY <2>1, NothingBehindNone
    <2>2. CASE head # NoHead
      <3>1. PICK c \in Chains : At(c, head) /\ At(c, head') /\ head'.height = head.height + 1
        BY <1>1, <2>2 DEF Extends
      <3>2. ASSUME NEW i \in 1..head.height, c[i] = head'.hash PROVE FALSE
        <4>1. i \in DOMAIN c /\ i # head'.height
          BY <3>1, Below DEF At
        <4> QED
          BY <3>1, <3>2, <4>1 DEF At, Tree
      <3> QED
        BY <3>1, <3>2, BehindEverywhere
    <2> QED
      BY <2>1, <2>2
  <1>3. Beyond = {head'.hash}
    BY <1>1, <1>2 DEF Beyond, StretchInv
  <1>4. Unbroken(head', held)
    <2>1. CASE head = NoHead
      <3>1. held \subseteq {head'.hash}
        BY <1>3, <2>1, NothingBehindNone DEF Beyond
      <3> QED
        BY <1>1, <3>1, UnbrokenSmall
    <2>2. CASE head # NoHead
      <3>1. PICK c \in Chains : At(c, head) /\ At(c, head') /\ head'.height = head.height + 1
        BY <1>1, <2>2 DEF Extends
      <3>2. head.height \in Nat
        BY <3>1, Below DEF At
      <3> SUFFICES ASSUME NEW b \in held
                   PROVE  \E i \in 1..head'.height :
                            c[i] = b /\ \A j \in i..head'.height : c[j] \in held
        BY <3>1 DEF Unbroken
      <3>3. CASE b = head'.hash
        <4>1. \A j \in head'.height..head'.height : j = head'.height
          BY <3>1, <3>2
        <4> QED
          BY <1>1, <3>1, <3>2, <3>3, <4>1 DEF At
      <3>4. CASE b # head'.hash
        <4>1. b \in held \ Beyond /\ Unbroken(head, held \ Beyond)
          BY <1>3, <3>4 DEF StretchInv
        <4>2. PICK i \in 1..head.height :
                c[i] = b /\ \A j \in i..head.height : c[j] \in held \ Beyond
          BY <3>1, <4>1, UnbrokenEverywhere
        <4>3. i \in 1..head'.height
              /\ \A j \in i..head'.height : j \in i..head.height \/ j = head'.height
          BY <3>1, <3>2
        <4> QED
          BY <1>1, <3>1, <4>2, <4>3 DEF At
      <3> QED
        BY <3>3, <3>4
    <2> QED
      BY <2>1, <2>2
  <1>5. Beyond' = {}
    <2>1. \A b \in held : Behind(head', b)
      BY <1>4, UnbrokenBehind
    <2> QED
      BY <1>1, <2>1 DEF Beyond, Behind
  <1>6. Unbroken(head', held' \ Beyond')
    BY <1>1, <1>4, <1>5
  <1> QED
    BY <1>1, <1>5, <1>6 DEF StretchInv, Unbroken

\* What is held but the block that is left is on the branch of the new head, whether that is
\* the parent or nothing else is held.
LEMMA RetreatStretch == Tree /\ StretchInv /\ Retreat => StretchInv'
  <1> SUFFICES ASSUME Tree, StretchInv, Retreat PROVE StretchInv'
    OBVIOUS
  <1>1. /\ Settled /\ head' \in Positions /\ held' = held
        /\ head # NoHead => head.height = head'.height + 1 \/ (head.height = 1 /\ head'.height = 1)
        /\ \A b \in held \ {head.hash} : Behind(head', b)
    BY DEF Retreat
  <1>2. Beyond = {} /\ Unbroken(head, held)
    <2>1. Beyond = {}
      BY <1>1 DEF Beyond, Settled
    <2> QED
      BY <2>1 DEF StretchInv
  <1>3. Beyond' \subseteq {head.hash}
    BY <1>1 DEF Beyond, Behind
  <1>4. ASSUME NEW b \in held, b # head.hash
        PROVE  \E d \in Chains : At(d, head') /\ \E i \in 1..head'.height :
                 d[i] = b /\ \A j \in i..head'.height : d[j] \in held \ {head.hash}
    <2>1. head # NoHead
      BY <1>1, NoHeadMeansNone
    <2>2. PICK c \in Chains : At(c, head) /\ \E i \in 1..head.height :
            c[i] = b /\ \A j \in i..head.height : c[j] \in held
      BY <1>2 DEF Unbroken
    <2>3. PICK i \in 1..head.height : c[i] = b /\ \A j \in i..head.height : c[j] \in held
      BY <2>2
    <2>4. head.height \in DOMAIN c /\ c[head.height] = head.hash /\ head.height \in Nat
      BY <2>2, Below DEF At
    <2> DEFINE n == head'.height
    <2>5. i # head.height /\ head.height = n + 1 /\ n \in Nat /\ i \in 1..n
      BY <1>1, <1>4, <2>1, <2>3, <2>4, PositionFacts
    <2>6. /\ n \in i..head.height /\ \A j \in i..n : j \in i..head.height /\ j # head.height
          /\ \A j \in i..n : j \in DOMAIN c
      BY <2>4, <2>5, Below
    <2>7. \A j \in i..n : c[j] \in held /\ c[j] # head.hash
      BY <2>3, <2>4, <2>6 DEF Tree
    <2>8. n \in i..n
      BY <2>5
    <2>9. Behind(head', c[n])
      BY <1>1, <2>7, <2>8
    <2>10. At(c, head')
      <3>1. PICK d \in Chains : At(d, head')
        BY <1>1, PositionFacts
      <3>2. PICK k \in 1..n : d[k] = c[n]
        BY <3>1, <2>9, BehindEverywhere
      <3>3. k \in DOMAIN d /\ n \in DOMAIN c
        BY <3>1, <2>6, <2>8, Below DEF At
      <3>4. k = n
        BY <3>2, <3>3 DEF Tree
      <3> QED
        BY <3>1, <3>2, <3>3, <3>4 DEF At
    <2> QED
      BY <2>3, <2>5, <2>7, <2>10
  <1>5. Unbroken(head', held \ {head.hash})
    BY <1>4 DEF Unbroken
  <1>6. Unbroken(head', held \ Beyond')
    <2>1. CASE head.hash \in Beyond' \/ head.hash \notin held
      <3>1. held \ Beyond' = held \ {head.hash}
        BY <1>3, <2>1
      <3> QED
        BY <1>5, <3>1
    <2>2. CASE head.hash \in held /\ head.hash \notin Beyond'
      <3>1. Behind(head', head.hash)
        BY <1>1, <2>2 DEF Beyond, Behind
      <3>2. head # NoHead
        BY <1>1, <2>2, NoHeadMeansNone
      <3>3. PICK d \in Chains : At(d, head') /\ \E i \in 1..head'.height : d[i] = head.hash
        BY <3>1 DEF Behind
      <3>4. PICK i \in 1..head'.height : d[i] = head.hash
        BY <3>3
      <3>5. PICK c \in Chains : At(c, head)
        BY <3>2, PositionFacts DEF StretchInv
      <3>6. i \in DOMAIN d /\ head'.height \in Nat /\ head.height \in Nat
        BY <3>3, <3>5, Below DEF At
      <3>7. i = head.height
        BY <3>4, <3>5, <3>6 DEF At, Tree
      <3>8. head.height = 1 /\ head'.height = 1 /\ head'.hash = head.hash
        BY <1>1, <3>2, <3>3, <3>4, <3>6, <3>7 DEF At
      <3>9. held \subseteq {head'.hash}
        <4> SUFFICES ASSUME NEW b \in held, b # head.hash PROVE FALSE
          BY <3>8
        <4>1. PICK e \in Chains : At(e, head') /\ \E k \in 1..head'.height :
                e[k] = b /\ \A j \in k..head'.height : e[j] \in held \ {head.hash}
          BY <1>4
        <4>2. PICK k \in 1..1 : e[k] = b
          BY <3>8, <4>1
        <4> QED
          BY <3>8, <4>1, <4>2 DEF At
      <3>10. held \ Beyond' \subseteq {head'.hash}
        BY <3>9
      <3> QED
        BY <1>1, <3>10, UnbrokenSmall
    <2> QED
      BY <2>1, <2>2
  <1> QED
    BY <1>1, <1>3, <1>6 DEF StretchInv, Unbroken

LEMMA RetractStretch == Tree /\ StretchInv /\ Retract => StretchInv'
  <1> SUFFICES ASSUME Tree, StretchInv, Retract PROVE StretchInv'
    OBVIOUS
  <1>1. PICK b \in held : /\ ~Behind(head, b) \/ (head.height = 1 /\ b = head.hash)
                          /\ held' = held \ {b}
    BY DEF Retract
  <1>2. head' = head
    BY DEF Retract
  <1>3. Beyond' = Beyond \ {b}
    BY <1>1, <1>2 DEF Beyond, Behind
  <1>4. Unbroken(head, held' \ Beyond')
    <2>1. CASE ~Behind(head, b)
      <3>1. held' \ Beyond' = held \ Beyond
        BY <1>1, <1>3, <2>1 DEF Beyond
      <3> QED
        BY <3>1 DEF StretchInv
    <2>2. CASE head.height = 1 /\ b = head.hash
      <3>1. \A x \in held \ Beyond : x = b
        <4> SUFFICES ASSUME NEW x \in held \ Beyond PROVE x = b
          OBVIOUS
        <4>1. PICK c \in Chains : At(c, head) /\ \E i \in 1..head.height : c[i] = x
          BY DEF Beyond, Behind
        <4>2. PICK i \in 1..1 : c[i] = x
          BY <2>2, <4>1
        <4> QED
          BY <2>2, <4>1, <4>2 DEF At
      <3>2. held' \ Beyond' = {}
        BY <1>1, <1>3, <3>1
      <3> QED
        BY <3>2 DEF Unbroken
    <2> QED
      BY <1>1, <2>1, <2>2
  <1> QED
    BY <1>2, <1>3, <1>4 DEF StretchInv, Unbroken

\* Whoever keeps to the order of ChainFollower leaves no gap behind the head: the promise is
\* enough for an observer, whatever implements it.
THEOREM FollowersHoldAStretch ==
  ASSUME Tree
  PROVE  Follow => []Stretch
  <1>1. FollowInit => StretchInv
    BY DEF FollowInit, StretchInv, Beyond, Unbroken
  <1>2. StretchInv /\ [FollowNext]_followVars => StretchInv'
    <2>1. StretchInv /\ UNCHANGED followVars => StretchInv'
      BY DEF StretchInv, Beyond, Behind, Unbroken, followVars
    <2> QED
      BY <2>1, DeliverStretch, AdvanceStretch, RetreatStretch, RetractStretch DEF FollowNext
  <1>3. StretchInv => Stretch
    <2> SUFFICES ASSUME StretchInv, Settled PROVE Unbroken(head, held)
      BY DEF Stretch
    <2>1. Beyond = {}
      BY DEF Beyond, Settled
    <2> QED
      BY <2>1 DEF StretchInv
  <1> QED
    BY <1>1, <1>2, <1>3, PTL DEF Follow

=============================================================================
