----------------------------- MODULE ChainFollower -----------------------------
(***************************************************************************)
(* What the scanner of futurepia/blockscanner.go promises its observers    *)
(* while nothing breaks in on it: the blocks they hold end at the saved    *)
(* head and go back from there without a gap. A block is delivered, then   *)
(* the head moves to it; or the head moves back, then the block it left is *)
(* taken back from the observers. BlockScan implements this.               *)
(***************************************************************************)
EXTENDS Integers, Sequences

CONSTANTS
  Chains,  \* the chains the node may ever present
  None     \* no hash

VARIABLES
  head,  \* the saved head
  held   \* the blocks the observers hold

followVars == <<head, held>>

NoHead == [height |-> 0, hash |-> None]

At(c, pos) == pos.height \in DOMAIN c /\ c[pos.height] = pos.hash

Positions == UNION {{[height |-> i, hash |-> c[i]] : i \in DOMAIN c} : c \in Chains}

\* b is the block at pos or one of its ancestors.
Behind(pos, b) == \E c \in Chains : At(c, pos) /\ \E i \in 1..pos.height : c[i] = b

\* Every block between one of given and pos is in given.
Unbroken(pos, given) ==
  \A b \in given : \E c \in Chains :
    At(c, pos) /\ \E i \in 1..pos.height : c[i] = b /\ \A j \in i..pos.height : c[j] \in given

Settled == \A b \in held : Behind(head, b)

\* pos is a child of the saved head; any block, while there is none.
Extends(pos) ==
  head # NoHead => /\ pos.height = head.height + 1
                   /\ \E c \in Chains : At(c, head) /\ At(c, pos)

FollowInit == head = NoHead /\ held = {}

Deliver ==
  /\ Settled
  /\ \E pos \in Positions : /\ Extends(pos)
                            /\ pos.hash \notin held
                            /\ held' = held \cup {pos.hash}
  /\ UNCHANGED head

Advance ==
  /\ head' \in Positions
  /\ Extends(head')
  /\ head'.hash \in held
  /\ UNCHANGED held

\* One block down, or to another block 1. It need not be the parent if nothing is held but
\* the block that is left.
Retreat ==
  /\ Settled
  /\ head' \in Positions
  /\ head # NoHead => head.height = head'.height + 1 \/ (head.height = 1 /\ head'.height = 1)
  /\ \A b \in held \ {head.hash} : Behind(head', b)
  /\ UNCHANGED held

\* Below block 1 there is nothing to go back to: it is taken back where it stands.
Retract ==
  /\ \E b \in held : /\ ~Behind(head, b) \/ (head.height = 1 /\ b = head.hash)
                     /\ held' = held \ {b}
  /\ UNCHANGED head

FollowNext == Deliver \/ Advance \/ Retreat \/ Retract

Follow == FollowInit /\ [][FollowNext]_followVars

-----------------------------------------------------------------------------
(* What an observer may conclude from it.                                  *)

\* Whenever nothing is left to take back, the blocks held are a stretch of one branch that
\* ends at the head.
Stretch == Settled => Unbroken(head, held)

\* Its strengthening: at any other time one block is held too many, and the rest are one.
Beyond == {b \in held : ~Behind(head, b)}

StretchInv ==
  /\ head \in Positions \cup {NoHead}
  /\ \A x, y \in Beyond : x = y
  /\ Unbroken(head, held \ Beyond)

=============================================================================
