----------------------------- MODULE MCBlockScan -----------------------------
(* Trees of blocks for TLC: the node starts on a short chain, extends it, and *)
(* switches to longer branches and back again.                                *)
EXTENDS BlockScan

MCHash == {"a1", "a2", "a3", "a4", "a5", "a6", "b3", "b4", "b5", "c2", "c3", "c4", "c5",
           "d1", "d2", "d3", "d4"}

\* Branch b leaves the scanned part of a one deep, branch c two deep; branch d replaces it
\* all, block 1 too; a outgrows the three.
MCForks == {
  <<"a1", "a2">>,
  <<"a1", "a2", "a3">>,
  <<"a1", "a2", "a3", "a4">>,
  <<"a1", "c2", "c3", "c4", "c5">>,
  <<"a1", "a2", "b3", "b4", "b5">>,
  <<"d1", "d2", "d3", "d4">>,
  <<"a1", "a2", "a3", "a4", "a5", "a6">>}

MCForksStart == <<"a1", "a2">>

\* A shorter tree for the run with every kind of failure; even block 1 may change.
MCSmallHash == {"a1", "a2", "a3", "b1", "b2", "b3", "b4"}

MCSmall == {
  <<"a1", "a2">>,
  <<"a1", "a2", "a3">>,
  <<"b1", "b2", "b3", "b4">>}

MCSmallStart == <<"a1", "a2">>

\* The tree of the liveness run: a reorganisation two deep above a common block 1, and one
\* that replaces block 1.
MCLiveHash == {"a1", "a2", "a3", "a4", "b2", "b3", "b4", "b5", "d1", "d2", "d3", "d4", "d5"}

MCLive == {
  <<"a1", "a2">>,
  <<"d1", "d2", "d3", "d4", "d5">>,
  <<"a1", "a2", "a3", "a4">>,
  <<"a1", "b2", "b3", "b4", "b5">>}

\* What the steps and the properties of that run read: no action looks at the unscan
\* records or at what the observers were told, so states that differ there only are one.
MCView == <<chain, taskVars, head, local, opVars, extracted, adopted>>

=============================================================================
