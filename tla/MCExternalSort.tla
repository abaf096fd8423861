---------------------------- MODULE MCExternalSort ----------------------------
(* Instances of ExternalSort for TLC: five threads with two tuples each, so    *)
(* that a run has ten tuples.  Of two runs six tuples each stay in memory, of  *)
(* three four, and the rest is read back in whole pieces and a cut one, as for *)
(* 2 GB.  Of four three stay, half a buffer too much, as of 25 GB; of five     *)
(* seven thirds of a tuple too much, as of 3 GB; six are one too many for the  *)
(* flags, as 32 are for an int; for 37 nothing is left.                        *)
EXTENDS ExternalSort

MCKeys == 1 .. 3
Blocks == {<<2, 1>>, <<1, 3>>, <<3, 2>>}

Flat(blocks) == [o \in 1 .. 2 * Len(blocks) |-> blocks[(o + 1) \div 2][2 - (o % 2)]]
OneRun == {Flat(b) : b \in [1 .. 5 -> Blocks]}
Same(b, n) == [o \in 1 .. n |-> b[2 - (o % 2)]]

FewerRuns == OneRun \cup {Same(<<2, 1>>, 9), Same(<<3, 1>>, 11)}
MoreRuns == {Same(<<3, 2>>, 10) \o r : r \in OneRun} \cup {r \o Same(<<1, 3>>, 10) : r \in OneRun}
ManyRuns == {Same(<<2, 1>>, 10 * n) : n \in {3, 4, 5, 6, 37}}
MCFiles == FewerRuns \cup MoreRuns \cup ManyRuns
MCFaultyFiles ==
  {Same(<<2, 1>>, 9), Same(<<3, 2>>, 10), Flat(<<<<2, 1>>, <<1, 3>>, <<3, 2>>, <<2, 1>>, <<1, 3>>>>),
   Same(<<3, 2>>, 10) \o Same(<<1, 3>>, 10), Same(<<2, 1>>, 30)}
=============================================================================
