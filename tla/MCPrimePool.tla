----------------------------- MODULE MCPrimePool -----------------------------
(***************************************************************************)
(* PrimePool and ThreadGroup for TLC: three workers; a range of seven      *)
(* numbers, which leaves a remainder, and two ranges of which the first is *)
(* empty and the second has fewer numbers than there are workers.          *)
(***************************************************************************)
EXTENDS ThreadGroup

MCInputs == {<<<<2, 8>>>>, <<<<5, 3>>, <<1, 2>>>>}
=============================================================================
