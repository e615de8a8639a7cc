---------------------------- MODULE MCTwoMachines ----------------------------
(***************************************************************************)
(* TwoMachines with bytes up to 9: a packet of 5 bytes is the longest      *)
(* whose MIC still fits, and the shortest are empty or one byte.           *)
(***************************************************************************)
EXTENDS TwoMachines

CONSTANTS central, peripheral

Lists ==
  [m \in {central, peripheral} |->
     IF m = central THEN <<<<4, 5, 6, 7, 8>>, << >>, <<9>>>> ELSE <<<<1, 2>>, <<3>>>>]
=============================================================================
