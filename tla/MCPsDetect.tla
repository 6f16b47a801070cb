----------------------------- MODULE MCPsDetect -----------------------------
(***************************************************************************)
(* Small instances of PsDetect: row 3 is of another process than the       *)
(* others, and its psid is not the number of its row.                      *)
(***************************************************************************)
EXTENDS PsDetect
TwoOfOne == [i \in Row |-> IF i = 3 THEN 2 ELSE 1]
=============================================================================
