------------------------------ MODULE MCPsList ------------------------------
(***************************************************************************)
(* Small instances of PsList.                                              *)
(***************************************************************************)
EXTENDS PsList, TLC

CONSTANTS n1, n2, g1, g2, g3

TwoNames  == {n1, n2}
ThreePgds == {g1, g2, g3}
NoMm      == {NoPgd}

\* Names and page directories are interchangeable.
Interchangeable == Permutations(Names) \union Permutations(Pgds)

=============================================================================
