------------------------------ MODULE MCSales ------------------------------
(* Sales on small sets.                                                     *)
EXTENDS Sales

Symmetry == Permutations(SaleIds) \cup Permutations(SaleReturnIds)
=============================================================================
