---------------------------- MODULE MCPurchasing ----------------------------
(* Purchasing on one product and two locations: two receipts, two returns.  *)
EXTENDS Purchasing

Symmetry == Permutations(Receipts) \cup Permutations(Returns)
=============================================================================
