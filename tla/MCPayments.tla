----------------------------- MODULE MCPayments -----------------------------
(* One sale and one purchase with their returns: settled by card in several *)
(* amounts, or in cash over two sessions.                                   *)
EXTENDS Payments, TLC

CONSTANTS d1, d2, x1, x2, y1, y2

MCTotal == [d \in Documents |-> 3]
MCDocumentOf == [t \in ReturnDocs |-> IF t \in {x1, x2} THEN d1 ELSE d2]
MCReturnValue == [t \in ReturnDocs |-> IF t \in {x1, y1} THEN 1 ELSE 2]

Symmetry == Permutations(PaymentIds) \cup Permutations(Sessions)
=============================================================================
