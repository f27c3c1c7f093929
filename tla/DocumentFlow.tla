---------------------------- MODULE DocumentFlow ----------------------------
(***************************************************************************)
(* What stock and money promise each other about the documents they share. *)
(* Stock moves the documents: money counts on a sale or a purchase to go   *)
(* only forward, and on a return to be posted only against goods that were *)
(* delivered.  Money pays them: stock counts on a purchase to be paid only *)
(* from its confirmation on, and cancels it only while nothing is paid.    *)
(* Warehouse keeps this with payments reduced to a set of paid purchases,  *)
(* Payments keeps it with documents reduced to their status.               *)
(***************************************************************************)
CONSTANTS
    Sales, SaleReturns, Purchases, PurchaseReturns,
    NoSale, NoPurchase

VARIABLES
    sold,               \* the posted sales
    broughtBack,        \* the posted returns of sales
    sentBack,           \* the posted returns of purchases
    purchaseStatus,     \* DRAFT, CONFIRMED, RECEIVING or CANCELLED
    saleOf, purchaseOf, \* what a return gives back
    paid                \* the purchases with an active payment

flowVars == <<sold, broughtBack, sentBack, purchaseStatus, saleOf, purchaseOf, paid>>

Becomes(u, s) ==
    /\ purchaseStatus' = [purchaseStatus EXCEPT ![u] = s]
    /\ UNCHANGED <<sold, broughtBack, sentBack, saleOf, purchaseOf, paid>>

Init ==
    /\ sold = {} /\ broughtBack = {} /\ sentBack = {} /\ paid = {}
    /\ purchaseStatus = [u \in Purchases |-> "DRAFT"]
    /\ saleOf \in [SaleReturns -> Sales \cup {NoSale}]
    /\ purchaseOf \in [PurchaseReturns -> Purchases \cup {NoPurchase}]

PostSale(s) ==
    /\ sold' = sold \cup {s}
    /\ UNCHANGED <<broughtBack, sentBack, purchaseStatus, saleOf, purchaseOf, paid>>

Confirm(u) == purchaseStatus[u] = "DRAFT" /\ Becomes(u, "CONFIRMED")

Receive(u) == purchaseStatus[u] = "CONFIRMED" /\ Becomes(u, "RECEIVING")

Cancel(u) ==
    /\ purchaseStatus[u] \in {"DRAFT", "CONFIRMED"} /\ u \notin paid
    /\ Becomes(u, "CANCELLED")

\* a return names its document once, when it is drafted
NameSale(t, s) ==
    /\ saleOf[t] = NoSale /\ s \in sold
    /\ saleOf' = [saleOf EXCEPT ![t] = s]
    /\ UNCHANGED <<sold, broughtBack, sentBack, purchaseStatus, purchaseOf, paid>>

NamePurchase(t, u) ==
    /\ purchaseOf[t] = NoPurchase /\ purchaseStatus[u] = "RECEIVING"
    /\ purchaseOf' = [purchaseOf EXCEPT ![t] = u]
    /\ UNCHANGED <<sold, broughtBack, sentBack, purchaseStatus, saleOf, paid>>

PostSaleReturn(t) ==
    /\ saleOf[t] \in sold
    /\ broughtBack' = broughtBack \cup {t}
    /\ UNCHANGED <<sold, sentBack, purchaseStatus, saleOf, purchaseOf, paid>>

PostPurchaseReturn(t) ==
    /\ purchaseOf[t] \in Purchases
    /\ purchaseStatus[purchaseOf[t]] = "RECEIVING"
    /\ sentBack' = sentBack \cup {t}
    /\ UNCHANGED <<sold, broughtBack, purchaseStatus, saleOf, purchaseOf, paid>>

Pay(u) ==
    /\ purchaseStatus[u] \in {"CONFIRMED", "RECEIVING"}
    /\ paid' = paid \cup {u}
    /\ UNCHANGED <<sold, broughtBack, sentBack, purchaseStatus, saleOf, purchaseOf>>

Unpay(u) ==
    /\ paid' = paid \ {u}
    /\ UNCHANGED <<sold, broughtBack, sentBack, purchaseStatus, saleOf, purchaseOf>>

Next ==
    \/ \E s \in Sales : PostSale(s)
    \/ \E u \in Purchases :
          Confirm(u) \/ Receive(u) \/ Cancel(u) \/ Pay(u) \/ Unpay(u)
    \/ \E t \in SaleReturns :
          PostSaleReturn(t) \/ \E s \in Sales : NameSale(t, s)
    \/ \E t \in PurchaseReturns :
          PostPurchaseReturn(t) \/ \E u \in Purchases : NamePurchase(t, u)

Spec == Init /\ [][Next]_flowVars
=============================================================================
