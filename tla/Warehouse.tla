----------------------------- MODULE Warehouse -----------------------------
(***************************************************************************)
(* Purchasing and Sales over one stock ledger: goods come in with receipts *)
(* and customer returns, and leave with sales and supplier returns, while  *)
(* staff move and correct stock by hand.  Products and locations stay      *)
(* active here; the runs of the parts deactivate them.                     *)
(***************************************************************************)
EXTENDS Purchasing, Sales

ASSUME WarehouseAssumption ==
    IsFiniteSet(Purchases) /\ IsFiniteSet(SaleIds)

warehouseVars == <<stock, movements, activeProducts, activeLocations,
                   purchases, receipts, returns, supplierActive, paid,
                   sales, saleReturns, customerActive>>

WarehouseInit ==
    InventoryInit /\ PurchasingDocumentsInit /\ SalesDocumentsInit

WarehouseNext ==
    \/ PurchasingDocumentsNext /\ UNCHANGED salesOwnVars
    \/ SalesDocumentsNext /\ UNCHANGED purchasingOwnVars
    \/ \E r \in ManualRequests :
           CreateMovement(r) /\ UNCHANGED <<purchasingOwnVars, salesOwnVars>>

WarehouseSpec == WarehouseInit /\ [][WarehouseNext]_warehouseVars

-----------------------------------------------------------------------------
(* Properties *)

\* what manual movements brought in of a product
EnteredByHand(p) ==
    SumFunctionOnSet([i \in DOMAIN movements |-> Entering(movements[i])],
                     {i \in DOMAIN movements : /\ movements[i].request.product = p
                                               /\ movements[i].request.ref = NoRef})

NetReceived(p) ==
    SumFunctionOnSet([u \in Purchases |-> Received(receipts, u, p) - Returned(returns, u, p)],
                     Purchases)

NetSold(p) ==
    SumFunctionOnSet(
        [s \in SaleIds |-> SumFunctionOnSet(
            [l \in Locations |-> sales[s].items[<<p, l>>] - SaleReturned(s, <<p, l>>)],
            Locations)],
        {s \in SaleIds : sales[s].status = "POSTED"})

\* The units of a product on hand are explained by the business documents: what
\* was received and kept, less what was sold and not brought back, and what was
\* moved in by hand.  Both subsystems write the same balances, so a post that
\* lost an update of the other, or that half happened, shows here.
StockExplainedByDocuments ==
    \A p \in Products :
        SumFunctionOnSet([l \in Locations |-> QuantityAt(stock, <<p, l>>)], Locations) =
            EnteredByHand(p) + NetReceived(p) - NetSold(p)
-----------------------------------------------------------------------------
(* The documents as Payments sees them *)

SoldIds == {s \in SaleIds : sales[s].status = "POSTED"}
BroughtBackIds == {t \in SaleReturnIds : saleReturns[t].status = "POSTED"}
SentBackIds == {t \in Returns : returns[t].status = "POSTED"}
StatusForMoney(s) ==
    CASE s \in {"NONE", "DRAFT"} -> "DRAFT"
      [] s \in {"PARTIALLY_RECEIVED", "RECEIVED"} -> "RECEIVING"
      [] OTHER -> s
StatusesForMoney == [u \in Purchases |-> StatusForMoney(purchases[u].status)]
SaleOfReturn == [t \in SaleReturnIds |-> saleReturns[t].sale]
PurchaseOfReturn == [t \in Returns |-> returns[t].purchase]

WarehouseFlow == INSTANCE DocumentFlow WITH
    Sales <- SaleIds, SaleReturns <- SaleReturnIds, PurchaseReturns <- Returns,
    sold <- SoldIds, broughtBack <- BroughtBackIds, sentBack <- SentBackIds,
    purchaseStatus <- StatusesForMoney, saleOf <- SaleOfReturn,
    purchaseOf <- PurchaseOfReturn

\* Stock gives money what it counts on: posted sales stay posted, a purchase that
\* received goods stays so, a return is posted only against a document that moved
\* goods, and no purchase with an active payment is cancelled.
WarehouseKeepsFlow == WarehouseFlow!Spec
=============================================================================
