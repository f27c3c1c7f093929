------------------------------- MODULE Sales -------------------------------
(***************************************************************************)
(* Sales and sale returns of ms-autorepuesto (sales/): draft, update,      *)
(* post, cancel and return, with their effect on the stock ledger of       *)
(* Inventory.  A (product, source location) pair appears at most once in a *)
(* Sale, so (sale, cell) names a SaleItem.  Money is left to the           *)
(* settlement modules.                                                     *)
(***************************************************************************)
EXTENDS Inventory

CONSTANTS
    SaleIds, SaleReturnIds,     \* ids of the documents
    NoSale

\* SaleItem and SaleReturnItem as the ledger refers to them
SalesRefs == ({"SALE"} \X SaleIds \X Cells) \cup
             ({"SALE_RETURN"} \X SaleReturnIds \X (Cells \X Locations))

ASSUME SalesAssumption ==
    /\ IsFiniteSet(SaleReturnIds)
    /\ SalesRefs \subseteq Refs
    /\ NoSale \notin SaleIds

VARIABLES
    sales,          \* Sale with its SaleItems; walkIn when it has no customer
    saleReturns,    \* SaleReturn with its items
    customerActive  \* Customer.active of the one customer

salesOwnVars == <<sales, saleReturns, customerActive>>
salesVars == <<stock, movements, activeProducts, activeLocations,
               sales, saleReturns, customerActive>>

-----------------------------------------------------------------------------
(* Documents *)

SaleStatus == {"NONE", "DRAFT", "POSTED", "CANCELLED"}
ReturnLines == Cells \X Locations   \* a sold item and where it is put back

\* quantity by key, 0 when the document has no line for the key
ItemsOver(keys) ==
    {f \in [keys -> {0} \cup Quantities] : \E k \in keys : f[k] > 0}
ItemKeys(items) == {k \in DOMAIN items : items[k] > 0}

PostedSaleReturns(s) ==
    {t \in SaleReturnIds : saleReturns[t].status = "POSTED" /\ saleReturns[t].sale = s}

ReturnedTo(lines, item) ==
    SumFunctionOnSet([l \in Locations |-> lines[<<item, l>>]], Locations)
SaleReturned(s, item) ==
    SumFunctionOnSet([t \in SaleReturnIds |-> ReturnedTo(saleReturns[t].lines, item)],
                     PostedSaleReturns(s))

FaultySaleEligible(s, lines) ==
    \A k \in ItemKeys(lines) :
        lines[k] <= sales[s].items[k[1]] - SaleReturned(s, k[1])

\* returnEligibility and validateEligibility: sold less returned, and the lines
\* of an item added up over the locations they go to
SaleEligible(s, lines) ==
    \A item \in {k[1] : k \in ItemKeys(lines)} :
        ReturnedTo(lines, item) <= sales[s].items[item] - SaleReturned(s, item)

\* resolveActiveItems and requireActiveCustomer
ItemsActive(items) ==
    \A c \in ItemKeys(items) : c[1] \in activeProducts /\ c[2] \in activeLocations
CustomerUsable(walkIn) == walkIn \/ customerActive

-----------------------------------------------------------------------------
(* Sales *)

CreateSale(s, items, walkIn) ==
    /\ sales[s].status = "NONE"
    /\ CustomerUsable(walkIn)
    /\ ItemsActive(items)
    /\ sales' = [sales EXCEPT ![s] =
                    [status |-> "DRAFT", items |-> items, walkIn |-> walkIn]]
    /\ UNCHANGED <<ledgerVars, masterVars, saleReturns, customerActive>>

\* items and customer the request leaves out keep their value, and are checked
\* again all the same
UpdateSale(s, items, walkIn) ==
    /\ sales[s].status = "DRAFT"
    /\ CustomerUsable(walkIn)
    /\ ItemsActive(items)
    /\ sales' = [sales EXCEPT ![s].items = items, ![s].walkIn = walkIn]
    /\ UNCHANGED <<ledgerVars, masterVars, saleReturns, customerActive>>

FaultySaleRequests(s) ==
    SetToSeq({Request("OUT", c[1], c[2], NoLocation, 1, <<"SALE", s, c>>) :
              c \in ItemKeys(sales[s].items)})

SaleRequests(s) ==
    SetToSeq({Request("OUT", c[1], c[2], NoLocation, sales[s].items[c],
                      <<"SALE", s, c>>) : c \in ItemKeys(sales[s].items)})

\* one OUT per item, in a fixed order of the items, or nothing at all
PostSale(s) ==
    /\ sales[s].status = "DRAFT"
    /\ CustomerUsable(sales[s].walkIn)
    /\ ItemsActive(sales[s].items)
    /\ \E g \in ApplyAll(stock, movements, SaleRequests(s)) :
           stock' = g.stock /\ movements' = g.movements
    /\ sales' = [sales EXCEPT ![s].status = "POSTED"]
    /\ UNCHANGED <<masterVars, saleReturns, customerActive>>

CancelSale(s) ==
    /\ sales[s].status = "DRAFT"
    /\ sales' = [sales EXCEPT ![s].status = "CANCELLED"]
    /\ UNCHANGED <<ledgerVars, masterVars, saleReturns, customerActive>>

-----------------------------------------------------------------------------
(* Returns *)

\* a return is checked twice, when it is drafted and when it is posted
ReturnAllowed(s, lines) ==
    /\ sales[s].status = "POSTED"
    /\ \A k \in ItemKeys(lines) : sales[s].items[k[1]] > 0
    /\ {k[2] : k \in ItemKeys(lines)} \subseteq activeLocations
    /\ SaleEligible(s, lines)

CreateSaleReturn(t, s, lines) ==
    /\ saleReturns[t].status = "NONE"
    /\ ReturnAllowed(s, lines)
    /\ saleReturns' = [saleReturns EXCEPT ![t] =
                          [status |-> "DRAFT", sale |-> s, lines |-> lines]]
    /\ UNCHANGED <<ledgerVars, masterVars, sales, customerActive>>

\* two items of one product may go back to one location: the second line starts
\* from the balance the first one left
SaleReturnRequests(t) ==
    SetToSeq({Request("IN", k[1][1], NoLocation, k[2], saleReturns[t].lines[k],
                      <<"SALE_RETURN", t, k>>) :
              k \in ItemKeys(saleReturns[t].lines)})

PostSaleReturn(t) ==
    /\ saleReturns[t].status = "DRAFT"
    /\ ReturnAllowed(saleReturns[t].sale, saleReturns[t].lines)
    /\ \E g \in ApplyAll(stock, movements, SaleReturnRequests(t)) :
           stock' = g.stock /\ movements' = g.movements
    /\ saleReturns' = [saleReturns EXCEPT ![t].status = "POSTED"]
    /\ UNCHANGED <<masterVars, sales, customerActive>>

-----------------------------------------------------------------------------
(* What happens around a sale *)

SetCustomerActive ==
    /\ customerActive' = ~customerActive
    /\ UNCHANGED <<ledgerVars, masterVars, sales, saleReturns>>

AroundSales ==
    /\ \/ \E r \in ManualRequests :
              r.type \in {"IN", "OUT"} /\ CreateMovement(r)
       \/ \E p \in Products : SetProductActive(p)
       \/ \E l \in Locations : SetLocationActive(l)
    /\ UNCHANGED salesOwnVars

SalesDocumentsInit ==
    /\ sales = [s \in SaleIds |->
                   [status |-> "NONE", items |-> [c \in Cells |-> 0],
                    walkIn |-> TRUE]]
    /\ saleReturns = [t \in SaleReturnIds |->
                         [status |-> "NONE", sale |-> NoSale,
                          lines |-> [k \in ReturnLines |-> 0]]]
    /\ customerActive = TRUE

SalesInit == InventoryInit /\ SalesDocumentsInit

SalesDocumentsNext ==
    \/ \E s \in SaleIds :
          \/ \E items \in ItemsOver(Cells), walkIn \in BOOLEAN :
                 CreateSale(s, items, walkIn) \/ UpdateSale(s, items, walkIn)
          \/ PostSale(s)
          \/ CancelSale(s)
          \/ \E t \in SaleReturnIds, lines \in ItemsOver(ReturnLines) :
                 CreateSaleReturn(t, s, lines)
    \/ \E t \in SaleReturnIds : PostSaleReturn(t)
    \/ SetCustomerActive

SalesNext == SalesDocumentsNext \/ AroundSales

SalesSpec == SalesInit /\ [][SalesNext]_salesVars

-----------------------------------------------------------------------------
(* Properties *)

SalesTypeOK ==
    /\ InventoryTypeOK
    /\ sales \in [SaleIds -> [status: SaleStatus, items: [Cells -> {0} \cup Quantities],
                              walkIn: BOOLEAN]]
    /\ saleReturns \in [SaleReturnIds ->
                           [status: SaleStatus, sale: SaleIds \cup {NoSale},
                            lines: [ReturnLines -> {0} \cup Quantities]]]
    /\ customerActive \in BOOLEAN

\* The units a customer brings back of an item, over every posted return and
\* every location they are put on, never pass the units sold, and a return is
\* posted only for items of a posted sale.
NeverReturnedBeyondSale ==
    \A s \in SaleIds, item \in Cells :
        SaleReturned(s, item) <=
            IF sales[s].status = "POSTED" THEN sales[s].items[item] ELSE 0

SaleEffects(ref) == {i \in DOMAIN movements : movements[i].request.ref = ref}

\* A posted sale has taken out every item exactly once with the quantity the
\* sale still shows, a posted return has put back every line exactly once, and
\* a draft or cancelled document has moved nothing: a sale that could not take
\* out its second item has not taken out the first.
SalesMoveStockOnce ==
    /\ \A s \in SaleIds, c \in Cells :
           LET effects == SaleEffects(<<"SALE", s, c>>) IN
           IF sales[s].status = "POSTED" /\ sales[s].items[c] > 0
           THEN /\ Cardinality(effects) = 1
                /\ \A i \in effects :
                       movements[i].request =
                           Request("OUT", c[1], c[2], NoLocation,
                                   sales[s].items[c], <<"SALE", s, c>>)
           ELSE effects = {}
    /\ \A t \in SaleReturnIds, k \in ReturnLines :
           LET effects == SaleEffects(<<"SALE_RETURN", t, k>>) IN
           IF saleReturns[t].status = "POSTED" /\ saleReturns[t].lines[k] > 0
           THEN /\ Cardinality(effects) = 1
                /\ \A i \in effects :
                       movements[i].request =
                           Request("IN", k[1][1], NoLocation, k[2],
                                   saleReturns[t].lines[k], <<"SALE_RETURN", t, k>>)
           ELSE effects = {}

SaleOrderStatuses ==
    [s \in SaleIds |-> IF sales[s].status = "POSTED" THEN "DELIVERED"
                       ELSE sales[s].status]
ItemUnits == [s \in SaleIds |-> sales[s].items]
SoldUnits ==
    [s \in SaleIds |-> [c \in Cells |->
        IF sales[s].status = "POSTED" THEN sales[s].items[c] ELSE 0]]
BroughtBackUnits == [s \in SaleIds |-> [c \in Cells |-> SaleReturned(s, c)]]

SaleOrders == INSTANCE Orders WITH
    Ids <- SaleIds, Keys <- Cells, Deliverable <- {"DRAFT"},
    status <- SaleOrderStatuses, ordered <- ItemUnits,
    delivered <- SoldUnits, returned <- BroughtBackUnits

\* A sale is an order too: posting it delivers all of it at once, after that
\* neither its items nor its status change, and what comes back of an item only
\* grows, with posted returns, and never passes what was sold.
SalesAreOrders == SaleOrders!Spec
=============================================================================
