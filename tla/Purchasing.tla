----------------------------- MODULE Purchasing -----------------------------
(***************************************************************************)
(* Purchase orders, receipts and returns of ms-autorepuesto (purchasing/): *)
(* the draft, confirm, receive, return and cancel operations, each with    *)
(* its effect on the stock ledger of Inventory.  A Product appears at most *)
(* once in a Purchase, so (purchase, product) names a PurchaseItem.        *)
(***************************************************************************)
EXTENDS Inventory

CONSTANTS
    Purchases, Receipts, Returns,   \* ids of the documents
    NoPurchase

\* PurchaseReceiptItem and PurchaseReturnItem as the ledger refers to them
PurchasingRefs == ({"PURCHASE_RECEIPT"} \X Receipts \X Products) \cup
                  ({"PURCHASE_RETURN"} \X Returns \X Cells)

ASSUME PurchasingAssumption ==
    /\ IsFiniteSet(Receipts) /\ IsFiniteSet(Returns)
    /\ PurchasingRefs \subseteq Refs
    /\ NoPurchase \notin Purchases

VARIABLES
    purchases,      \* Purchase with its PurchaseItems
    receipts,       \* PurchaseReceipt with its items
    returns,        \* PurchaseReturn with its items
    supplierActive, \* Supplier.active of the one supplier
    paid            \* the purchases with a POSTED SUPPLIER payment

purchasingDocumentVars == <<purchases, receipts, returns>>
purchasingOwnVars == <<purchases, receipts, returns, supplierActive, paid>>
purchasingVars == <<stock, movements, activeProducts, activeLocations,
                    purchases, receipts, returns, supplierActive, paid>>

-----------------------------------------------------------------------------
(* Documents *)

PurchaseStatus == {"NONE", "DRAFT", "CONFIRMED", "PARTIALLY_RECEIVED",
                   "RECEIVED", "CANCELLED"}
DocumentStatus == {"NONE", "DRAFT", "POSTED", "CANCELLED"}

\* quantity by key, 0 when the document has no line for the key
Lines(keys) == [keys -> {0} \cup Quantities]
SomeLines(keys) == {f \in Lines(keys) : \E k \in keys : f[k] > 0}
KeysOf(lines) == {k \in DOMAIN lines : lines[k] > 0}

OpenForReceiving(u) ==
    purchases[u].status \in {"CONFIRMED", "PARTIALLY_RECEIVED"}
HasReceiving(u) ==
    purchases[u].status \in {"PARTIALLY_RECEIVED", "RECEIVED"}

PostedReceipts(docs, u) ==
    {r \in Receipts : docs[r].status = "POSTED" /\ docs[r].purchase = u}
PostedReturns(docs, u) ==
    {t \in Returns : docs[t].status = "POSTED" /\ docs[t].purchase = u}

\* receivedByItem: what POSTED receipts hold of the item
Received(docs, u, p) ==
    SumFunctionOnSet([r \in Receipts |-> docs[r].lines[p]], PostedReceipts(docs, u))

\* a line's quantity over all the locations it is returned from
OverLocations(lines, p) ==
    SumFunctionOnSet([l \in Locations |-> lines[<<p, l>>]], Locations)
Returned(docs, u, p) ==
    SumFunctionOnSet([t \in Returns |-> OverLocations(docs[t].lines, p)],
                     PostedReturns(docs, u))

FaultyFitsOrder(u, lines) ==
    \A p \in KeysOf(lines) : lines[p] <= purchases[u].ordered[p]

\* the check of create and post: nothing passes what was ordered
FitsOrder(u, lines) ==
    \A p \in KeysOf(lines) :
        Received(receipts, u, p) + lines[p] <= purchases[u].ordered[p]

FaultyEligible(u, lines) ==
    \A c \in KeysOf(lines) :
        lines[c] <= Received(receipts, u, c[1]) - Returned(returns, u, c[1])

\* validateEligibility: the lines of an item are added up over locations
Eligible(u, lines) ==
    \A p \in {c[1] : c \in KeysOf(lines)} :
        OverLocations(lines, p) <=
            Received(receipts, u, p) - Returned(returns, u, p)

OwnedItems(u, items) == \A p \in items : purchases[u].ordered[p] > 0

-----------------------------------------------------------------------------
(* Purchases *)

CreatePurchase(u, ordered) ==
    /\ purchases[u].status = "NONE"
    /\ supplierActive
    /\ KeysOf(ordered) \subseteq activeProducts
    /\ purchases' = [purchases EXCEPT ![u] =
                        [status |-> "DRAFT", ordered |-> ordered]]
    /\ UNCHANGED <<ledgerVars, masterVars, receipts, returns, supplierActive, paid>>

FaultyUpdatePurchase(u, ordered) ==
    /\ purchases[u].status \in {"DRAFT", "CONFIRMED"}
    /\ KeysOf(ordered) \subseteq activeProducts
    /\ purchases' = [purchases EXCEPT ![u].ordered = ordered]
    /\ UNCHANGED <<ledgerVars, masterVars, receipts, returns, supplierActive, paid>>

\* the items of a draft are deleted and created again, the products checked again;
\* the supplier is looked at only when the request names one
UpdatePurchase(u, ordered) ==
    /\ purchases[u].status = "DRAFT"
    /\ KeysOf(ordered) \subseteq activeProducts
    /\ purchases' = [purchases EXCEPT ![u].ordered = ordered]
    /\ UNCHANGED <<ledgerVars, masterVars, receipts, returns, supplierActive, paid>>

ConfirmPurchase(u) ==
    /\ purchases[u].status = "DRAFT"
    /\ supplierActive
    /\ KeysOf(purchases[u].ordered) \subseteq activeProducts
    /\ purchases' = [purchases EXCEPT ![u].status = "CONFIRMED"]
    /\ UNCHANGED <<ledgerVars, masterVars, receipts, returns, supplierActive, paid>>

FaultyCancelPurchase(u) ==
    /\ purchases[u].status \in {"DRAFT", "CONFIRMED"}
    /\ PostedReceipts(receipts, u) = {}
    /\ u \notin paid
    /\ purchases' = [purchases EXCEPT ![u].status = "CANCELLED"]
    /\ UNCHANGED <<ledgerVars, masterVars, receipts, returns, supplierActive, paid>>

\* cancelling takes the draft receipts along
CancelPurchase(u) ==
    /\ purchases[u].status \in {"DRAFT", "CONFIRMED"}
    /\ PostedReceipts(receipts, u) = {}
    /\ u \notin paid
    /\ receipts' = [r \in Receipts |->
                       IF receipts[r].purchase = u /\ receipts[r].status = "DRAFT"
                       THEN [receipts[r] EXCEPT !.status = "CANCELLED"]
                       ELSE receipts[r]]
    /\ purchases' = [purchases EXCEPT ![u].status = "CANCELLED"]
    /\ UNCHANGED <<ledgerVars, masterVars, returns, supplierActive, paid>>

-----------------------------------------------------------------------------
(* Receipts *)

CreateReceipt(r, u, l, lines) ==
    /\ receipts[r].status = "NONE"
    /\ OpenForReceiving(u)
    /\ l \in activeLocations
    /\ OwnedItems(u, KeysOf(lines))
    /\ FitsOrder(u, lines)
    /\ receipts' = [receipts EXCEPT ![r] =
                       [status |-> "DRAFT", purchase |-> u, location |-> l,
                        lines |-> lines]]
    /\ UNCHANGED <<ledgerVars, masterVars, purchases, returns, supplierActive, paid>>

ReceiptRequests(r) ==
    LET doc == receipts[r] IN
    SetToSeq({Request("IN", p, NoLocation, doc.location, doc.lines[p],
                      <<"PURCHASE_RECEIPT", r, p>>) : p \in KeysOf(doc.lines)})

FaultyStaleStatusAfter(docs, u) ==
    IF \A p \in KeysOf(purchases[u].ordered) :
           Received(receipts, u, p) = purchases[u].ordered[p]
    THEN "RECEIVED" ELSE "PARTIALLY_RECEIVED"

\* the status post leaves, from the receiving history that includes this receipt
StatusAfter(docs, u) ==
    IF \A p \in KeysOf(purchases[u].ordered) :
           Received(docs, u, p) = purchases[u].ordered[p]
    THEN "RECEIVED" ELSE "PARTIALLY_RECEIVED"

PostReceipt(r) ==
    LET u == receipts[r].purchase
        docs == [receipts EXCEPT ![r].status = "POSTED"]
    IN  /\ receipts[r].status = "DRAFT"
        /\ OpenForReceiving(u)
        /\ receipts[r].location \in activeLocations
        /\ FitsOrder(u, receipts[r].lines)
        /\ \E g \in ApplyAll(stock, movements, ReceiptRequests(r)) :
               stock' = g.stock /\ movements' = g.movements
        /\ receipts' = docs
        /\ purchases' = [purchases EXCEPT ![u].status = StatusAfter(docs, u)]
        /\ UNCHANGED <<masterVars, returns, supplierActive, paid>>

-----------------------------------------------------------------------------
(* Returns *)

LocationsOf(lines) == {c[2] : c \in KeysOf(lines)}

CreateReturn(t, u, lines) ==
    /\ returns[t].status = "NONE"
    /\ HasReceiving(u)
    /\ OwnedItems(u, {c[1] : c \in KeysOf(lines)})
    /\ LocationsOf(lines) \subseteq activeLocations
    /\ Eligible(u, lines)
    /\ returns' = [returns EXCEPT ![t] =
                      [status |-> "DRAFT", purchase |-> u, lines |-> lines]]
    /\ UNCHANGED <<ledgerVars, masterVars, purchases, receipts, supplierActive, paid>>

ReturnRequests(t) ==
    LET lines == returns[t].lines IN
    SetToSeq({Request("OUT", c[1], c[2], NoLocation, lines[c],
                      <<"PURCHASE_RETURN", t, c>>) : c \in KeysOf(lines)})

PostReturn(t) ==
    LET u == returns[t].purchase IN
    /\ returns[t].status = "DRAFT"
    /\ HasReceiving(u)
    /\ LocationsOf(returns[t].lines) \subseteq activeLocations
    /\ Eligible(u, returns[t].lines)
    /\ \E g \in ApplyAll(stock, movements, ReturnRequests(t)) :
           stock' = g.stock /\ movements' = g.movements
    /\ returns' = [returns EXCEPT ![t].status = "POSTED"]
    /\ UNCHANGED <<masterVars, purchases, receipts, supplierActive, paid>>

-----------------------------------------------------------------------------
(* What happens around a purchase *)

\* createPurchasePayment, as far as purchasing can see it
PaySupplier(u) ==
    /\ purchases[u].status \in {"CONFIRMED", "PARTIALLY_RECEIVED", "RECEIVED"}
    /\ paid' = paid \cup {u}
    /\ UNCHANGED <<ledgerVars, masterVars, purchasingDocumentVars, supplierActive>>

\* the reversal of the last POSTED payment of the purchase
ReverseSupplierPayment(u) ==
    /\ u \in paid
    /\ paid' = paid \ {u}
    /\ UNCHANGED <<ledgerVars, masterVars, purchasingDocumentVars, supplierActive>>

SetSupplierActive ==
    /\ supplierActive' = ~supplierActive
    /\ UNCHANGED <<ledgerVars, masterVars, purchasingDocumentVars, paid>>

\* other users of the same ledger and master data
AroundPurchasing ==
    /\ \/ \E r \in ManualRequests :
              r.type \in {"IN", "OUT"} /\ CreateMovement(r)
       \/ \E p \in Products : SetProductActive(p)
       \/ \E l \in Locations : SetLocationActive(l)
    /\ UNCHANGED purchasingOwnVars

PurchasingDocumentsInit ==
    /\ purchases = [u \in Purchases |->
                       [status |-> "NONE", ordered |-> [p \in Products |-> 0]]]
    /\ receipts = [r \in Receipts |->
                      [status |-> "NONE", purchase |-> NoPurchase,
                       location |-> NoLocation, lines |-> [p \in Products |-> 0]]]
    /\ returns = [t \in Returns |->
                     [status |-> "NONE", purchase |-> NoPurchase,
                      lines |-> [c \in Cells |-> 0]]]
    /\ supplierActive = TRUE
    /\ paid = {}

PurchasingInit == InventoryInit /\ PurchasingDocumentsInit

PurchasingDocumentsNext ==
    \/ \E u \in Purchases :
          \/ \E ordered \in SomeLines(Products) :
                 CreatePurchase(u, ordered) \/ UpdatePurchase(u, ordered)
          \/ ConfirmPurchase(u)
          \/ CancelPurchase(u)
          \/ \E r \in Receipts, l \in Locations, lines \in SomeLines(Products) :
                 CreateReceipt(r, u, l, lines)
          \/ \E t \in Returns, lines \in SomeLines(Cells) :
                 CreateReturn(t, u, lines)
          \/ PaySupplier(u)
          \/ ReverseSupplierPayment(u)
    \/ \E r \in Receipts : PostReceipt(r)
    \/ \E t \in Returns : PostReturn(t)
    \/ SetSupplierActive

PurchasingNext == PurchasingDocumentsNext \/ AroundPurchasing

PurchasingSpec == PurchasingInit /\ [][PurchasingNext]_purchasingVars

-----------------------------------------------------------------------------
(* Properties *)

PurchasingTypeOK ==
    /\ InventoryTypeOK
    /\ purchases \in [Purchases -> [status: PurchaseStatus, ordered: Lines(Products)]]
    /\ receipts \in [Receipts -> [status: DocumentStatus,
                                  purchase: Purchases \cup {NoPurchase},
                                  location: Locations \cup {NoLocation},
                                  lines: Lines(Products)]]
    /\ returns \in [Returns -> [status: DocumentStatus \ {"CANCELLED"},
                                purchase: Purchases \cup {NoPurchase},
                                lines: Lines(Cells)]]
    /\ supplierActive \in BOOLEAN
    /\ paid \subseteq Purchases

\* Whatever drafts were open at the same time and in whatever order they are
\* posted, the posted receipts of an item never add up to more than was ordered
\* (purchase-receipts.service.ts checks at create and again at post).
NeverOverReceived ==
    \A u \in Purchases, p \in Products :
        Received(receipts, u, p) <= purchases[u].ordered[p]

\* Posted returns of an item never add up to more than was received, over all
\* the locations the units are taken from.
NeverOverReturned ==
    \A u \in Purchases, p \in Products :
        Returned(returns, u, p) <= Received(receipts, u, p)

\* The status stored on the purchase agrees with the documents it summarises: it
\* is RECEIVED exactly when the posted receipts complete every item, and it is
\* PARTIALLY_RECEIVED exactly when there are some and they do not.
StatusTellsReceiving ==
    \A u \in Purchases :
        LET some == PostedReceipts(receipts, u) # {}
            complete == \A p \in Products :
                            Received(receipts, u, p) = purchases[u].ordered[p]
        IN  /\ purchases[u].status = "RECEIVED" <=> some /\ complete
            /\ purchases[u].status = "PARTIALLY_RECEIVED" <=> some /\ ~complete

\* A cancelled purchase leaves no posted receipt, no draft receipt that could
\* still be posted and no active payment behind.
CancelledIsClosed ==
    \A u \in Purchases : purchases[u].status = "CANCELLED" =>
        /\ u \notin paid
        /\ \A r \in Receipts :
               receipts[r].purchase = u => receipts[r].status = "CANCELLED"
        /\ \A t \in Returns : returns[t].purchase # u

\* the ledger rows a document line asked for
EffectsOf(ref) ==
    {i \in DOMAIN movements : movements[i].request.ref = ref}

\* A document line moves stock exactly once, when its document is posted and
\* never otherwise, with the product, location and quantity of the line.
LinesMoveStockOnce ==
    /\ \A r \in Receipts, p \in Products :
           LET effects == EffectsOf(<<"PURCHASE_RECEIPT", r, p>>) IN
           IF receipts[r].status = "POSTED" /\ receipts[r].lines[p] > 0
           THEN /\ Cardinality(effects) = 1
                /\ \A i \in effects :
                       movements[i].request =
                           Request("IN", p, NoLocation, receipts[r].location,
                                   receipts[r].lines[p],
                                   <<"PURCHASE_RECEIPT", r, p>>)
           ELSE effects = {}
    /\ \A t \in Returns, c \in Cells :
           LET effects == EffectsOf(<<"PURCHASE_RETURN", t, c>>) IN
           IF returns[t].status = "POSTED" /\ returns[t].lines[c] > 0
           THEN /\ Cardinality(effects) = 1
                /\ \A i \in effects :
                       movements[i].request =
                           Request("OUT", c[1], c[2], NoLocation,
                                   returns[t].lines[c],
                                   <<"PURCHASE_RETURN", t, c>>)
           ELSE effects = {}

OrderStatus(s) ==
    CASE s = "PARTIALLY_RECEIVED" -> "PARTLY_DELIVERED"
      [] s = "RECEIVED" -> "DELIVERED"
      [] OTHER -> s

OrderStatuses == [u \in Purchases |-> OrderStatus(purchases[u].status)]
OrderedUnits == [u \in Purchases |-> purchases[u].ordered]
ReceivedUnits ==
    [u \in Purchases |-> [p \in Products |-> Received(receipts, u, p)]]
ReturnedUnits ==
    [u \in Purchases |-> [p \in Products |-> Returned(returns, u, p)]]

PurchaseOrders == INSTANCE Orders WITH
    Ids <- Purchases, Keys <- Products,
    Deliverable <- {"CONFIRMED", "PARTLY_DELIVERED"},
    status <- OrderStatuses, ordered <- OrderedUnits,
    delivered <- ReceivedUnits, returned <- ReturnedUnits

\* A purchase is an order: what was ordered is fixed once it is confirmed, posted
\* receipts only add to what was received and never pass it, the status moves
\* forward with them, returns never pass what was received, and a purchase is
\* cancelled only while it has no goods.  A draft receipt or return, whenever it
\* was made, changes none of this until it is posted.
PurchasesAreOrders == PurchaseOrders!Spec
=============================================================================
