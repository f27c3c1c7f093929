-------------------------- MODULE WarehouseProofs --------------------------
(***************************************************************************)
(* What purchasing, sales and their shared stock ledger promise for every  *)
(* number of documents, products and locations and every quantity: orders  *)
(* are never over-received nor over-returned, the stored status tells what *)
(* was received, a document line moves stock exactly once, and the units   *)
(* on hand are explained by the documents.                                 *)
(***************************************************************************)
EXTENDS Warehouse, InventoryProofs, Sums

-----------------------------------------------------------------------------
(* Purchases: what their documents add up to *)

PurchaseTypes ==
    /\ purchases \in [Purchases -> [status: PurchaseStatus, ordered: Lines(Products)]]
    /\ receipts \in [Receipts -> [status: DocumentStatus,
                                  purchase: Purchases \cup {NoPurchase},
                                  location: Locations \cup {NoLocation},
                                  lines: Lines(Products)]]
    /\ returns \in [Returns -> [status: DocumentStatus \ {"CANCELLED"},
                                purchase: Purchases \cup {NoPurchase},
                                lines: Lines(Cells)]]
    /\ supplierActive \in BOOLEAN
    /\ paid \subseteq Purchases

LEMMA LinesAreNatural ==
    ASSUME NEW K, NEW f \in Lines(K), NEW k \in K PROVE f[k] \in Nat
<1>1. f[k] \in {0} \cup Quantities
  BY DEF Lines
<1>2. \A x \in Quantities : x \in Nat
  BY InventoryAssumption
<1>3. CASE f[k] = 0
  BY <1>3
<1>4. CASE f[k] \in Quantities
  BY <1>2, <1>4
<1> QED BY <1>1, <1>3, <1>4

LEMMA ReceivedIsNatural ==
    ASSUME NEW docs, NEW u, NEW p, \A r \in Receipts : docs[r].lines[p] \in Nat
    PROVE  Received(docs, u, p) \in Nat
<1> DEFINE f == [r \in Receipts |-> docs[r].lines[p]]
           S == PostedReceipts(docs, u)
<1>1. IsFiniteSet(S) /\ \A r \in S : f[r] \in Nat
  <2>1. S \in SUBSET Receipts
    BY DEF PostedReceipts
  <2> QED BY <2>1, FS_Subset, PurchasingAssumption
<1> HIDE DEF S, f
<1>2. SumFunctionOnSet(f, S) \in Nat
  BY <1>1, SumNatural
<1> QED BY <1>2 DEF Received, S, f

\* Only posted receipts count.
LEMMA ReceivedStays ==
    ASSUME NEW docs, NEW docs2, NEW u, NEW p,
           PostedReceipts(docs2, u) = PostedReceipts(docs, u),
           \A r \in PostedReceipts(docs, u) :
               docs[r].lines[p] \in Nat /\ docs2[r].lines[p] = docs[r].lines[p]
    PROVE  Received(docs2, u, p) = Received(docs, u, p)
<1> DEFINE f == [r \in Receipts |-> docs[r].lines[p]]
           g == [r \in Receipts |-> docs2[r].lines[p]]
           S == PostedReceipts(docs, u)
<1>1. S \in SUBSET Receipts
  BY DEF PostedReceipts
<1>2. IsFiniteSet(S) /\ Integral(f, S) /\ \A r \in S : f[r] = g[r]
  BY <1>1, FS_Subset, PurchasingAssumption DEF Integral
<1> HIDE DEF S, f, g
<1>3. SumFunctionOnSet(f, S) = SumFunctionOnSet(g, S)
  BY <1>2, SumAgree
<1> QED BY <1>3 DEF Received, S, f, g

\* Posting a receipt adds its lines to what its purchase received.
LEMMA PostingReceives ==
    ASSUME NEW docs, NEW docs2, NEW r \in Receipts, NEW p,
           \A q \in Receipts : docs[q].lines[p] \in Nat,
           docs[r].status # "POSTED", docs2[r].status = "POSTED",
           docs2[r].purchase = docs[r].purchase, docs2[r].lines = docs[r].lines,
           \A q \in Receipts \ {r} : docs2[q] = docs[q]
    PROVE  /\ PostedReceipts(docs2, docs[r].purchase) =
                  PostedReceipts(docs, docs[r].purchase) \cup {r}
           /\ Received(docs2, docs[r].purchase, p) =
                  Received(docs, docs[r].purchase, p) + docs[r].lines[p]
           /\ \A u : u # docs[r].purchase =>
                  /\ PostedReceipts(docs2, u) = PostedReceipts(docs, u)
                  /\ Received(docs2, u, p) = Received(docs, u, p)
<1> DEFINE f == [q \in Receipts |-> docs[q].lines[p]]
           g == [q \in Receipts |-> docs2[q].lines[p]]
           u == docs[r].purchase
           S == PostedReceipts(docs, u)
<1>1. PostedReceipts(docs2, u) = S \cup {r} /\ r \notin S /\ S \in SUBSET Receipts
  BY DEF PostedReceipts
<1>2. IsFiniteSet(S) /\ Integral(f, S) /\ f[r] \in Int
  BY <1>1, FS_Subset, PurchasingAssumption DEF Integral
<1>3. f = g
  BY DEF f, g
<1>4. f[r] = docs[r].lines[p]
  OBVIOUS
<1>5. Received(docs2, u, p) = SumFunctionOnSet(g, S \cup {r})
  BY <1>1 DEF Received
<1>6. Received(docs, u, p) = SumFunctionOnSet(f, S)
  BY DEF Received
<1>7. SumFunctionOnSet(f, S \cup {r}) = SumFunctionOnSet(f, S) + f[r]
  <2> HIDE DEF S, f
  <2> QED BY <1>1, <1>2, SumAdd
<1>8. ASSUME NEW v, v # u
      PROVE  /\ PostedReceipts(docs2, v) = PostedReceipts(docs, v)
             /\ Received(docs2, v, p) = Received(docs, v, p)
  <2>1. PostedReceipts(docs2, v) = PostedReceipts(docs, v)
    BY <1>8 DEF PostedReceipts
  <2>2. \A q \in PostedReceipts(docs, v) :
            docs[q].lines[p] \in Nat /\ docs2[q].lines[p] = docs[q].lines[p]
    BY DEF PostedReceipts
  <2> QED BY <2>1, <2>2, ReceivedStays
<1> QED BY <1>1, <1>3, <1>4, <1>5, <1>6, <1>7, <1>8

LEMMA OverLocationsIsNatural ==
    ASSUME NEW lines, NEW p, \A l \in Locations : lines[<<p, l>>] \in Nat
    PROVE  OverLocations(lines, p) \in Nat
<1> DEFINE f == [l \in Locations |-> lines[<<p, l>>]]
<1>1. \A l \in Locations : f[l] \in Nat
  OBVIOUS
<1> HIDE DEF f
<1>2. SumFunctionOnSet(f, Locations) \in Nat
  BY <1>1, SumNatural, InventoryAssumption
<1> QED BY <1>2 DEF OverLocations, f

\* A product that no line names counts nothing.
LEMMA OverLocationsZero ==
    ASSUME NEW lines, NEW p, \A l \in Locations : lines[<<p, l>>] = 0
    PROVE  OverLocations(lines, p) = 0
<1> DEFINE f == [l \in Locations |-> lines[<<p, l>>]]
<1>1. \A l \in Locations : f[l] = 0
  OBVIOUS
<1> HIDE DEF f
<1>2. SumFunctionOnSet(f, Locations) = 0
  BY <1>1, SumZero, InventoryAssumption
<1> QED BY <1>2 DEF OverLocations, f

LEMMA ReturnedIsNatural ==
    ASSUME NEW docs, NEW u, NEW p,
           \A t \in Returns : OverLocations(docs[t].lines, p) \in Nat
    PROVE  Returned(docs, u, p) \in Nat
<1> DEFINE f == [t \in Returns |-> OverLocations(docs[t].lines, p)]
           S == PostedReturns(docs, u)
<1>1. IsFiniteSet(S) /\ \A t \in S : f[t] \in Nat
  <2>1. S \in SUBSET Returns
    BY DEF PostedReturns
  <2> QED BY <2>1, FS_Subset, PurchasingAssumption
<1> HIDE DEF S, f
<1>2. SumFunctionOnSet(f, S) \in Nat
  BY <1>1, SumNatural
<1> QED BY <1>2 DEF Returned, S, f

LEMMA ReturnedStays ==
    ASSUME NEW docs, NEW docs2, NEW u, NEW p,
           PostedReturns(docs2, u) = PostedReturns(docs, u),
           \A t \in PostedReturns(docs, u) :
               /\ OverLocations(docs[t].lines, p) \in Nat
               /\ docs2[t].lines = docs[t].lines
    PROVE  Returned(docs2, u, p) = Returned(docs, u, p)
<1> DEFINE f == [t \in Returns |-> OverLocations(docs[t].lines, p)]
           g == [t \in Returns |-> OverLocations(docs2[t].lines, p)]
           S == PostedReturns(docs, u)
<1>1. S \in SUBSET Returns
  BY DEF PostedReturns
<1>2. IsFiniteSet(S) /\ Integral(f, S) /\ \A t \in S : f[t] = g[t]
  BY <1>1, FS_Subset, PurchasingAssumption DEF Integral
<1> HIDE DEF S, f, g
<1>3. SumFunctionOnSet(f, S) = SumFunctionOnSet(g, S)
  BY <1>2, SumAgree
<1> QED BY <1>3 DEF Returned, S, f, g

\* Posting a return adds its lines to what its purchase gave back.
LEMMA PostingReturns ==
    ASSUME NEW docs, NEW docs2, NEW t \in Returns, NEW p,
           \A q \in Returns : OverLocations(docs[q].lines, p) \in Nat,
           docs[t].status # "POSTED", docs2[t].status = "POSTED",
           docs2[t].purchase = docs[t].purchase, docs2[t].lines = docs[t].lines,
           \A q \in Returns \ {t} : docs2[q] = docs[q]
    PROVE  /\ Returned(docs2, docs[t].purchase, p) =
                  Returned(docs, docs[t].purchase, p) + OverLocations(docs[t].lines, p)
           /\ \A u : u # docs[t].purchase =>
                  Returned(docs2, u, p) = Returned(docs, u, p)
<1> DEFINE f == [q \in Returns |-> OverLocations(docs[q].lines, p)]
           g == [q \in Returns |-> OverLocations(docs2[q].lines, p)]
           u == docs[t].purchase
           S == PostedReturns(docs, u)
<1>1. PostedReturns(docs2, u) = S \cup {t} /\ t \notin S /\ S \in SUBSET Returns
  BY DEF PostedReturns
<1>2. IsFiniteSet(S) /\ Integral(f, S) /\ f[t] \in Int
  BY <1>1, FS_Subset, PurchasingAssumption DEF Integral
<1>3. f = g
  BY DEF f, g
<1>4. f[t] = OverLocations(docs[t].lines, p)
  OBVIOUS
<1>5. Returned(docs2, u, p) = SumFunctionOnSet(g, S \cup {t})
  BY <1>1 DEF Returned
<1>6. Returned(docs, u, p) = SumFunctionOnSet(f, S)
  BY DEF Returned
<1>7. SumFunctionOnSet(f, S \cup {t}) = SumFunctionOnSet(f, S) + f[t]
  <2> HIDE DEF S, f
  <2> QED BY <1>1, <1>2, SumAdd
<1>8. ASSUME NEW v, v # u PROVE Returned(docs2, v, p) = Returned(docs, v, p)
  <2>1. PostedReturns(docs2, v) = PostedReturns(docs, v)
    BY <1>8 DEF PostedReturns
  <2>2. \A q \in PostedReturns(docs, v) :
            OverLocations(docs[q].lines, p) \in Nat /\ docs2[q].lines = docs[q].lines
    BY DEF PostedReturns
  <2> QED BY <2>1, <2>2, ReturnedStays
<1> QED BY <1>3, <1>4, <1>5, <1>6, <1>7, <1>8

-----------------------------------------------------------------------------
(* Purchases: the inductive invariant *)

\* A document names its purchase and location from the moment it exists, and the
\* status of the purchase says which documents it can have.
PurchaseDocumentsFit ==
    /\ \A r \in Receipts :
           IF receipts[r].status = "NONE" THEN receipts[r].purchase = NoPurchase
           ELSE receipts[r].purchase \in Purchases /\ receipts[r].location \in Locations
    /\ \A t \in Returns :
           IF returns[t].status = "NONE" THEN returns[t].purchase = NoPurchase
           ELSE returns[t].purchase \in Purchases
    /\ \A u \in Purchases :
           /\ purchases[u].status \in {"NONE", "DRAFT"} =>
                  \A r \in Receipts : receipts[r].purchase # u
           /\ ~HasReceiving(u) => \A t \in Returns : returns[t].purchase # u

PurchaseInv ==
    /\ PurchaseTypes
    /\ PurchaseDocumentsFit
    /\ NeverOverReceived
    /\ NeverOverReturned
    /\ StatusTellsReceiving
    /\ CancelledIsClosed

\* The quantities of the stored documents are numbers.
LEMMA PurchaseNumbers ==
    ASSUME PurchaseTypes
    PROVE  /\ \A u \in Purchases, p \in Products : purchases[u].ordered[p] \in Nat
           /\ \A r \in Receipts, p \in Products : receipts[r].lines[p] \in Nat
           /\ \A t \in Returns, c \in Cells : returns[t].lines[c] \in Nat
           /\ \A t \in Returns, p \in Products : OverLocations(returns[t].lines, p) \in Nat
           /\ \A u : \A p \in Products : Received(receipts, u, p) \in Nat
           /\ \A u : \A p \in Products : Returned(returns, u, p) \in Nat
<1>1. /\ \A u \in Purchases : purchases[u].ordered \in Lines(Products)
      /\ \A r \in Receipts : receipts[r].lines \in Lines(Products)
      /\ \A t \in Returns : returns[t].lines \in Lines(Cells)
  BY DEF PurchaseTypes
<1>2. /\ \A u \in Purchases, p \in Products : purchases[u].ordered[p] \in Nat
      /\ \A r \in Receipts, p \in Products : receipts[r].lines[p] \in Nat
      /\ \A t \in Returns, c \in Cells : returns[t].lines[c] \in Nat
  BY <1>1, LinesAreNatural
<1>3. \A t \in Returns, p \in Products : OverLocations(returns[t].lines, p) \in Nat
  <2> TAKE t \in Returns, p \in Products
  <2>1. \A l \in Locations : returns[t].lines[<<p, l>>] \in Nat
    BY <1>2 DEF Cells
  <2> QED BY <2>1, OverLocationsIsNatural
<1>4. \A u : \A p \in Products : Received(receipts, u, p) \in Nat
  BY <1>2, ReceivedIsNatural
<1>5. \A u : \A p \in Products : Returned(returns, u, p) \in Nat
  BY <1>3, ReturnedIsNatural
<1> QED BY <1>2, <1>3, <1>4, <1>5

LEMMA NothingPosted ==
    ASSUME NEW u
    PROVE  /\ (\A r \in Receipts : receipts[r].purchase # u) =>
                  /\ PostedReceipts(receipts, u) = {}
                  /\ \A p : Received(receipts, u, p) = 0
           /\ PostedReceipts(receipts, u) = {} => \A p : Received(receipts, u, p) = 0
           /\ (\A t \in Returns : returns[t].purchase # u) =>
                  \A p : Returned(returns, u, p) = 0
<1>1. (\A r \in Receipts : receipts[r].purchase # u) => PostedReceipts(receipts, u) = {}
  BY DEF PostedReceipts
<1>2. PostedReceipts(receipts, u) = {} => \A p : Received(receipts, u, p) = 0
  BY SumEmpty DEF Received
<1>3. (\A t \in Returns : returns[t].purchase # u) => PostedReturns(returns, u) = {}
  BY DEF PostedReturns
<1>4. PostedReturns(returns, u) = {} => \A p : Returned(returns, u, p) = 0
  BY SumEmpty DEF Returned
<1> QED BY <1>1, <1>2, <1>3, <1>4

\* Before it is confirmed a purchase has no documents, so its row may change.
LEMMA DraftingKeeps ==
    ASSUME PurchaseInv, NEW u \in Purchases,
           NEW row \in [status: {"DRAFT", "CONFIRMED"}, ordered: Lines(Products)],
           purchases[u].status \in {"NONE", "DRAFT"},
           purchases' = [purchases EXCEPT ![u] = row],
           UNCHANGED <<receipts, returns, supplierActive, paid>>
    PROVE  PurchaseInv'
<1>1. PurchaseTypes'
  BY DEF PurchaseInv, PurchaseTypes, PurchaseStatus
<1>2. /\ purchases'[u] = row /\ row.status \in {"DRAFT", "CONFIRMED"}
      /\ \A v \in Purchases \ {u} : purchases'[v] = purchases[v]
  BY DEF PurchaseInv, PurchaseTypes
<1>3. /\ \A r \in Receipts : receipts[r].purchase # u
      /\ \A t \in Returns : returns[t].purchase # u
  BY DEF PurchaseInv, PurchaseDocumentsFit, HasReceiving
<1>4. /\ PostedReceipts(receipts, u) = {}
      /\ \A p : Received(receipts, u, p) = 0
      /\ \A p : Returned(returns, u, p) = 0
  BY <1>3, NothingPosted
<1>5. PurchaseDocumentsFit'
  BY <1>2, <1>3 DEF PurchaseInv, PurchaseDocumentsFit, HasReceiving
<1>6. \A p \in Products : row.ordered[p] \in Nat
  BY LinesAreNatural
<1>7. NeverOverReceived'
  <2> SUFFICES ASSUME NEW v \in Purchases, NEW p \in Products
               PROVE  Received(receipts, v, p) <= purchases'[v].ordered[p]
    BY DEF NeverOverReceived
  <2>1. CASE v = u
    BY <1>2, <1>4, <1>6, <2>1
  <2>2. CASE v # u
    BY <1>2, <2>2 DEF PurchaseInv, NeverOverReceived
  <2> QED BY <2>1, <2>2
<1>8. NeverOverReturned'
  BY DEF PurchaseInv, NeverOverReturned
<1>9. StatusTellsReceiving'
  <2> SUFFICES ASSUME NEW v \in Purchases
               PROVE  LET some == PostedReceipts(receipts, v) # {}
                          complete == \A p \in Products :
                              Received(receipts, v, p) = purchases'[v].ordered[p]
                      IN  /\ purchases'[v].status = "RECEIVED" <=> some /\ complete
                          /\ purchases'[v].status = "PARTIALLY_RECEIVED" <=>
                                 some /\ ~complete
    BY DEF StatusTellsReceiving
  <2>1. CASE v = u
    BY <1>2, <1>4, <2>1
  <2>2. CASE v # u
    BY <1>2, <2>2 DEF PurchaseInv, StatusTellsReceiving
  <2> QED BY <2>1, <2>2
<1>10. CancelledIsClosed'
  BY <1>2 DEF PurchaseInv, CancelledIsClosed
<1> QED BY <1>1, <1>5, <1>7, <1>8, <1>9, <1>10 DEF PurchaseInv

LEMMA DraftingSteps ==
    ASSUME PurchaseInv, NEW u \in Purchases, NEW ordered \in SomeLines(Products),
           CreatePurchase(u, ordered) \/ UpdatePurchase(u, ordered) \/ ConfirmPurchase(u)
    PROVE  PurchaseInv'
<1>1. /\ ordered \in Lines(Products)
      /\ purchases \in [Purchases -> [status: PurchaseStatus, ordered: Lines(Products)]]
  BY DEF SomeLines, PurchaseInv, PurchaseTypes
<1>2. CASE CreatePurchase(u, ordered)
  <2> DEFINE row == [status |-> "DRAFT", ordered |-> ordered]
  <2>1. row \in [status: {"DRAFT", "CONFIRMED"}, ordered: Lines(Products)]
    BY <1>1
  <2> QED BY <1>2, <2>1, DraftingKeeps DEF CreatePurchase
<1>3. CASE UpdatePurchase(u, ordered)
  <2> DEFINE row == [purchases[u] EXCEPT !.ordered = ordered]
  <2>1. /\ row \in [status: {"DRAFT", "CONFIRMED"}, ordered: Lines(Products)]
        /\ purchases' = [purchases EXCEPT ![u] = row]
    BY <1>1, <1>3 DEF UpdatePurchase
  <2> HIDE DEF row
  <2> QED BY <1>3, <2>1, DraftingKeeps DEF UpdatePurchase
<1>4. CASE ConfirmPurchase(u)
  <2> DEFINE row == [purchases[u] EXCEPT !.status = "CONFIRMED"]
  <2>1. /\ row \in [status: {"DRAFT", "CONFIRMED"}, ordered: Lines(Products)]
        /\ purchases' = [purchases EXCEPT ![u] = row]
    BY <1>1, <1>4 DEF ConfirmPurchase
  <2> HIDE DEF row
  <2> QED BY <1>4, <2>1, DraftingKeeps DEF ConfirmPurchase
<1> QED BY <1>2, <1>3, <1>4

\* Steps on receipts and returns that post none.
LEMMA UnpostedKeeps ==
    ASSUME PurchaseInv, PurchaseTypes', PurchaseDocumentsFit', CancelledIsClosed',
           \A u \in Purchases : /\ purchases'[u].ordered = purchases[u].ordered
                                /\ \/ purchases'[u].status = purchases[u].status
                                   \/ /\ purchases[u].status \in {"DRAFT", "CONFIRMED"}
                                      /\ purchases'[u].status = "CANCELLED",
           \A r \in Receipts : receipts[r].status = "POSTED" <=> receipts'[r].status = "POSTED",
           \A r \in Receipts : receipts[r].status = "POSTED" => receipts'[r] = receipts[r],
           \A t \in Returns : returns[t].status = "POSTED" <=> returns'[t].status = "POSTED",
           \A t \in Returns : returns[t].status = "POSTED" => returns'[t] = returns[t]
    PROVE  PurchaseInv'
<1>1. \A u : /\ PostedReceipts(receipts', u) = PostedReceipts(receipts, u)
             /\ PostedReturns(returns', u) = PostedReturns(returns, u)
  BY DEF PostedReceipts, PostedReturns
<1>2. /\ \A r \in Receipts, p \in Products : receipts[r].lines[p] \in Nat
      /\ \A t \in Returns, p \in Products : OverLocations(returns[t].lines, p) \in Nat
  BY PurchaseNumbers DEF PurchaseInv
<1>3. ASSUME NEW u, NEW p \in Products
      PROVE  /\ Received(receipts', u, p) = Received(receipts, u, p)
             /\ Returned(returns', u, p) = Returned(returns, u, p)
  <2>1. \A r \in PostedReceipts(receipts, u) :
            receipts[r].lines[p] \in Nat /\ receipts'[r].lines[p] = receipts[r].lines[p]
    BY <1>2 DEF PostedReceipts
  <2>2. \A t \in PostedReturns(returns, u) :
            /\ OverLocations(returns[t].lines, p) \in Nat
            /\ returns'[t].lines = returns[t].lines
    BY <1>2 DEF PostedReturns
  <2>3. Received(receipts', u, p) = Received(receipts, u, p)
    BY <1>1, <2>1, ReceivedStays
  <2>4. Returned(returns', u, p) = Returned(returns, u, p)
    BY <1>1, <2>2, ReturnedStays
  <2> QED BY <2>3, <2>4
<1>4. NeverOverReceived' /\ NeverOverReturned'
  BY <1>3 DEF PurchaseInv, NeverOverReceived, NeverOverReturned
<1>5. StatusTellsReceiving'
  <2> SUFFICES ASSUME NEW u \in Purchases
               PROVE  LET some == PostedReceipts(receipts', u) # {}
                          complete == \A p \in Products :
                              Received(receipts', u, p) = purchases'[u].ordered[p]
                      IN  /\ purchases'[u].status = "RECEIVED" <=> some /\ complete
                          /\ purchases'[u].status = "PARTIALLY_RECEIVED" <=>
                                 some /\ ~complete
    BY DEF StatusTellsReceiving
  <2> DEFINE some == PostedReceipts(receipts, u) # {}
             complete == \A p \in Products :
                             Received(receipts, u, p) = purchases[u].ordered[p]
  <2>1. /\ purchases[u].status = "RECEIVED" <=> some /\ complete
        /\ purchases[u].status = "PARTIALLY_RECEIVED" <=> some /\ ~complete
    BY DEF PurchaseInv, StatusTellsReceiving
  <2>2. (PostedReceipts(receipts', u) # {}) <=> some
    BY <1>1
  <2>3. (\A p \in Products : Received(receipts', u, p) = purchases'[u].ordered[p]) <=> complete
    BY <1>3
  <2>4. CASE purchases'[u].status = purchases[u].status
    BY <2>1, <2>2, <2>3, <2>4
  <2>5. CASE /\ purchases[u].status \in {"DRAFT", "CONFIRMED"}
             /\ purchases'[u].status = "CANCELLED"
    <3>1. ~some
      BY <2>1, <2>5
    <3> QED BY <2>2, <2>5, <3>1
  <2> QED BY <2>4, <2>5
<1> QED BY <1>4, <1>5 DEF PurchaseInv

LEMMA CancelKeeps ==
    ASSUME PurchaseInv, NEW u \in Purchases, CancelPurchase(u) PROVE PurchaseInv'
<1>1. PurchaseTypes'
  <2>1. purchases' \in [Purchases -> [status: PurchaseStatus, ordered: Lines(Products)]]
    BY DEF PurchaseInv, PurchaseTypes, CancelPurchase, PurchaseStatus
  <2> DEFINE Rows == [status: DocumentStatus, purchase: Purchases \cup {NoPurchase},
                      location: Locations \cup {NoLocation}, lines: Lines(Products)]
  <2>2. ASSUME NEW r \in Receipts
        PROVE  (IF receipts[r].purchase = u /\ receipts[r].status = "DRAFT"
                THEN [receipts[r] EXCEPT !.status = "CANCELLED"]
                ELSE receipts[r]) \in Rows
    <3>1. receipts[r] \in Rows /\ "CANCELLED" \in DocumentStatus
      BY DEF PurchaseInv, PurchaseTypes, DocumentStatus
    <3> HIDE DEF Rows
    <3>2. [receipts[r] EXCEPT !.status = "CANCELLED"] \in Rows
      BY <3>1 DEF Rows
    <3> QED BY <3>1, <3>2
  <2>3. receipts' \in [Receipts -> Rows]
    <3> HIDE DEF Rows
    <3> QED BY <2>2 DEF CancelPurchase
  <2> QED BY <2>1, <2>3 DEF PurchaseInv, PurchaseTypes, CancelPurchase
<1>2. /\ purchases'[u].status = "CANCELLED" /\ purchases'[u].ordered = purchases[u].ordered
      /\ \A v \in Purchases \ {u} : purchases'[v] = purchases[v]
      /\ purchases[u].status \in {"DRAFT", "CONFIRMED"}
      /\ UNCHANGED <<returns, paid>>
  BY DEF CancelPurchase, PurchaseInv, PurchaseTypes
<1>3. \A r \in Receipts :
          /\ receipts'[r].purchase = receipts[r].purchase
          /\ receipts'[r].location = receipts[r].location
          /\ \/ receipts'[r] = receipts[r]
                /\ ~(receipts[r].purchase = u /\ receipts[r].status = "DRAFT")
             \/ /\ receipts[r].status = "DRAFT" /\ receipts'[r].status = "CANCELLED"
                /\ receipts[r].purchase = u
  BY DEF CancelPurchase, PurchaseInv, PurchaseTypes
<1>4. PurchaseDocumentsFit'
  BY <1>2, <1>3 DEF PurchaseInv, PurchaseDocumentsFit, HasReceiving
<1>5. CancelledIsClosed'
  <2> SUFFICES ASSUME NEW v \in Purchases, purchases'[v].status = "CANCELLED"
               PROVE  /\ v \notin paid
                      /\ \A r \in Receipts : receipts'[r].purchase = v =>
                             receipts'[r].status = "CANCELLED"
                      /\ \A t \in Returns : returns[t].purchase # v
    BY <1>2 DEF CancelledIsClosed
  <2>1. CASE v = u
    <3>1. u \notin paid /\ PostedReceipts(receipts, u) = {}
      BY DEF CancelPurchase
    <3>2. \A t \in Returns : returns[t].purchase # u
      BY <1>2 DEF PurchaseInv, PurchaseDocumentsFit, HasReceiving
    <3>3. ASSUME NEW r \in Receipts, receipts'[r].purchase = u
          PROVE  receipts'[r].status = "CANCELLED"
      <4>1. receipts[r].status # "POSTED"
        BY <1>3, <3>1, <3>3 DEF PostedReceipts
      <4>2. receipts[r].status # "NONE"
        BY <1>3, <3>3, PurchasingAssumption DEF PurchaseInv, PurchaseDocumentsFit
      <4>3. receipts[r].status \in {"DRAFT", "CANCELLED"}
        BY <4>1, <4>2 DEF PurchaseInv, PurchaseTypes, DocumentStatus
      <4> QED BY <1>3, <3>3, <4>3
    <3> QED BY <2>1, <3>1, <3>2, <3>3
  <2>2. CASE v # u
    BY <1>2, <1>3, <2>2 DEF PurchaseInv, CancelledIsClosed
  <2> QED BY <2>1, <2>2
<1>6. \A v \in Purchases : /\ purchases'[v].ordered = purchases[v].ordered
                           /\ \/ purchases'[v].status = purchases[v].status
                              \/ /\ purchases[v].status \in {"DRAFT", "CONFIRMED"}
                                 /\ purchases'[v].status = "CANCELLED"
  BY <1>2
<1>7. \A r \in Receipts : /\ receipts[r].status = "POSTED" <=> receipts'[r].status = "POSTED"
                          /\ receipts[r].status = "POSTED" => receipts'[r] = receipts[r]
  BY <1>3
<1> QED BY <1>1, <1>2, <1>4, <1>5, <1>6, <1>7, UnpostedKeeps

LEMMA CreateReceiptKeeps ==
    ASSUME PurchaseInv, NEW r \in Receipts, NEW u \in Purchases, NEW l \in Locations,
           NEW lines \in SomeLines(Products), CreateReceipt(r, u, l, lines)
    PROVE  PurchaseInv'
<1>1. lines \in Lines(Products)
  BY DEF SomeLines
<1>2. /\ receipts'[r] = [status |-> "DRAFT", purchase |-> u, location |-> l, lines |-> lines]
      /\ receipts[r].status = "NONE"
      /\ \A q \in Receipts \ {r} : receipts'[q] = receipts[q]
      /\ UNCHANGED <<purchases, returns, supplierActive, paid>>
      /\ OpenForReceiving(u)
  BY DEF CreateReceipt, PurchaseInv, PurchaseTypes
<1>3. PurchaseTypes'
  BY <1>1 DEF PurchaseInv, PurchaseTypes, CreateReceipt, DocumentStatus
<1>4. PurchaseDocumentsFit'
  BY <1>2 DEF PurchaseInv, PurchaseDocumentsFit, HasReceiving, OpenForReceiving
<1>5. CancelledIsClosed'
  BY <1>2 DEF PurchaseInv, CancelledIsClosed, OpenForReceiving
<1>6. \A q \in Receipts : /\ receipts[q].status = "POSTED" <=> receipts'[q].status = "POSTED"
                          /\ receipts[q].status = "POSTED" => receipts'[q] = receipts[q]
  BY <1>2
<1> QED BY <1>2, <1>3, <1>4, <1>5, <1>6, UnpostedKeeps

LEMMA CreateReturnKeeps ==
    ASSUME PurchaseInv, NEW t \in Returns, NEW u \in Purchases,
           NEW lines \in SomeLines(Cells), CreateReturn(t, u, lines)
    PROVE  PurchaseInv'
<1>1. lines \in Lines(Cells)
  BY DEF SomeLines
<1>2. /\ returns'[t] = [status |-> "DRAFT", purchase |-> u, lines |-> lines]
      /\ returns[t].status = "NONE"
      /\ \A q \in Returns \ {t} : returns'[q] = returns[q]
      /\ UNCHANGED <<purchases, receipts, supplierActive, paid>>
      /\ HasReceiving(u)
  BY DEF CreateReturn, PurchaseInv, PurchaseTypes
<1>3. PurchaseTypes'
  BY <1>1 DEF PurchaseInv, PurchaseTypes, CreateReturn, DocumentStatus
<1>4. PurchaseDocumentsFit'
  BY <1>2 DEF PurchaseInv, PurchaseDocumentsFit, HasReceiving
<1>5. CancelledIsClosed'
  BY <1>2 DEF PurchaseInv, CancelledIsClosed, HasReceiving
<1>6. \A q \in Returns : /\ returns[q].status = "POSTED" <=> returns'[q].status = "POSTED"
                         /\ returns[q].status = "POSTED" => returns'[q] = returns[q]
  BY <1>2
<1> QED BY <1>2, <1>3, <1>4, <1>5, <1>6, UnpostedKeeps

LEMMA PayingKeeps ==
    ASSUME PurchaseInv,
           \/ \E u \in Purchases : PaySupplier(u) \/ ReverseSupplierPayment(u)
           \/ SetSupplierActive
           \/ UNCHANGED purchasingOwnVars
    PROVE  PurchaseInv'
<1>1. UNCHANGED purchasingDocumentVars
  BY DEF PaySupplier, ReverseSupplierPayment, SetSupplierActive, purchasingOwnVars,
         purchasingDocumentVars
<1>2. UNCHANGED <<purchases, receipts, returns>>
  BY <1>1 DEF purchasingDocumentVars
<1>3. supplierActive' \in BOOLEAN /\ paid' \subseteq Purchases
  BY DEF PaySupplier, ReverseSupplierPayment, SetSupplierActive, purchasingOwnVars,
         PurchaseInv, PurchaseTypes
<1>4. \A u \in Purchases : purchases[u].status = "CANCELLED" => (u \in paid' => u \in paid)
  BY DEF PaySupplier, ReverseSupplierPayment, SetSupplierActive, purchasingOwnVars
<1>5. PurchaseTypes' /\ PurchaseDocumentsFit' /\ CancelledIsClosed'
  BY <1>2, <1>3, <1>4 DEF PurchaseInv, PurchaseTypes, PurchaseDocumentsFit,
     CancelledIsClosed, HasReceiving
<1> QED BY <1>2, <1>5, UnpostedKeeps

LEMMA PostReceiptKeeps ==
    ASSUME PurchaseInv, NEW r \in Receipts, PostReceipt(r) PROVE PurchaseInv'
<1> DEFINE u == receipts[r].purchase
           lines == receipts[r].lines
<1>1. /\ receipts[r].status = "DRAFT" /\ u \in Purchases
      /\ receipts' = [receipts EXCEPT ![r].status = "POSTED"]
      /\ purchases' = [purchases EXCEPT ![u].status = StatusAfter(receipts', u)]
      /\ UNCHANGED <<returns, supplierActive, paid>>
      /\ purchases[u].status \in {"CONFIRMED", "PARTIALLY_RECEIVED"}
  BY DEF PostReceipt, OpenForReceiving, PurchaseInv, PurchaseDocumentsFit
<1>2. /\ receipts'[r].status = "POSTED" /\ receipts'[r].purchase = u
      /\ receipts'[r].lines = lines /\ receipts'[r].location = receipts[r].location
      /\ \A q \in Receipts \ {r} : receipts'[q] = receipts[q]
      /\ purchases'[u].status = StatusAfter(receipts', u)
      /\ \A v \in Purchases : purchases'[v].ordered = purchases[v].ordered
      /\ \A v \in Purchases \ {u} : purchases'[v] = purchases[v]
  BY <1>1 DEF PurchaseInv, PurchaseTypes
<1>3. StatusAfter(receipts', u) \in {"PARTIALLY_RECEIVED", "RECEIVED"}
  BY DEF StatusAfter
<1>4. PurchaseTypes'
  BY <1>1, <1>3 DEF PurchaseInv, PurchaseTypes, PurchaseStatus, DocumentStatus
<1>5. PurchaseDocumentsFit'
  BY <1>1, <1>2, <1>3 DEF PurchaseInv, PurchaseDocumentsFit, HasReceiving
<1>6. CancelledIsClosed'
  BY <1>1, <1>2, <1>3 DEF PurchaseInv, CancelledIsClosed
<1>7. /\ \A v \in Purchases, p \in Products : purchases[v].ordered[p] \in Nat
      /\ \A q \in Receipts, p \in Products : receipts[q].lines[p] \in Nat
      /\ \A v : \A p \in Products : Received(receipts, v, p) \in Nat
      /\ \A v : \A p \in Products : Returned(returns, v, p) \in Nat
  BY PurchaseNumbers DEF PurchaseInv
<1> HIDE DEF u, lines
<1>8. ASSUME NEW p \in Products
      PROVE  /\ PostedReceipts(receipts', u) = PostedReceipts(receipts, u) \cup {r}
             /\ Received(receipts', u, p) = Received(receipts, u, p) + lines[p]
             /\ \A v : v # u => /\ PostedReceipts(receipts', v) = PostedReceipts(receipts, v)
                                /\ Received(receipts', v, p) = Received(receipts, v, p)
  <2>1. /\ \A q \in Receipts : receipts[q].lines[p] \in Nat
        /\ receipts[r].status # "POSTED" /\ receipts'[r].status = "POSTED"
        /\ receipts'[r].purchase = receipts[r].purchase
        /\ receipts'[r].lines = receipts[r].lines
        /\ \A q \in Receipts \ {r} : receipts'[q] = receipts[q]
    BY <1>1, <1>2, <1>7 DEF u, lines
  <2> QED BY <2>1, PostingReceives DEF u, lines
<1>9. ASSUME NEW p \in Products
      PROVE  /\ Received(receipts', u, p) <= purchases[u].ordered[p]
             /\ Received(receipts', u, p) >= Received(receipts, u, p)
             /\ Received(receipts', u, p) \in Nat
  <2>1. FitsOrder(u, lines) /\ DOMAIN lines = Products /\ lines[p] \in Nat
    BY <1>7 DEF PostReceipt, PurchaseInv, PurchaseTypes, Lines, u, lines
  <2>2. Received(receipts, u, p) <= purchases[u].ordered[p]
    BY <1>1 DEF PurchaseInv, NeverOverReceived
  <2>3. /\ Received(receipts', u, p) = Received(receipts, u, p) + lines[p]
        /\ Received(receipts, u, p) \in Nat
    BY <1>7, <1>8
  <2>4. CASE lines[p] = 0
    BY <2>2, <2>3, <2>4
  <2>5. CASE lines[p] > 0
    <3>1. Received(receipts, u, p) + lines[p] <= purchases[u].ordered[p]
      BY <2>1, <2>5 DEF FitsOrder, KeysOf
    <3> QED BY <2>1, <2>3, <3>1
  <2> QED BY <2>1, <2>4, <2>5
<1>10. NeverOverReceived'
  <2> SUFFICES ASSUME NEW v \in Purchases, NEW p \in Products
               PROVE  Received(receipts', v, p) <= purchases'[v].ordered[p]
    BY DEF NeverOverReceived
  <2>1. CASE v = u
    BY <1>2, <1>9, <2>1
  <2>2. CASE v # u
    BY <1>2, <1>8, <2>2 DEF PurchaseInv, NeverOverReceived
  <2> QED BY <2>1, <2>2
<1>11. NeverOverReturned'
  <2> SUFFICES ASSUME NEW v \in Purchases, NEW p \in Products
               PROVE  Returned(returns, v, p) <= Received(receipts', v, p)
    BY <1>1 DEF NeverOverReturned
  <2>1. Returned(returns, v, p) <= Received(receipts, v, p)
    BY DEF PurchaseInv, NeverOverReturned
  <2>2. CASE v = u
    BY <1>7, <1>9, <2>1, <2>2
  <2>3. CASE v # u
    BY <1>8, <2>1, <2>3
  <2> QED BY <2>2, <2>3
<1>12. StatusTellsReceiving'
  <2> SUFFICES ASSUME NEW v \in Purchases
               PROVE  LET some == PostedReceipts(receipts', v) # {}
                          complete == \A p \in Products :
                              Received(receipts', v, p) = purchases'[v].ordered[p]
                      IN  /\ purchases'[v].status = "RECEIVED" <=> some /\ complete
                          /\ purchases'[v].status = "PARTIALLY_RECEIVED" <=>
                                 some /\ ~complete
    BY DEF StatusTellsReceiving
  <2>1. CASE v = u
    <3>1. PostedReceipts(receipts', u) # {}
      BY <1>2 DEF PostedReceipts
    <3>2. (\A p \in KeysOf(purchases[u].ordered) :
               Received(receipts', u, p) = purchases[u].ordered[p])
          <=> \A p \in Products : Received(receipts', u, p) = purchases[u].ordered[p]
      <4>1. DOMAIN purchases[u].ordered = Products
        BY <1>1 DEF PurchaseInv, PurchaseTypes, Lines
      <4>2. ASSUME NEW p \in Products, ~(purchases[u].ordered[p] > 0)
            PROVE  Received(receipts', u, p) = purchases[u].ordered[p]
        <5>1. /\ purchases[u].ordered[p] \in Nat
              /\ Received(receipts', u, p) <= purchases[u].ordered[p]
              /\ Received(receipts', u, p) \in Nat
          BY <1>1, <1>7, <1>9
        <5> QED BY <4>2, <5>1
      <4> QED BY <4>1, <4>2 DEF KeysOf
    <3>3. purchases'[u].status = IF \A p \in Products :
                                        Received(receipts', u, p) = purchases[u].ordered[p]
                                 THEN "RECEIVED" ELSE "PARTIALLY_RECEIVED"
      BY <1>2, <3>2 DEF StatusAfter
    <3>4. purchases'[u].ordered = purchases[u].ordered
      BY <1>1, <1>2
    <3> QED BY <2>1, <3>1, <3>3, <3>4
  <2>2. CASE v # u
    <3>1. /\ \A p \in Products : Received(receipts', v, p) = Received(receipts, v, p)
          /\ purchases'[v] = purchases[v]
      BY <1>2, <1>8, <2>2
    <3>2. PostedReceipts(receipts', v) = PostedReceipts(receipts, v)
      <4>1. \A q \in Receipts : /\ receipts'[q].purchase = receipts[q].purchase
                                /\ q # r => receipts'[q] = receipts[q]
        BY <1>2 DEF u
      <4> QED BY <1>2, <2>2, <4>1 DEF PostedReceipts, u
    <3>3. LET some == PostedReceipts(receipts, v) # {}
              complete == \A p \in Products :
                              Received(receipts, v, p) = purchases[v].ordered[p]
          IN  /\ purchases[v].status = "RECEIVED" <=> some /\ complete
              /\ purchases[v].status = "PARTIALLY_RECEIVED" <=> some /\ ~complete
      BY DEF PurchaseInv, StatusTellsReceiving
    <3> QED BY <3>1, <3>2, <3>3
  <2> QED BY <2>1, <2>2
<1> QED BY <1>4, <1>5, <1>6, <1>10, <1>11, <1>12 DEF PurchaseInv

LEMMA PostReturnKeeps ==
    ASSUME PurchaseInv, NEW t \in Returns, PostReturn(t) PROVE PurchaseInv'
<1> DEFINE u == returns[t].purchase
           lines == returns[t].lines
<1>1. /\ returns[t].status = "DRAFT" /\ u \in Purchases
      /\ returns' = [returns EXCEPT ![t].status = "POSTED"]
      /\ UNCHANGED <<purchases, receipts, supplierActive, paid>>
      /\ HasReceiving(u) /\ Eligible(u, lines)
  BY DEF PostReturn, PurchaseInv, PurchaseDocumentsFit
<1>2. /\ returns'[t].status = "POSTED" /\ returns'[t].purchase = u
      /\ returns'[t].lines = lines
      /\ \A q \in Returns \ {t} : returns'[q] = returns[q]
  BY <1>1 DEF PurchaseInv, PurchaseTypes
<1>3. PurchaseTypes'
  BY <1>1 DEF PurchaseInv, PurchaseTypes, DocumentStatus
<1>4. PurchaseDocumentsFit'
  BY <1>1, <1>2 DEF PurchaseInv, PurchaseDocumentsFit, HasReceiving
<1>5. CancelledIsClosed'
  BY <1>1, <1>2 DEF PurchaseInv, CancelledIsClosed, HasReceiving
<1>6. NeverOverReceived' /\ StatusTellsReceiving'
  BY <1>1 DEF PurchaseInv, NeverOverReceived, StatusTellsReceiving
<1>7. /\ \A q \in Returns, p \in Products : OverLocations(returns[q].lines, p) \in Nat
      /\ \A q \in Returns, c \in Cells : returns[q].lines[c] \in Nat
      /\ \A v : \A p \in Products : Received(receipts, v, p) \in Nat
      /\ \A v : \A p \in Products : Returned(returns, v, p) \in Nat
  BY PurchaseNumbers DEF PurchaseInv
<1> HIDE DEF u, lines
<1>8. ASSUME NEW p \in Products
      PROVE  /\ Returned(returns', u, p) =
                    Returned(returns, u, p) + OverLocations(lines, p)
             /\ \A v : v # u => Returned(returns', v, p) = Returned(returns, v, p)
  <2>1. /\ \A q \in Returns : OverLocations(returns[q].lines, p) \in Nat
        /\ returns[t].status # "POSTED" /\ returns'[t].status = "POSTED"
        /\ returns'[t].purchase = returns[t].purchase
        /\ returns'[t].lines = returns[t].lines
        /\ \A q \in Returns \ {t} : returns'[q] = returns[q]
    BY <1>1, <1>2, <1>7 DEF u, lines
  <2> QED BY <2>1, PostingReturns DEF u, lines
<1>9. ASSUME NEW p \in Products PROVE Returned(returns', u, p) <= Received(receipts, u, p)
  <2>1. Returned(returns, u, p) <= Received(receipts, u, p)
    BY <1>1 DEF PurchaseInv, NeverOverReturned
  <2>2. OverLocations(lines, p) \in Nat /\ DOMAIN lines = Cells
        /\ \A c \in Cells : lines[c] \in Nat
    BY <1>7 DEF lines, PurchaseInv, PurchaseTypes, Lines
  <2>3. CASE \A l \in Locations : lines[<<p, l>>] = 0
    <3>1. OverLocations(lines, p) = 0
      BY <2>3, OverLocationsZero
    <3> QED BY <1>7, <1>8, <2>1, <3>1
  <2>4. CASE ~(\A l \in Locations : lines[<<p, l>>] = 0)
    <3>1. PICK l \in Locations : lines[<<p, l>>] # 0
      BY <2>4
    <3>2. <<p, l>> \in Cells
      BY DEF Cells
    <3>3. <<p, l>> \in KeysOf(lines) /\ <<p, l>>[1] = p
      BY <2>2, <3>1, <3>2 DEF KeysOf
    <3>4. OverLocations(lines, p) <= Received(receipts, u, p) - Returned(returns, u, p)
      BY <1>1, <3>3 DEF Eligible
    <3> QED BY <1>7, <1>8, <2>2, <3>4
  <2> QED BY <2>3, <2>4
<1>10. NeverOverReturned'
  <2> SUFFICES ASSUME NEW v \in Purchases, NEW p \in Products
               PROVE  Returned(returns', v, p) <= Received(receipts, v, p)
    BY <1>1 DEF NeverOverReturned
  <2>1. CASE v = u
    BY <1>9, <2>1
  <2>2. CASE v # u
    BY <1>8, <2>2 DEF PurchaseInv, NeverOverReturned
  <2> QED BY <2>1, <2>2
<1> QED BY <1>3, <1>4, <1>5, <1>6, <1>10 DEF PurchaseInv

LEMMA PurchaseInvInit == PurchasingDocumentsInit => PurchaseInv
<1> SUFFICES ASSUME PurchasingDocumentsInit PROVE PurchaseInv
  OBVIOUS
<1>1. PurchaseTypes
  BY DEF PurchasingDocumentsInit, PurchaseTypes, PurchaseStatus, DocumentStatus, Lines
<1>2. PurchaseDocumentsFit
  BY PurchasingAssumption DEF PurchasingDocumentsInit, PurchaseDocumentsFit
<1>3. \A u \in Purchases :
          /\ \A r \in Receipts : receipts[r].purchase # u
          /\ \A t \in Returns : returns[t].purchase # u
  BY PurchasingAssumption DEF PurchasingDocumentsInit
<1>4. \A u \in Purchases :
          /\ PostedReceipts(receipts, u) = {}
          /\ \A p : Received(receipts, u, p) = 0
          /\ \A p : Returned(returns, u, p) = 0
  BY <1>3, NothingPosted
<1>5. \A u \in Purchases : /\ purchases[u].status = "NONE"
                           /\ \A p \in Products : purchases[u].ordered[p] = 0
  BY DEF PurchasingDocumentsInit
<1> QED BY <1>1, <1>2, <1>4, <1>5
        DEF PurchaseInv, NeverOverReceived, NeverOverReturned, StatusTellsReceiving,
            CancelledIsClosed

LEMMA PurchaseInvStep ==
    ASSUME PurchaseInv, PurchasingDocumentsNext \/ UNCHANGED purchasingOwnVars
    PROVE  PurchaseInv'
<1>1. CASE PurchasingDocumentsNext
  <2>1. ASSUME NEW u \in Purchases,
               \/ \E ordered \in SomeLines(Products) :
                      CreatePurchase(u, ordered) \/ UpdatePurchase(u, ordered)
               \/ CancelPurchase(u)
        PROVE  PurchaseInv'
    BY <2>1, DraftingSteps, CancelKeeps
  <2>2. ASSUME NEW u \in Purchases, ConfirmPurchase(u) PROVE PurchaseInv'
    <3> DEFINE row == [purchases[u] EXCEPT !.status = "CONFIRMED"]
    <3>1. /\ row \in [status: {"DRAFT", "CONFIRMED"}, ordered: Lines(Products)]
          /\ purchases' = [purchases EXCEPT ![u] = row]
      BY <2>2 DEF ConfirmPurchase, PurchaseInv, PurchaseTypes
    <3> HIDE DEF row
    <3> QED BY <2>2, <3>1, DraftingKeeps DEF ConfirmPurchase
  <2>3. ASSUME NEW u \in Purchases,
               \/ \E r \in Receipts, l \in Locations, lines \in SomeLines(Products) :
                      CreateReceipt(r, u, l, lines)
               \/ \E t \in Returns, lines \in SomeLines(Cells) : CreateReturn(t, u, lines)
        PROVE  PurchaseInv'
    BY <2>3, CreateReceiptKeeps, CreateReturnKeeps
  <2> QED BY <1>1, <2>1, <2>2, <2>3, PostReceiptKeeps, PostReturnKeeps, PayingKeeps
          DEF PurchasingDocumentsNext
<1>2. CASE UNCHANGED purchasingOwnVars
  BY <1>2, PayingKeeps
<1> QED BY <1>1, <1>2

LEMMA PurchaseInvariant == PurchasingSpec => []PurchaseInv
<1>1. PurchasingInit => PurchaseInv
  BY PurchaseInvInit DEF PurchasingInit
<1>2. PurchaseInv /\ [PurchasingNext]_purchasingVars => PurchaseInv'
  BY PurchaseInvStep DEF PurchasingNext, AroundPurchasing, purchasingVars, purchasingOwnVars
<1> QED BY <1>1, <1>2, PTL DEF PurchasingSpec

\* Whatever receipts are drafted at once and posted in whatever order, no item is
\* ever received beyond what was ordered.
THEOREM ReceivingStaysWithinOrder == PurchasingSpec => []NeverOverReceived
<1>1. PurchaseInv => NeverOverReceived
  BY DEF PurchaseInv
<1> QED BY <1>1, PurchaseInvariant, PTL

\* No item is ever sent back to the supplier beyond what was received of it.
THEOREM ReturningStaysWithinReceived == PurchasingSpec => []NeverOverReturned
<1>1. PurchaseInv => NeverOverReturned
  BY DEF PurchaseInv
<1> QED BY <1>1, PurchaseInvariant, PTL

\* The status stored on a purchase always tells what its receipts add up to.
THEOREM StatusFollowsReceipts == PurchasingSpec => []StatusTellsReceiving
<1>1. PurchaseInv => StatusTellsReceiving
  BY DEF PurchaseInv
<1> QED BY <1>1, PurchaseInvariant, PTL

\* A cancelled purchase keeps no document that could still move goods or money.
THEOREM CancellingCloses == PurchasingSpec => []CancelledIsClosed
<1>1. PurchaseInv => CancelledIsClosed
  BY DEF PurchaseInv
<1> QED BY <1>1, PurchaseInvariant, PTL

-----------------------------------------------------------------------------
(* Sales: the inductive invariant *)

SaleTypes ==
    /\ sales \in [SaleIds -> [status: SaleStatus, items: [Cells -> {0} \cup Quantities],
                              walkIn: BOOLEAN]]
    /\ saleReturns \in [SaleReturnIds ->
                           [status: SaleStatus, sale: SaleIds \cup {NoSale},
                            lines: [ReturnLines -> {0} \cup Quantities]]]
    /\ customerActive \in BOOLEAN

\* A return is of a posted sale from the moment it exists.
SaleDocumentsFit ==
    \A t \in SaleReturnIds :
        IF saleReturns[t].status = "NONE" THEN saleReturns[t].sale = NoSale
        ELSE /\ saleReturns[t].sale \in SaleIds
             /\ sales[saleReturns[t].sale].status = "POSTED"

SaleInv == SaleTypes /\ SaleDocumentsFit /\ NeverReturnedBeyondSale

LEMMA QuantitiesAreNatural == \A x \in {0} \cup Quantities : x \in Nat
BY InventoryAssumption

LEMMA ReturnedToIsNatural ==
    ASSUME NEW lines, NEW item, \A l \in Locations : lines[<<item, l>>] \in Nat
    PROVE  /\ ReturnedTo(lines, item) \in Nat
           /\ (\A l \in Locations : lines[<<item, l>>] = 0) => ReturnedTo(lines, item) = 0
<1> DEFINE f == [l \in Locations |-> lines[<<item, l>>]]
<1>1. \A l \in Locations : f[l] \in Nat /\ f[l] = lines[<<item, l>>]
  OBVIOUS
<1> HIDE DEF f
<1>2. SumFunctionOnSet(f, Locations) \in Nat
  BY <1>1, SumNatural, InventoryAssumption
<1>3. (\A l \in Locations : f[l] = 0) => SumFunctionOnSet(f, Locations) = 0
  BY SumZero, InventoryAssumption
<1>4. ReturnedTo(lines, item) = SumFunctionOnSet(f, Locations)
  BY DEF ReturnedTo, f
<1> QED BY <1>1, <1>2, <1>3, <1>4

LEMMA SaleNumbers ==
    ASSUME SaleTypes
    PROVE  /\ \A s \in SaleIds, c \in Cells : sales[s].items[c] \in Nat
           /\ \A t \in SaleReturnIds, k \in ReturnLines : saleReturns[t].lines[k] \in Nat
           /\ \A t \in SaleReturnIds, c \in Cells : ReturnedTo(saleReturns[t].lines, c) \in Nat
           /\ \A s : \A c \in Cells : SaleReturned(s, c) \in Nat
<1>1. /\ \A s \in SaleIds, c \in Cells : sales[s].items[c] \in {0} \cup Quantities
      /\ \A t \in SaleReturnIds, k \in ReturnLines :
             saleReturns[t].lines[k] \in {0} \cup Quantities
  BY DEF SaleTypes
<1>2. /\ \A s \in SaleIds, c \in Cells : sales[s].items[c] \in Nat
      /\ \A t \in SaleReturnIds, k \in ReturnLines : saleReturns[t].lines[k] \in Nat
  BY <1>1, QuantitiesAreNatural
<1>3. \A t \in SaleReturnIds, c \in Cells : ReturnedTo(saleReturns[t].lines, c) \in Nat
  <2> TAKE t \in SaleReturnIds, c \in Cells
  <2>1. \A l \in Locations : saleReturns[t].lines[<<c, l>>] \in Nat
    BY <1>2 DEF ReturnLines
  <2> QED BY <2>1, ReturnedToIsNatural
<1>4. ASSUME NEW s, NEW c \in Cells PROVE SaleReturned(s, c) \in Nat
  <2> DEFINE f == [t \in SaleReturnIds |-> ReturnedTo(saleReturns[t].lines, c)]
             S == PostedSaleReturns(s)
  <2>1. S \in SUBSET SaleReturnIds
    BY DEF PostedSaleReturns
  <2>2. IsFiniteSet(S) /\ \A t \in S : f[t] \in Nat
    BY <1>3, <2>1, FS_Subset, SalesAssumption
  <2> HIDE DEF f, S
  <2>3. SumFunctionOnSet(f, S) \in Nat
    BY <2>2, SumNatural
  <2> QED BY <2>3 DEF SaleReturned, f, S
<1> QED BY <1>2, <1>3, <1>4

LEMMA SaleReturnedStays ==
    ASSUME SaleTypes, NEW s, NEW c \in Cells,
           PostedSaleReturns(s)' = PostedSaleReturns(s),
           \A t \in PostedSaleReturns(s) : saleReturns'[t].lines = saleReturns[t].lines
    PROVE  SaleReturned(s, c)' = SaleReturned(s, c)
<1> DEFINE f == [t \in SaleReturnIds |-> ReturnedTo(saleReturns[t].lines, c)]
           g == [t \in SaleReturnIds |-> ReturnedTo(saleReturns'[t].lines, c)]
           S == PostedSaleReturns(s)
<1>1. S \in SUBSET SaleReturnIds
  BY DEF PostedSaleReturns
<1>2. IsFiniteSet(S) /\ Integral(f, S) /\ \A t \in S : f[t] = g[t]
  BY <1>1, SaleNumbers, FS_Subset, SalesAssumption DEF Integral
<1>3. SaleReturned(s, c) = SumFunctionOnSet(f, S)
  BY DEF SaleReturned
<1>4. SaleReturned(s, c)' = SumFunctionOnSet(g, S)
  BY DEF SaleReturned, ReturnedTo
<1> HIDE DEF S, f, g
<1>5. SumFunctionOnSet(f, S) = SumFunctionOnSet(g, S)
  BY <1>2, SumAgree
<1> QED BY <1>3, <1>4, <1>5

\* Posting a return adds its lines to what came back of its sale.
LEMMA PostingBringsBack ==
    ASSUME SaleTypes, NEW t \in SaleReturnIds, NEW c \in Cells,
           saleReturns[t].status # "POSTED",
           saleReturns' = [saleReturns EXCEPT ![t].status = "POSTED"], NEW s
    PROVE  SaleReturned(s, c)' = SaleReturned(s, c) +
               IF s = saleReturns[t].sale THEN ReturnedTo(saleReturns[t].lines, c) ELSE 0
<1> DEFINE f == [q \in SaleReturnIds |-> ReturnedTo(saleReturns[q].lines, c)]
           g == [q \in SaleReturnIds |-> ReturnedTo(saleReturns'[q].lines, c)]
           S == PostedSaleReturns(s)
           T == {q \in SaleReturnIds : saleReturns'[q].status = "POSTED" /\ saleReturns'[q].sale = s}
<1>1. /\ \A q \in SaleReturnIds : /\ saleReturns'[q].lines = saleReturns[q].lines
                                  /\ saleReturns'[q].sale = saleReturns[q].sale
                                  /\ q # t => saleReturns'[q] = saleReturns[q]
      /\ saleReturns'[t].status = "POSTED"
  BY DEF SaleTypes
<1>2. S \in SUBSET SaleReturnIds /\ t \notin S
  BY DEF PostedSaleReturns
<1>3. IsFiniteSet(S) /\ Integral(f, S) /\ f[t] \in Int
  BY <1>2, SaleNumbers, FS_Subset, SalesAssumption DEF Integral
<1>4. f = g /\ f[t] = ReturnedTo(saleReturns[t].lines, c)
  BY <1>1
<1>5. SaleReturned(s, c)' = SumFunctionOnSet(g, T)
  BY DEF SaleReturned, ReturnedTo, PostedSaleReturns
<1>6. SaleReturned(s, c) = SumFunctionOnSet(f, S)
  BY DEF SaleReturned
<1>7. SumFunctionOnSet(f, S) \in Int /\ SumFunctionOnSet(f, S \cup {t}) = SumFunctionOnSet(f, S) + f[t]
  <2> HIDE DEF S, f
  <2> QED BY <1>2, <1>3, SumAdd, SumInt
<1>8. T = IF s = saleReturns[t].sale THEN S \cup {t} ELSE S
  BY <1>1 DEF PostedSaleReturns
<1> HIDE DEF f, g, S, T
<1> QED BY <1>4, <1>5, <1>6, <1>7, <1>8

\* Steps that post no return.
LEMMA UnpostedSaleKeeps ==
    ASSUME SaleInv, SaleTypes', SaleDocumentsFit',
           \A s \in SaleIds : /\ sales[s].status = "POSTED" => sales'[s] = sales[s]
                              /\ sales[s].status # "POSTED" =>
                                     \A c \in Cells : SaleReturned(s, c) = 0,
           \A t \in SaleReturnIds : /\ saleReturns[t].status = "POSTED" <=>
                                           saleReturns'[t].status = "POSTED"
                                    /\ saleReturns[t].status = "POSTED" =>
                                           saleReturns'[t] = saleReturns[t]
    PROVE  SaleInv'
<1>1. ASSUME NEW s \in SaleIds, NEW c \in Cells
      PROVE  SaleReturned(s, c)' = SaleReturned(s, c)
  <2>1. PostedSaleReturns(s)' = PostedSaleReturns(s)
    BY DEF PostedSaleReturns
  <2>2. \A t \in PostedSaleReturns(s) : saleReturns'[t].lines = saleReturns[t].lines
    BY DEF PostedSaleReturns
  <2> QED BY <2>1, <2>2, SaleReturnedStays DEF SaleInv
<1>2. NeverReturnedBeyondSale'
  <2> SUFFICES ASSUME NEW s \in SaleIds, NEW c \in Cells
               PROVE  SaleReturned(s, c)' <=
                          IF sales'[s].status = "POSTED" THEN sales'[s].items[c] ELSE 0
    BY DEF NeverReturnedBeyondSale
  <2>1. CASE sales[s].status = "POSTED"
    BY <1>1, <2>1 DEF SaleInv, NeverReturnedBeyondSale
  <2>2. CASE sales[s].status # "POSTED"
    <3>1. SaleReturned(s, c)' = 0
      BY <1>1, <2>2
    <3>2. sales'[s].items[c] \in {0} \cup Quantities
      BY DEF SaleTypes
    <3> QED BY <3>1, <3>2, QuantitiesAreNatural
  <2> QED BY <2>1, <2>2
<1> QED BY <1>2 DEF SaleInv

\* A sale without a posted return, as every sale is that is not posted itself.
LEMMA NothingBack ==
    ASSUME SaleInv, NEW s \in SaleIds, sales[s].status # "POSTED"
    PROVE  /\ \A t \in SaleReturnIds : saleReturns[t].sale # s
           /\ \A c \in Cells : SaleReturned(s, c) = 0
<1>1. \A t \in SaleReturnIds : saleReturns[t].sale # s
  BY SalesAssumption DEF SaleInv, SaleDocumentsFit
<1>2. PostedSaleReturns(s) = {}
  BY <1>1 DEF PostedSaleReturns
<1> QED BY <1>1, <1>2, SumEmpty DEF SaleReturned

\* A row of a sale may change until the sale is posted.
LEMMA SaleRowKeeps ==
    ASSUME SaleInv, NEW s \in SaleIds, sales[s].status # "POSTED",
           NEW row \in [status: SaleStatus, items: [Cells -> {0} \cup Quantities],
                        walkIn: BOOLEAN],
           sales' = [sales EXCEPT ![s] = row],
           UNCHANGED <<saleReturns, customerActive>>
    PROVE  SaleInv'
<1>1. SaleTypes'
  BY DEF SaleInv, SaleTypes
<1>2. \A v \in SaleIds : sales[v].status = "POSTED" => sales'[v] = sales[v]
  BY DEF SaleInv, SaleTypes
<1>3. SaleDocumentsFit'
  BY <1>2 DEF SaleInv, SaleDocumentsFit
<1>4. \A v \in SaleIds : sales[v].status # "POSTED" => \A c \in Cells : SaleReturned(v, c) = 0
  BY NothingBack
<1> QED BY <1>1, <1>2, <1>3, <1>4, UnpostedSaleKeeps

LEMMA SaleStepsKeep ==
    ASSUME SaleInv, NEW s \in SaleIds,
           \/ \E items \in ItemsOver(Cells), walkIn \in BOOLEAN :
                  CreateSale(s, items, walkIn) \/ UpdateSale(s, items, walkIn)
           \/ PostSale(s) \/ CancelSale(s)
    PROVE  SaleInv'
<1> DEFINE Rows == [status: SaleStatus, items: [Cells -> {0} \cup Quantities],
                    walkIn: BOOLEAN]
<1>0. sales \in [SaleIds -> Rows] /\ {"DRAFT", "POSTED", "CANCELLED"} \subseteq SaleStatus
  BY DEF SaleInv, SaleTypes, SaleStatus
<1>1. ASSUME NEW items \in ItemsOver(Cells), NEW walkIn \in BOOLEAN,
             CreateSale(s, items, walkIn)
      PROVE  SaleInv'
  <2> DEFINE row == [status |-> "DRAFT", items |-> items, walkIn |-> walkIn]
  <2>1. row \in Rows
    BY <1>0 DEF ItemsOver
  <2> QED BY <1>1, <2>1, SaleRowKeeps DEF CreateSale
<1>2. ASSUME NEW items \in ItemsOver(Cells), NEW walkIn \in BOOLEAN,
             UpdateSale(s, items, walkIn)
      PROVE  SaleInv'
  <2> DEFINE row == [sales[s] EXCEPT !.items = items, !.walkIn = walkIn]
  <2>1. items \in [Cells -> {0} \cup Quantities]
    BY DEF ItemsOver
  <2>2. row \in Rows
    BY <1>0, <2>1
  <2>3. sales' = [sales EXCEPT ![s] = row]
    BY <1>0, <1>2 DEF UpdateSale
  <2> HIDE DEF row
  <2> QED BY <1>2, <2>2, <2>3, SaleRowKeeps DEF UpdateSale
<1>3. CASE PostSale(s)
  <2> DEFINE row == [sales[s] EXCEPT !.status = "POSTED"]
  <2>1. row \in Rows /\ sales' = [sales EXCEPT ![s] = row]
    BY <1>0, <1>3 DEF PostSale
  <2> HIDE DEF row
  <2> QED BY <1>3, <2>1, SaleRowKeeps DEF PostSale
<1>4. CASE CancelSale(s)
  <2> DEFINE row == [sales[s] EXCEPT !.status = "CANCELLED"]
  <2>1. row \in Rows /\ sales' = [sales EXCEPT ![s] = row]
    BY <1>0, <1>4 DEF CancelSale
  <2> HIDE DEF row
  <2> QED BY <1>4, <2>1, SaleRowKeeps DEF CancelSale
<1> QED BY <1>1, <1>2, <1>3, <1>4

LEMMA CreateSaleReturnKeeps ==
    ASSUME SaleInv, NEW t \in SaleReturnIds, NEW s \in SaleIds,
           NEW lines \in ItemsOver(ReturnLines), CreateSaleReturn(t, s, lines)
    PROVE  SaleInv'
<1>1. lines \in [ReturnLines -> {0} \cup Quantities]
  BY DEF ItemsOver
<1>2. /\ saleReturns'[t] = [status |-> "DRAFT", sale |-> s, lines |-> lines]
      /\ saleReturns[t].status = "NONE" /\ sales[s].status = "POSTED"
      /\ \A q \in SaleReturnIds \ {t} : saleReturns'[q] = saleReturns[q]
      /\ UNCHANGED <<sales, customerActive>>
  BY DEF CreateSaleReturn, ReturnAllowed, SaleInv, SaleTypes
<1>3. SaleTypes'
  BY <1>1 DEF SaleInv, SaleTypes, CreateSaleReturn, SaleStatus
<1>4. SaleDocumentsFit'
  BY <1>2 DEF SaleInv, SaleDocumentsFit
<1>5. \A v \in SaleIds : sales[v].status # "POSTED" => \A c \in Cells : SaleReturned(v, c) = 0
  BY NothingBack
<1>6. \A q \in SaleReturnIds : /\ saleReturns[q].status = "POSTED" <=>
                                      saleReturns'[q].status = "POSTED"
                               /\ saleReturns[q].status = "POSTED" =>
                                      saleReturns'[q] = saleReturns[q]
  BY <1>2
<1> QED BY <1>2, <1>3, <1>4, <1>5, <1>6, UnpostedSaleKeeps

LEMMA PostSaleReturnKeeps ==
    ASSUME SaleInv, NEW t \in SaleReturnIds, PostSaleReturn(t) PROVE SaleInv'
<1> DEFINE sale == saleReturns[t].sale
           lines == saleReturns[t].lines
<1>1. /\ saleReturns[t].status = "DRAFT" /\ sale \in SaleIds
      /\ saleReturns' = [saleReturns EXCEPT ![t].status = "POSTED"]
      /\ UNCHANGED <<sales, customerActive>>
  BY DEF PostSaleReturn, SaleInv, SaleDocumentsFit
<1>2. sales[sale].status = "POSTED" /\ SaleEligible(sale, lines)
  BY DEF PostSaleReturn, ReturnAllowed
<1>3. SaleTypes'
  BY <1>1 DEF SaleInv, SaleTypes, SaleStatus
<1>4. SaleDocumentsFit'
  BY <1>1 DEF SaleInv, SaleDocumentsFit, SaleTypes
<1>5. /\ \A v \in SaleIds, c \in Cells : sales[v].items[c] \in Nat
      /\ \A c \in Cells : ReturnedTo(lines, c) \in Nat
      /\ \A c \in Cells : SaleReturned(sale, c) \in Nat
      /\ \A k \in ReturnLines : lines[k] \in Nat
      /\ DOMAIN lines = ReturnLines
  BY SaleNumbers DEF SaleInv, SaleTypes
<1>6. \A s, c : c \in Cells => SaleReturned(s, c)' = SaleReturned(s, c) +
          IF s = sale THEN ReturnedTo(lines, c) ELSE 0
  BY <1>1, PostingBringsBack DEF SaleInv
<1>7. \A s \in SaleIds, c \in Cells : SaleReturned(s, c) \in Nat
  BY SaleNumbers DEF SaleInv
<1> HIDE DEF sale, lines
<1>8. ASSUME NEW c \in Cells
      PROVE  SaleReturned(sale, c) + ReturnedTo(lines, c) <= sales[sale].items[c]
  <2>1. SaleReturned(sale, c) <= sales[sale].items[c]
    BY <1>1, <1>2 DEF SaleInv, NeverReturnedBeyondSale
  <2>2. /\ SaleReturned(sale, c) \in Nat /\ ReturnedTo(lines, c) \in Nat
        /\ sales[sale].items[c] \in Nat
    BY <1>1, <1>5
  <2>3. CASE \A l \in Locations : lines[<<c, l>>] = 0
    <3>1. \A l \in Locations : lines[<<c, l>>] \in Nat
      BY <1>5 DEF ReturnLines
    <3>2. ReturnedTo(lines, c) = 0
      BY <2>3, <3>1, ReturnedToIsNatural
    <3> QED BY <2>1, <2>2, <3>2
  <2>4. CASE ~(\A l \in Locations : lines[<<c, l>>] = 0)
    <3>1. PICK l \in Locations : lines[<<c, l>>] # 0
      BY <2>4
    <3>2. <<c, l>> \in ReturnLines
      BY DEF ReturnLines
    <3>3. <<c, l>> \in ItemKeys(lines) /\ <<c, l>>[1] = c
      BY <1>5, <3>1, <3>2 DEF ItemKeys
    <3>4. ReturnedTo(lines, c) <= sales[sale].items[c] - SaleReturned(sale, c)
      BY <1>2, <3>3 DEF SaleEligible
    <3> QED BY <2>2, <3>4
  <2> QED BY <2>3, <2>4
<1>9. NeverReturnedBeyondSale'
  <2> SUFFICES ASSUME NEW s \in SaleIds, NEW c \in Cells
               PROVE  SaleReturned(s, c)' <=
                          IF sales[s].status = "POSTED" THEN sales[s].items[c] ELSE 0
    BY <1>1 DEF NeverReturnedBeyondSale
  <2>1. CASE s = sale
    <3>1. SaleReturned(s, c)' = SaleReturned(sale, c) + ReturnedTo(lines, c)
      BY <1>6, <2>1
    <3> QED BY <1>2, <1>8, <2>1, <3>1
  <2>2. CASE s # sale
    <3>1. SaleReturned(s, c)' = SaleReturned(s, c)
      BY <1>6, <1>7, <2>2
    <3> QED BY <3>1 DEF SaleInv, NeverReturnedBeyondSale
  <2> QED BY <2>1, <2>2
<1> QED BY <1>3, <1>4, <1>9 DEF SaleInv

LEMMA SaleInvInit == SalesDocumentsInit => SaleInv
<1> SUFFICES ASSUME SalesDocumentsInit PROVE SaleInv
  OBVIOUS
<1>1. SaleTypes /\ SaleDocumentsFit
  BY DEF SalesDocumentsInit, SaleTypes, SaleStatus, SaleDocumentsFit
<1>2. \A s \in SaleIds : PostedSaleReturns(s) = {} /\ sales[s].status = "NONE"
  BY DEF SalesDocumentsInit, PostedSaleReturns
<1>3. \A s \in SaleIds, c \in Cells : SaleReturned(s, c) = 0
  BY <1>2, SumEmpty DEF SaleReturned
<1> QED BY <1>1, <1>2, <1>3 DEF SaleInv, NeverReturnedBeyondSale

LEMMA SaleInvStep ==
    ASSUME SaleInv, SalesDocumentsNext \/ UNCHANGED salesOwnVars PROVE SaleInv'
<1>1. ASSUME UNCHANGED <<sales, saleReturns>>, customerActive' \in BOOLEAN PROVE SaleInv'
  <2>1. SaleTypes' /\ SaleDocumentsFit'
    BY <1>1 DEF SaleInv, SaleTypes, SaleDocumentsFit
  <2>2. \A v \in SaleIds : sales[v].status # "POSTED" =>
            \A c \in Cells : SaleReturned(v, c) = 0
    BY NothingBack
  <2> QED BY <1>1, <2>1, <2>2, UnpostedSaleKeeps
<1>2. CASE SetCustomerActive
  BY <1>1, <1>2 DEF SetCustomerActive
<1>3. CASE UNCHANGED salesOwnVars
  BY <1>1, <1>3 DEF salesOwnVars, SaleInv, SaleTypes
<1>4. ASSUME NEW s \in SaleIds,
             \/ \E items \in ItemsOver(Cells), walkIn \in BOOLEAN :
                    CreateSale(s, items, walkIn) \/ UpdateSale(s, items, walkIn)
             \/ PostSale(s) \/ CancelSale(s)
      PROVE  SaleInv'
  BY <1>4, SaleStepsKeep
<1> QED BY <1>2, <1>3, <1>4, CreateSaleReturnKeeps, PostSaleReturnKeeps
        DEF SalesDocumentsNext

LEMMA SaleInvariant == SalesSpec => []SaleInv
<1>1. SalesInit => SaleInv
  BY SaleInvInit DEF SalesInit
<1>2. SaleInv /\ [SalesNext]_salesVars => SaleInv'
  BY SaleInvStep DEF SalesNext, AroundSales, salesVars, salesOwnVars
<1> QED BY <1>1, <1>2, PTL DEF SalesSpec

\* However many returns of a sale are drafted at once and in whatever order they
\* are posted, no more units of an item come back than were sold.
THEOREM ReturnsStayWithinSale == SalesSpec => []NeverReturnedBeyondSale
<1>1. SaleInv => NeverReturnedBeyondSale
  BY DEF SaleInv
<1> QED BY <1>1, SaleInvariant, PTL

-----------------------------------------------------------------------------
(* Purchases and the ledger *)

\* what a line of a document asks of the ledger
ReceiptLine(docs, r, p) ==
    Request("IN", p, NoLocation, docs[r].location, docs[r].lines[p],
            <<"PURCHASE_RECEIPT", r, p>>)
ReturnLine(docs, t, c) ==
    Request("OUT", c[1], c[2], NoLocation, docs[t].lines[c], <<"PURCHASE_RETURN", t, c>>)

\* what the posted documents have asked
AskedByReceipts(docs) ==
    {x \in Requests : \E r \in Receipts : \E p \in Products :
        docs[r].status = "POSTED" /\ docs[r].lines[p] > 0 /\ x = ReceiptLine(docs, r, p)}
AskedByReturns(docs) ==
    {x \in Requests : \E t \in Returns : \E c \in Cells :
        docs[t].status = "POSTED" /\ docs[t].lines[c] > 0 /\ x = ReturnLine(docs, t, c)}
PurchasingAsked(docs, back) == AskedByReceipts(docs) \cup AskedByReturns(back)

LEMMA ReceiptLineIsRequest ==
    ASSUME PurchaseInv, NEW r \in Receipts, NEW p \in Products
    PROVE  /\ ReceiptLine(receipts, r, p) \in Requests
           /\ ReceiptLine(receipts, r, p).ref = <<"PURCHASE_RECEIPT", r, p>>
           /\ <<"PURCHASE_RECEIPT", r, p>> \in PurchasingRefs
<1>1. <<"PURCHASE_RECEIPT", r, p>> \in PurchasingRefs
  BY DEF PurchasingRefs
<1>2. receipts[r].lines[p] \in Nat
  BY PurchaseNumbers DEF PurchaseInv
<1>3. receipts[r].location \in Locations \cup {NoLocation}
  BY DEF PurchaseInv, PurchaseTypes
<1> QED BY <1>1, <1>2, <1>3, PurchasingAssumption DEF ReceiptLine, Request, Requests, Types

LEMMA ReturnLineIsRequest ==
    ASSUME PurchaseInv, NEW t \in Returns, NEW c \in Cells
    PROVE  /\ ReturnLine(returns, t, c) \in Requests
           /\ ReturnLine(returns, t, c).ref = <<"PURCHASE_RETURN", t, c>>
           /\ <<"PURCHASE_RETURN", t, c>> \in PurchasingRefs
<1>1. <<"PURCHASE_RETURN", t, c>> \in PurchasingRefs
  BY DEF PurchasingRefs
<1>2. returns[t].lines[c] \in Nat
  BY PurchaseNumbers DEF PurchaseInv
<1>3. c[1] \in Products /\ c[2] \in Locations
  BY DEF Cells
<1> QED BY <1>1, <1>2, <1>3, PurchasingAssumption DEF ReturnLine, Request, Requests, Types

LEMMA AskedByReceiptsStays ==
    ASSUME NEW docs, NEW docs2,
           \A r \in Receipts : /\ docs[r].status = "POSTED" <=> docs2[r].status = "POSTED"
                               /\ docs[r].status = "POSTED" => docs2[r] = docs[r]
    PROVE  AskedByReceipts(docs2) = AskedByReceipts(docs)
BY DEF AskedByReceipts, ReceiptLine

LEMMA AskedByReturnsStays ==
    ASSUME NEW docs, NEW docs2,
           \A t \in Returns : /\ docs[t].status = "POSTED" <=> docs2[t].status = "POSTED"
                              /\ docs[t].status = "POSTED" => docs2[t] = docs[t]
    PROVE  AskedByReturns(docs2) = AskedByReturns(docs)
BY DEF AskedByReturns, ReturnLine

\* The requests of a receipt are its lines, and posting it adds them to what was
\* asked.
LEMMA ReceiptAsks ==
    ASSUME PurchaseInv, NEW r \in Receipts, receipts[r].status # "POSTED", NEW S,
           S = {ReceiptLine(receipts, r, p) : p \in KeysOf(receipts[r].lines)},
           NEW docs, docs[r].status = "POSTED",
           docs[r].lines = receipts[r].lines, docs[r].location = receipts[r].location,
           \A q \in Receipts \ {r} : docs[q] = receipts[q]
    PROVE  /\ IsFiniteSet(S) /\ S \subseteq Requests
           /\ ReceiptRequests(r) = SetToSeq(S)
           /\ AskedByReceipts(docs) = AskedByReceipts(receipts) \cup S
<1> DEFINE K == KeysOf(receipts[r].lines)
           f == [p \in K |-> ReceiptLine(receipts, r, p)]
<1>1. K = {p \in Products : receipts[r].lines[p] > 0}
  BY DEF KeysOf, PurchaseInv, PurchaseTypes, Lines
<1>2. IsFiniteSet(K)
  BY <1>1, FS_Subset, InventoryAssumption
<1>3. S = {f[p] : p \in K}
  OBVIOUS
<1>4. IsFiniteSet(S)
  <2> HIDE DEF f, K
  <2> QED BY <1>2, <1>3, ImageIsFinite
<1>5. S \subseteq Requests
  BY <1>1, ReceiptLineIsRequest
<1>6. ReceiptRequests(r) = SetToSeq(S)
  BY DEF ReceiptRequests, ReceiptLine
<1>7. \A p : ReceiptLine(docs, r, p) = ReceiptLine(receipts, r, p)
  BY DEF ReceiptLine
<1>8. \A q \in Receipts \ {r} : \A p : ReceiptLine(docs, q, p) = ReceiptLine(receipts, q, p)
  BY DEF ReceiptLine
<1>9. AskedByReceipts(docs) = AskedByReceipts(receipts) \cup S
  <2>1. ASSUME NEW x \in AskedByReceipts(docs)
        PROVE  x \in AskedByReceipts(receipts) \cup S
    <3>1. PICK q \in Receipts, p \in Products :
              docs[q].status = "POSTED" /\ docs[q].lines[p] > 0 /\ x = ReceiptLine(docs, q, p)
      BY DEF AskedByReceipts
    <3>2. CASE q = r
      BY <1>1, <1>7, <3>1, <3>2
    <3>3. CASE q # r
      <4>1. /\ receipts[q].status = "POSTED" /\ receipts[q].lines[p] > 0
            /\ x = ReceiptLine(receipts, q, p) /\ x \in Requests
        BY <1>8, <3>1, <3>3, ReceiptLineIsRequest
      <4> QED BY <4>1 DEF AskedByReceipts
    <3> QED BY <3>2, <3>3
  <2>2. ASSUME NEW x \in S PROVE x \in AskedByReceipts(docs)
    <3>1. PICK p \in Products : receipts[r].lines[p] > 0 /\ x = ReceiptLine(receipts, r, p)
      BY <1>1
    <3>2. docs[r].lines[p] > 0 /\ x = ReceiptLine(docs, r, p) /\ x \in Requests
      BY <1>5, <1>7, <3>1
    <3> QED BY <3>2 DEF AskedByReceipts
  <2>3. ASSUME NEW x \in AskedByReceipts(receipts) PROVE x \in AskedByReceipts(docs)
    <3>1. PICK q \in Receipts, p \in Products :
              /\ receipts[q].status = "POSTED" /\ receipts[q].lines[p] > 0
              /\ x = ReceiptLine(receipts, q, p)
      BY DEF AskedByReceipts
    <3>2. /\ docs[q].status = "POSTED" /\ docs[q].lines[p] > 0
          /\ x = ReceiptLine(docs, q, p) /\ x \in Requests
      BY <1>8, <3>1, ReceiptLineIsRequest
    <3> QED BY <3>2 DEF AskedByReceipts
  <2> QED BY <2>1, <2>2, <2>3
<1> QED BY <1>4, <1>5, <1>6, <1>9

\* The same for a return to the supplier.
LEMMA ReturnAsks ==
    ASSUME PurchaseInv, NEW t \in Returns, returns[t].status # "POSTED", NEW S,
           S = {ReturnLine(returns, t, c) : c \in KeysOf(returns[t].lines)},
           NEW docs, docs[t].status = "POSTED", docs[t].lines = returns[t].lines,
           \A q \in Returns \ {t} : docs[q] = returns[q]
    PROVE  /\ IsFiniteSet(S) /\ S \subseteq Requests
           /\ ReturnRequests(t) = SetToSeq(S)
           /\ AskedByReturns(docs) = AskedByReturns(returns) \cup S
<1> DEFINE K == KeysOf(returns[t].lines)
           f == [c \in K |-> ReturnLine(returns, t, c)]
<1>1. K = {c \in Cells : returns[t].lines[c] > 0}
  BY DEF KeysOf, PurchaseInv, PurchaseTypes, Lines
<1>2. IsFiniteSet(K)
  <2>1. IsFiniteSet(Cells)
    BY FS_Product, InventoryAssumption DEF Cells
  <2> QED BY <1>1, <2>1, FS_Subset
<1>3. S = {f[c] : c \in K}
  OBVIOUS
<1>4. IsFiniteSet(S)
  <2> HIDE DEF f, K
  <2> QED BY <1>2, <1>3, ImageIsFinite
<1>5. S \subseteq Requests
  BY <1>1, ReturnLineIsRequest
<1>6. ReturnRequests(t) = SetToSeq(S)
  BY DEF ReturnRequests, ReturnLine
<1>7. \A c : ReturnLine(docs, t, c) = ReturnLine(returns, t, c)
  BY DEF ReturnLine
<1>8. \A q \in Returns \ {t} : \A c : ReturnLine(docs, q, c) = ReturnLine(returns, q, c)
  BY DEF ReturnLine
<1>9. AskedByReturns(docs) = AskedByReturns(returns) \cup S
  <2>1. ASSUME NEW x \in AskedByReturns(docs)
        PROVE  x \in AskedByReturns(returns) \cup S
    <3>1. PICK q \in Returns, c \in Cells :
              docs[q].status = "POSTED" /\ docs[q].lines[c] > 0 /\ x = ReturnLine(docs, q, c)
      BY DEF AskedByReturns
    <3>2. CASE q = t
      BY <1>1, <1>7, <3>1, <3>2
    <3>3. CASE q # t
      <4>1. /\ returns[q].status = "POSTED" /\ returns[q].lines[c] > 0
            /\ x = ReturnLine(returns, q, c) /\ x \in Requests
        BY <1>8, <3>1, <3>3, ReturnLineIsRequest
      <4> QED BY <4>1 DEF AskedByReturns
    <3> QED BY <3>2, <3>3
  <2>2. ASSUME NEW x \in S PROVE x \in AskedByReturns(docs)
    <3>1. PICK c \in Cells : returns[t].lines[c] > 0 /\ x = ReturnLine(returns, t, c)
      BY <1>1
    <3>2. docs[t].lines[c] > 0 /\ x = ReturnLine(docs, t, c) /\ x \in Requests
      BY <1>5, <1>7, <3>1
    <3> QED BY <3>2 DEF AskedByReturns
  <2>3. ASSUME NEW x \in AskedByReturns(returns) PROVE x \in AskedByReturns(docs)
    <3>1. PICK q \in Returns, c \in Cells :
              /\ returns[q].status = "POSTED" /\ returns[q].lines[c] > 0
              /\ x = ReturnLine(returns, q, c)
      BY DEF AskedByReturns
    <3>2. /\ docs[q].status = "POSTED" /\ docs[q].lines[c] > 0
          /\ x = ReturnLine(docs, q, c) /\ x \in Requests
      BY <1>8, <3>1, ReturnLineIsRequest
    <3> QED BY <3>2 DEF AskedByReturns
  <2> QED BY <2>1, <2>2, <2>3
<1> QED BY <1>4, <1>5, <1>6, <1>9

\* Every step on purchase documents keeps the two tables in order and adds rows
\* for exactly the requests the newly posted documents ask.
LEMMA PurchasingGrows ==
    ASSUME StockKept, PurchaseInv, PurchasingDocumentsNext
    PROVE  /\ StockKept'
           /\ \E S : /\ GrowsBy(movements, movements', S)
                     /\ \A x \in S : x.ref \in PurchasingRefs
                     /\ PurchasingAsked(receipts', returns') =
                            PurchasingAsked(receipts, returns) \cup S
<1>1. ASSUME UNCHANGED <<ledgerVars, masterVars>>,
             AskedByReceipts(receipts') = AskedByReceipts(receipts),
             AskedByReturns(returns') = AskedByReturns(returns)
      PROVE  /\ StockKept'
             /\ \E S : /\ GrowsBy(movements, movements', S)
                       /\ \A x \in S : x.ref \in PurchasingRefs
                       /\ PurchasingAsked(receipts', returns') =
                              PurchasingAsked(receipts, returns) \cup S
  <2>1. activeProducts' \subseteq Products /\ activeLocations' \subseteq Locations
    BY <1>1 DEF masterVars, StockKept
  <2>2. StockKept' /\ GrowsBy(movements, movements', {})
    BY <1>1, <2>1, NothingMoved
  <2> QED BY <1>1, <2>2 DEF PurchasingAsked
<1>2. /\ receipts' = receipts => AskedByReceipts(receipts') = AskedByReceipts(receipts)
      /\ returns' = returns => AskedByReturns(returns') = AskedByReturns(returns)
  BY DEF AskedByReceipts, AskedByReturns, ReceiptLine, ReturnLine
<1>3. ASSUME NEW r \in Receipts, PostReceipt(r)
      PROVE  /\ StockKept'
             /\ \E S : /\ GrowsBy(movements, movements', S)
                       /\ \A x \in S : x.ref \in PurchasingRefs
                       /\ PurchasingAsked(receipts', returns') =
                              PurchasingAsked(receipts, returns) \cup S
  <2> DEFINE S == {ReceiptLine(receipts, r, p) : p \in KeysOf(receipts[r].lines)}
  <2>1. /\ receipts[r].status = "DRAFT"
        /\ \E g \in ApplyAll(stock, movements, ReceiptRequests(r)) :
               stock' = g.stock /\ movements' = g.movements
        /\ receipts' = [receipts EXCEPT ![r].status = "POSTED"]
        /\ UNCHANGED masterVars /\ returns' = returns
    BY <1>3 DEF PostReceipt
  <2>2. /\ receipts'[r].status = "POSTED"
        /\ receipts'[r].lines = receipts[r].lines
        /\ receipts'[r].location = receipts[r].location
        /\ \A q \in Receipts \ {r} : receipts'[q] = receipts[q]
    BY <2>1 DEF PurchaseInv, PurchaseTypes
  <2>3. \A x \in S : x.ref \in PurchasingRefs
    <3>1. KeysOf(receipts[r].lines) \subseteq Products
      BY DEF KeysOf, PurchaseInv, PurchaseTypes, Lines
    <3> QED BY <3>1, ReceiptLineIsRequest
  <2>4. S = {ReceiptLine(receipts, r, p) : p \in KeysOf(receipts[r].lines)}
    OBVIOUS
  <2> HIDE DEF S
  <2>5. /\ IsFiniteSet(S) /\ S \subseteq Requests
        /\ ReceiptRequests(r) = SetToSeq(S)
        /\ AskedByReceipts(receipts') = AskedByReceipts(receipts) \cup S
    <3>1. receipts[r].status # "POSTED"
      BY <2>1
    <3> QED BY <2>2, <2>4, <3>1, ReceiptAsks
  <2>6. StockKept' /\ GrowsBy(movements, movements', S)
    BY <2>1, <2>5, DocumentPosted
  <2>7. PurchasingAsked(receipts', returns') = PurchasingAsked(receipts, returns) \cup S
    BY <1>2, <2>1, <2>5 DEF PurchasingAsked
  <2> QED BY <2>3, <2>6, <2>7
<1>4. ASSUME NEW t \in Returns, PostReturn(t)
      PROVE  /\ StockKept'
             /\ \E S : /\ GrowsBy(movements, movements', S)
                       /\ \A x \in S : x.ref \in PurchasingRefs
                       /\ PurchasingAsked(receipts', returns') =
                              PurchasingAsked(receipts, returns) \cup S
  <2> DEFINE S == {ReturnLine(returns, t, c) : c \in KeysOf(returns[t].lines)}
  <2>1. /\ returns[t].status = "DRAFT"
        /\ \E g \in ApplyAll(stock, movements, ReturnRequests(t)) :
               stock' = g.stock /\ movements' = g.movements
        /\ returns' = [returns EXCEPT ![t].status = "POSTED"]
        /\ UNCHANGED masterVars /\ receipts' = receipts
    BY <1>4 DEF PostReturn
  <2>2. /\ returns'[t].status = "POSTED"
        /\ returns'[t].lines = returns[t].lines
        /\ \A q \in Returns \ {t} : returns'[q] = returns[q]
    BY <2>1 DEF PurchaseInv, PurchaseTypes
  <2>3. \A x \in S : x.ref \in PurchasingRefs
    <3>1. KeysOf(returns[t].lines) \subseteq Cells
      BY DEF KeysOf, PurchaseInv, PurchaseTypes, Lines
    <3> QED BY <3>1, ReturnLineIsRequest
  <2>4. S = {ReturnLine(returns, t, c) : c \in KeysOf(returns[t].lines)}
    OBVIOUS
  <2> HIDE DEF S
  <2>5. /\ IsFiniteSet(S) /\ S \subseteq Requests
        /\ ReturnRequests(t) = SetToSeq(S)
        /\ AskedByReturns(returns') = AskedByReturns(returns) \cup S
    <3>1. returns[t].status # "POSTED"
      BY <2>1
    <3> QED BY <2>2, <2>4, <3>1, ReturnAsks
  <2>6. StockKept' /\ GrowsBy(movements, movements', S)
    BY <2>1, <2>5, DocumentPosted
  <2>7. PurchasingAsked(receipts', returns') = PurchasingAsked(receipts, returns) \cup S
    BY <1>2, <2>1, <2>5 DEF PurchasingAsked
  <2> QED BY <2>3, <2>6, <2>7
<1>5. ASSUME NEW r \in Receipts, NEW u \in Purchases, NEW l \in Locations,
             NEW lines \in SomeLines(Products), CreateReceipt(r, u, l, lines)
      PROVE  /\ UNCHANGED <<ledgerVars, masterVars>> /\ returns' = returns
             /\ AskedByReceipts(receipts') = AskedByReceipts(receipts)
  <2>1. /\ UNCHANGED <<ledgerVars, masterVars>> /\ returns' = returns
        /\ receipts[r].status = "NONE" /\ receipts'[r].status = "DRAFT"
        /\ \A q \in Receipts \ {r} : receipts'[q] = receipts[q]
    BY <1>5 DEF CreateReceipt, PurchaseInv, PurchaseTypes
  <2> QED BY <2>1, AskedByReceiptsStays
<1>6. ASSUME NEW t \in Returns, NEW u \in Purchases, NEW lines \in SomeLines(Cells),
             CreateReturn(t, u, lines)
      PROVE  /\ UNCHANGED <<ledgerVars, masterVars>> /\ receipts' = receipts
             /\ AskedByReturns(returns') = AskedByReturns(returns)
  <2>1. /\ UNCHANGED <<ledgerVars, masterVars>> /\ receipts' = receipts
        /\ returns[t].status = "NONE" /\ returns'[t].status = "DRAFT"
        /\ \A q \in Returns \ {t} : returns'[q] = returns[q]
    BY <1>6 DEF CreateReturn, PurchaseInv, PurchaseTypes
  <2> QED BY <2>1, AskedByReturnsStays
<1>7. ASSUME NEW u \in Purchases, CancelPurchase(u)
      PROVE  /\ UNCHANGED <<ledgerVars, masterVars>> /\ returns' = returns
             /\ AskedByReceipts(receipts') = AskedByReceipts(receipts)
  <2>1. /\ UNCHANGED <<ledgerVars, masterVars>> /\ returns' = returns
        /\ receipts' = [r \in Receipts |->
                           IF receipts[r].purchase = u /\ receipts[r].status = "DRAFT"
                           THEN [receipts[r] EXCEPT !.status = "CANCELLED"]
                           ELSE receipts[r]]
    BY <1>7 DEF CancelPurchase
  <2>2. ASSUME NEW r \in Receipts
        PROVE  /\ receipts[r].status = "POSTED" <=> receipts'[r].status = "POSTED"
               /\ receipts[r].status = "POSTED" => receipts'[r] = receipts[r]
    BY <2>1 DEF PurchaseInv, PurchaseTypes
  <2> QED BY <2>1, <2>2, AskedByReceiptsStays
<1>8. ASSUME NEW u \in Purchases,
             \/ \E ordered \in SomeLines(Products) :
                    CreatePurchase(u, ordered) \/ UpdatePurchase(u, ordered)
             \/ ConfirmPurchase(u) \/ PaySupplier(u) \/ ReverseSupplierPayment(u)
             \/ SetSupplierActive
      PROVE  UNCHANGED <<ledgerVars, masterVars>> /\ receipts' = receipts /\ returns' = returns
  BY <1>8 DEF CreatePurchase, UpdatePurchase, ConfirmPurchase, PaySupplier,
              ReverseSupplierPayment, SetSupplierActive, purchasingDocumentVars
<1>9. CASE SetSupplierActive
  <2>1. UNCHANGED <<ledgerVars, masterVars>> /\ receipts' = receipts /\ returns' = returns
    BY <1>9 DEF SetSupplierActive, purchasingDocumentVars
  <2> QED BY <1>1, <1>2, <2>1
<1>10. CASE \E r \in Receipts : PostReceipt(r)
  BY <1>3, <1>10
<1>11. CASE \E t \in Returns : PostReturn(t)
  BY <1>4, <1>11
<1>12. ASSUME NEW u \in Purchases,
              \/ \E ordered \in SomeLines(Products) :
                     CreatePurchase(u, ordered) \/ UpdatePurchase(u, ordered)
              \/ ConfirmPurchase(u)
              \/ CancelPurchase(u)
              \/ \E r \in Receipts, l \in Locations, lines \in SomeLines(Products) :
                     CreateReceipt(r, u, l, lines)
              \/ \E t \in Returns, lines \in SomeLines(Cells) : CreateReturn(t, u, lines)
              \/ PaySupplier(u)
              \/ ReverseSupplierPayment(u)
       PROVE  /\ UNCHANGED <<ledgerVars, masterVars>>
              /\ AskedByReceipts(receipts') = AskedByReceipts(receipts)
              /\ AskedByReturns(returns') = AskedByReturns(returns)
  BY <1>2, <1>5, <1>6, <1>7, <1>8, <1>12
<1> QED BY <1>1, <1>9, <1>10, <1>11, <1>12 DEF PurchasingDocumentsNext

\* What purchasing and its ledger keep together.
PurchasingInv ==
    /\ PurchaseInv /\ StockKept
    /\ Explains(movements, PurchasingAsked(receipts, returns), Refs)

LEMMA PurchasingAskedInit ==
    PurchasingDocumentsInit => PurchasingAsked(receipts, returns) = {}
BY DEF PurchasingDocumentsInit, PurchasingAsked, AskedByReceipts, AskedByReturns

\* Whoever moves stock by hand or changes the master data posts no document.
LEMMA AroundGrows ==
    ASSUME StockKept,
           \/ \E r \in ManualRequests : CreateMovement(r)
           \/ \E p \in Products : SetProductActive(p)
           \/ \E l \in Locations : SetLocationActive(l)
           \/ UNCHANGED <<ledgerVars, masterVars>>
    PROVE  /\ StockKept'
           /\ \E S : GrowsBy(movements, movements', S) /\ \A x \in S : x.ref = NoRef
<1>1. ASSUME NEW r \in ManualRequests, CreateMovement(r)
      PROVE  /\ StockKept'
             /\ \E S : GrowsBy(movements, movements', S) /\ \A x \in S : x.ref = NoRef
  <2>1. StockKept' /\ GrowsBy(movements, movements', {r})
    BY <1>1, MovementPosted
  <2>2. \A x \in {r} : x.ref = NoRef
    BY DEF ManualRequests
  <2> QED BY <2>1, <2>2
<1>2. ASSUME UNCHANGED ledgerVars, activeProducts' \subseteq Products,
             activeLocations' \subseteq Locations
      PROVE  /\ StockKept'
             /\ \E S : GrowsBy(movements, movements', S) /\ \A x \in S : x.ref = NoRef
  <2>1. StockKept' /\ GrowsBy(movements, movements', {})
    BY <1>2, NothingMoved
  <2> QED BY <2>1
<1>3. ASSUME \/ \E p \in Products : SetProductActive(p)
             \/ \E l \in Locations : SetLocationActive(l)
             \/ UNCHANGED <<ledgerVars, masterVars>>
      PROVE  /\ UNCHANGED ledgerVars /\ activeProducts' \subseteq Products
             /\ activeLocations' \subseteq Locations
  BY <1>3 DEF SetProductActive, SetLocationActive, ledgerVars, masterVars, StockKept
<1> QED BY <1>1, <1>2, <1>3

LEMMA PurchasingInvStep ==
    PurchasingInv /\ [PurchasingNext]_purchasingVars => PurchasingInv'
<1> SUFFICES ASSUME PurchasingInv, [PurchasingNext]_purchasingVars PROVE PurchasingInv'
  OBVIOUS
<1>1. PurchaseInv'
  BY PurchaseInvStep DEF PurchasingInv, PurchasingNext, AroundPurchasing, purchasingVars,
                         purchasingOwnVars
<1>2. CASE PurchasingDocumentsNext
  <2>1. PICK S : /\ StockKept' /\ GrowsBy(movements, movements', S)
                 /\ PurchasingAsked(receipts', returns') =
                        PurchasingAsked(receipts, returns) \cup S
    BY <1>2, PurchasingGrows DEF PurchasingInv
  <2>2. Explains(movements', PurchasingAsked(receipts', returns'), Refs)
    BY <2>1, ExplainsStep DEF PurchasingInv
  <2>3. PurchasingAsked(receipts, returns)' = PurchasingAsked(receipts', returns')
    BY DEF PurchasingAsked, AskedByReceipts, AskedByReturns, ReceiptLine, ReturnLine
  <2> QED BY <1>1, <2>1, <2>2, <2>3 DEF PurchasingInv, Explains
<1>3. CASE AroundPurchasing \/ UNCHANGED purchasingVars
  <2>1. receipts' = receipts /\ returns' = returns
    BY <1>3 DEF AroundPurchasing, purchasingVars, purchasingOwnVars
  <2>2. PICK S : /\ StockKept' /\ GrowsBy(movements, movements', S)
                 /\ \A x \in S : x.ref = NoRef
    BY <1>3, AroundGrows DEF PurchasingInv, AroundPurchasing, purchasingVars, ledgerVars,
                             masterVars
  <2>3. \A x \in S : x.ref \notin Refs
    BY <2>2, InventoryAssumption
  <2>4. Explains(movements', PurchasingAsked(receipts, returns), Refs)
    BY <2>2, <2>3, ExplainsStep DEF PurchasingInv
  <2>5. PurchasingAsked(receipts, returns)' = PurchasingAsked(receipts, returns)
    BY <2>1 DEF PurchasingAsked, AskedByReceipts, AskedByReturns, ReceiptLine, ReturnLine
  <2> QED BY <1>1, <2>2, <2>4, <2>5 DEF PurchasingInv, Explains
<1> QED BY <1>2, <1>3 DEF PurchasingNext

LEMMA PurchasingInvariant == PurchasingSpec => []PurchasingInv
<1>1. PurchasingInit => PurchasingInv
  <2> SUFFICES ASSUME PurchasingInit PROVE PurchasingInv
    OBVIOUS
  <2>1. PurchaseInv /\ StockKept /\ movements = <<>>
    BY PurchaseInvInit, StockKeptInit DEF PurchasingInit
  <2>2. PurchasingAsked(receipts, returns) = {}
    BY PurchasingAskedInit DEF PurchasingInit
  <2> QED BY <2>1, <2>2 DEF PurchasingInv, Explains
<1> QED BY <1>1, PurchasingInvStep, PTL DEF PurchasingSpec

\* When the ledger holds what the purchase documents asked, and possibly what
\* others asked under references of their own, each line has moved stock once.
LEMMA LinesMovedOnce ==
    ASSUME PurchaseInv, StockKept, NEW asked, Explains(movements, asked, Refs),
           PurchasingAsked(receipts, returns) \subseteq asked,
           \A x \in asked : x.ref \in PurchasingRefs => x \in PurchasingAsked(receipts, returns)
    PROVE  LinesMoveStockOnce
<1>1. /\ \A x \in asked : x.ref \in Refs =>
             \E i \in DOMAIN movements : EffectsOf(x.ref) = {i} /\ movements[i].request = x
      /\ \A ref \in Refs : (\A x \in asked : x.ref # ref) => EffectsOf(ref) = {}
  <2>1. LedgerOK(stock, movements) /\ NoRef \notin Refs
    BY InventoryAssumption DEF StockKept
  <2> QED BY <2>1, OneRowEach DEF EffectsOf
<1>2. \A i : Cardinality({i}) = 1
  BY FS_Singleton
<1>3. ASSUME NEW r \in Receipts, NEW p \in Products
      PROVE  LET effects == EffectsOf(<<"PURCHASE_RECEIPT", r, p>>) IN
             IF receipts[r].status = "POSTED" /\ receipts[r].lines[p] > 0
             THEN /\ Cardinality(effects) = 1
                  /\ \A i \in effects :
                         movements[i].request = ReceiptLine(receipts, r, p)
             ELSE effects = {}
  <2> DEFINE x == ReceiptLine(receipts, r, p)
             ref == <<"PURCHASE_RECEIPT", r, p>>
  <2>1. x \in Requests /\ x.ref = ref /\ ref \in PurchasingRefs /\ ref \in Refs
    BY ReceiptLineIsRequest, PurchasingAssumption
  <2>2. CASE receipts[r].status = "POSTED" /\ receipts[r].lines[p] > 0
    <3>1. x \in asked
      BY <2>1, <2>2 DEF PurchasingAsked, AskedByReceipts
    <3>2. PICK i \in DOMAIN movements : EffectsOf(ref) = {i} /\ movements[i].request = x
      BY <1>1, <2>1, <3>1
    <3> HIDE DEF x, ref
    <3>3. Cardinality(EffectsOf(ref)) = 1 /\ \A j \in EffectsOf(ref) : movements[j].request = x
      BY <1>2, <3>2
    <3> QED BY <2>2, <3>3 DEF x, ref
  <2>3. CASE ~(receipts[r].status = "POSTED" /\ receipts[r].lines[p] > 0)
    <3>1. ASSUME NEW y \in AskedByReceipts(receipts) PROVE y.ref # ref
      <4>1. PICK q \in Receipts, o \in Products :
                /\ receipts[q].status = "POSTED" /\ receipts[q].lines[o] > 0
                /\ y = ReceiptLine(receipts, q, o)
        BY DEF AskedByReceipts
      <4>2. y.ref = <<"PURCHASE_RECEIPT", q, o>>
        BY <4>1, ReceiptLineIsRequest
      <4>3. q # r \/ o # p
        BY <2>3, <4>1
      <4> QED BY <4>2, <4>3
    <3>2. ASSUME NEW y \in AskedByReturns(returns) PROVE y.ref # ref
      <4>1. PICK t \in Returns, c \in Cells : y = ReturnLine(returns, t, c)
        BY DEF AskedByReturns
      <4>2. y.ref = <<"PURCHASE_RETURN", t, c>>
        BY <4>1, ReturnLineIsRequest
      <4> QED BY <4>2
    <3>3. \A y \in asked : y.ref # ref
      BY <2>1, <3>1, <3>2 DEF PurchasingAsked
    <3>4. EffectsOf(ref) = {}
      BY <1>1, <2>1, <3>3
    <3> QED BY <2>3, <3>4
  <2> QED BY <2>2, <2>3
<1>4. ASSUME NEW t \in Returns, NEW c \in Cells
      PROVE  LET effects == EffectsOf(<<"PURCHASE_RETURN", t, c>>) IN
             IF returns[t].status = "POSTED" /\ returns[t].lines[c] > 0
             THEN /\ Cardinality(effects) = 1
                  /\ \A i \in effects :
                         movements[i].request = ReturnLine(returns, t, c)
             ELSE effects = {}
  <2> DEFINE x == ReturnLine(returns, t, c)
             ref == <<"PURCHASE_RETURN", t, c>>
  <2>1. x \in Requests /\ x.ref = ref /\ ref \in PurchasingRefs /\ ref \in Refs
    BY ReturnLineIsRequest, PurchasingAssumption
  <2>2. CASE returns[t].status = "POSTED" /\ returns[t].lines[c] > 0
    <3>1. x \in asked
      BY <2>1, <2>2 DEF PurchasingAsked, AskedByReturns
    <3>2. PICK i \in DOMAIN movements : EffectsOf(ref) = {i} /\ movements[i].request = x
      BY <1>1, <2>1, <3>1
    <3> HIDE DEF x, ref
    <3>3. Cardinality(EffectsOf(ref)) = 1 /\ \A j \in EffectsOf(ref) : movements[j].request = x
      BY <1>2, <3>2
    <3> QED BY <2>2, <3>3 DEF x, ref
  <2>3. CASE ~(returns[t].status = "POSTED" /\ returns[t].lines[c] > 0)
    <3>1. ASSUME NEW y \in AskedByReturns(returns) PROVE y.ref # ref
      <4>1. PICK q \in Returns, d \in Cells :
                /\ returns[q].status = "POSTED" /\ returns[q].lines[d] > 0
                /\ y = ReturnLine(returns, q, d)
        BY DEF AskedByReturns
      <4>2. y.ref = <<"PURCHASE_RETURN", q, d>>
        BY <4>1, ReturnLineIsRequest
      <4>3. q # t \/ d # c
        BY <2>3, <4>1
      <4> QED BY <4>2, <4>3
    <3>2. ASSUME NEW y \in AskedByReceipts(receipts) PROVE y.ref # ref
      <4>1. PICK r \in Receipts, p \in Products : y = ReceiptLine(receipts, r, p)
        BY DEF AskedByReceipts
      <4>2. y.ref = <<"PURCHASE_RECEIPT", r, p>>
        BY <4>1, ReceiptLineIsRequest
      <4> QED BY <4>2
    <3>3. \A y \in asked : y.ref # ref
      BY <2>1, <3>1, <3>2 DEF PurchasingAsked
    <3>4. EffectsOf(ref) = {}
      BY <1>1, <2>1, <3>3
    <3> QED BY <2>3, <3>4
  <2> QED BY <2>2, <2>3
<1> QED BY <1>3, <1>4 DEF LinesMoveStockOnce, ReceiptLine, ReturnLine

\* Stock, log and purchase documents stay well formed, and no balance is ever
\* negative, through every receipt and return.
THEOREM PurchasingTyped == PurchasingSpec => []PurchasingTypeOK
<1>1. PurchasingInv => PurchasingTypeOK
  BY StockKeptIsTyped DEF PurchasingInv, PurchaseInv, PurchaseTypes, PurchasingTypeOK
<1> QED BY <1>1, PurchasingInvariant, PTL

\* Every line of a posted receipt or return has moved stock exactly once, with
\* its own product, location and quantity, and no other line has moved any.
THEOREM PurchaseLinesMoveStockOnce == PurchasingSpec => []LinesMoveStockOnce
<1>1. PurchasingInv => LinesMoveStockOnce
  BY LinesMovedOnce DEF PurchasingInv
<1> QED BY <1>1, PurchasingInvariant, PTL

-----------------------------------------------------------------------------
(* Sales and the ledger *)

SaleLine(docs, s, c) ==
    Request("OUT", c[1], c[2], NoLocation, docs[s].items[c], <<"SALE", s, c>>)
SaleReturnLine(docs, t, k) ==
    Request("IN", k[1][1], NoLocation, k[2], docs[t].lines[k], <<"SALE_RETURN", t, k>>)

AskedBySales(docs) ==
    {x \in Requests : \E s \in SaleIds : \E c \in Cells :
        docs[s].status = "POSTED" /\ docs[s].items[c] > 0 /\ x = SaleLine(docs, s, c)}
AskedBySaleReturns(docs) ==
    {x \in Requests : \E t \in SaleReturnIds : \E k \in ReturnLines :
        docs[t].status = "POSTED" /\ docs[t].lines[k] > 0 /\ x = SaleReturnLine(docs, t, k)}
SalesAsked(docs, back) == AskedBySales(docs) \cup AskedBySaleReturns(back)

LEMMA SaleLineIsRequest ==
    ASSUME SaleInv, NEW s \in SaleIds, NEW c \in Cells
    PROVE  /\ SaleLine(sales, s, c) \in Requests
           /\ SaleLine(sales, s, c).ref = <<"SALE", s, c>>
           /\ <<"SALE", s, c>> \in SalesRefs
<1>1. <<"SALE", s, c>> \in SalesRefs
  BY DEF SalesRefs
<1>2. sales[s].items[c] \in Nat
  BY SaleNumbers DEF SaleInv
<1>3. c[1] \in Products /\ c[2] \in Locations
  BY DEF Cells
<1> QED BY <1>1, <1>2, <1>3, SalesAssumption DEF SaleLine, Request, Requests, Types

LEMMA SaleReturnLineIsRequest ==
    ASSUME SaleInv, NEW t \in SaleReturnIds, NEW k \in ReturnLines
    PROVE  /\ SaleReturnLine(saleReturns, t, k) \in Requests
           /\ SaleReturnLine(saleReturns, t, k).ref = <<"SALE_RETURN", t, k>>
           /\ <<"SALE_RETURN", t, k>> \in SalesRefs
<1>1. <<"SALE_RETURN", t, k>> \in SalesRefs
  BY DEF SalesRefs, ReturnLines
<1>2. saleReturns[t].lines[k] \in Nat
  BY SaleNumbers DEF SaleInv
<1>3. k[1][1] \in Products /\ k[2] \in Locations
  BY DEF ReturnLines, Cells
<1> QED BY <1>1, <1>2, <1>3, SalesAssumption DEF SaleReturnLine, Request, Requests, Types

LEMMA AskedBySalesStays ==
    ASSUME NEW docs, NEW docs2,
           \A s \in SaleIds : /\ docs[s].status = "POSTED" <=> docs2[s].status = "POSTED"
                              /\ docs[s].status = "POSTED" => docs2[s] = docs[s]
    PROVE  AskedBySales(docs2) = AskedBySales(docs)
BY DEF AskedBySales, SaleLine

LEMMA AskedBySaleReturnsStays ==
    ASSUME NEW docs, NEW docs2,
           \A t \in SaleReturnIds : /\ docs[t].status = "POSTED" <=> docs2[t].status = "POSTED"
                                    /\ docs[t].status = "POSTED" => docs2[t] = docs[t]
    PROVE  AskedBySaleReturns(docs2) = AskedBySaleReturns(docs)
BY DEF AskedBySaleReturns, SaleReturnLine

\* The requests of a sale are its items, and posting it adds them to what was
\* asked.
LEMMA SaleAsks ==
    ASSUME SaleInv, NEW s \in SaleIds, sales[s].status # "POSTED", NEW S,
           S = {SaleLine(sales, s, c) : c \in ItemKeys(sales[s].items)},
           NEW docs, docs[s].status = "POSTED", docs[s].items = sales[s].items,
           \A q \in SaleIds \ {s} : docs[q] = sales[q]
    PROVE  /\ IsFiniteSet(S) /\ S \subseteq Requests
           /\ SaleRequests(s) = SetToSeq(S)
           /\ AskedBySales(docs) = AskedBySales(sales) \cup S
<1> DEFINE K == ItemKeys(sales[s].items)
           f == [c \in K |-> SaleLine(sales, s, c)]
<1>1. K = {c \in Cells : sales[s].items[c] > 0}
  BY DEF ItemKeys, SaleInv, SaleTypes
<1>2. IsFiniteSet(K)
  <2>1. IsFiniteSet(Cells)
    BY FS_Product, InventoryAssumption DEF Cells
  <2> QED BY <1>1, <2>1, FS_Subset
<1>3. S = {f[c] : c \in K}
  OBVIOUS
<1>4. IsFiniteSet(S)
  <2> HIDE DEF f, K
  <2> QED BY <1>2, <1>3, ImageIsFinite
<1>5. S \subseteq Requests
  BY <1>1, SaleLineIsRequest
<1>6. SaleRequests(s) = SetToSeq(S)
  BY DEF SaleRequests, SaleLine
<1>7. \A c : SaleLine(docs, s, c) = SaleLine(sales, s, c)
  BY DEF SaleLine
<1>8. \A q \in SaleIds \ {s} : \A c : SaleLine(docs, q, c) = SaleLine(sales, q, c)
  BY DEF SaleLine
<1>9. AskedBySales(docs) = AskedBySales(sales) \cup S
  <2>1. ASSUME NEW x \in AskedBySales(docs) PROVE x \in AskedBySales(sales) \cup S
    <3>1. PICK q \in SaleIds, c \in Cells :
              docs[q].status = "POSTED" /\ docs[q].items[c] > 0 /\ x = SaleLine(docs, q, c)
      BY DEF AskedBySales
    <3>2. CASE q = s
      BY <1>1, <1>7, <3>1, <3>2
    <3>3. CASE q # s
      <4>1. /\ sales[q].status = "POSTED" /\ sales[q].items[c] > 0
            /\ x = SaleLine(sales, q, c) /\ x \in Requests
        BY <1>8, <3>1, <3>3, SaleLineIsRequest
      <4> QED BY <4>1 DEF AskedBySales
    <3> QED BY <3>2, <3>3
  <2>2. ASSUME NEW x \in S PROVE x \in AskedBySales(docs)
    <3>1. PICK c \in Cells : sales[s].items[c] > 0 /\ x = SaleLine(sales, s, c)
      BY <1>1
    <3>2. docs[s].items[c] > 0 /\ x = SaleLine(docs, s, c) /\ x \in Requests
      BY <1>5, <1>7, <3>1
    <3> QED BY <3>2 DEF AskedBySales
  <2>3. ASSUME NEW x \in AskedBySales(sales) PROVE x \in AskedBySales(docs)
    <3>1. PICK q \in SaleIds, c \in Cells :
              sales[q].status = "POSTED" /\ sales[q].items[c] > 0 /\ x = SaleLine(sales, q, c)
      BY DEF AskedBySales
    <3>2. /\ docs[q].status = "POSTED" /\ docs[q].items[c] > 0
          /\ x = SaleLine(docs, q, c) /\ x \in Requests
      BY <1>8, <3>1, SaleLineIsRequest
    <3> QED BY <3>2 DEF AskedBySales
  <2> QED BY <2>1, <2>2, <2>3
<1> QED BY <1>4, <1>5, <1>6, <1>9

\* The same for a return of a sale.
LEMMA SaleReturnAsks ==
    ASSUME SaleInv, NEW t \in SaleReturnIds, saleReturns[t].status # "POSTED", NEW S,
           S = {SaleReturnLine(saleReturns, t, k) : k \in ItemKeys(saleReturns[t].lines)},
           NEW docs, docs[t].status = "POSTED", docs[t].lines = saleReturns[t].lines,
           \A q \in SaleReturnIds \ {t} : docs[q] = saleReturns[q]
    PROVE  /\ IsFiniteSet(S) /\ S \subseteq Requests
           /\ SaleReturnRequests(t) = SetToSeq(S)
           /\ AskedBySaleReturns(docs) = AskedBySaleReturns(saleReturns) \cup S
<1> DEFINE K == ItemKeys(saleReturns[t].lines)
           f == [k \in K |-> SaleReturnLine(saleReturns, t, k)]
<1>1. K = {k \in ReturnLines : saleReturns[t].lines[k] > 0}
  BY DEF ItemKeys, SaleInv, SaleTypes
<1>2. IsFiniteSet(K)
  <2>1. IsFiniteSet(ReturnLines)
    BY FS_Product, InventoryAssumption DEF Cells, ReturnLines
  <2> QED BY <1>1, <2>1, FS_Subset
<1>3. S = {f[k] : k \in K}
  OBVIOUS
<1>4. IsFiniteSet(S)
  <2> HIDE DEF f, K
  <2> QED BY <1>2, <1>3, ImageIsFinite
<1>5. S \subseteq Requests
  BY <1>1, SaleReturnLineIsRequest
<1>6. SaleReturnRequests(t) = SetToSeq(S)
  BY DEF SaleReturnRequests, SaleReturnLine
<1>7. \A k : SaleReturnLine(docs, t, k) = SaleReturnLine(saleReturns, t, k)
  BY DEF SaleReturnLine
<1>8. \A q \in SaleReturnIds \ {t} :
          \A k : SaleReturnLine(docs, q, k) = SaleReturnLine(saleReturns, q, k)
  BY DEF SaleReturnLine
<1>9. AskedBySaleReturns(docs) = AskedBySaleReturns(saleReturns) \cup S
  <2>1. ASSUME NEW x \in AskedBySaleReturns(docs)
        PROVE  x \in AskedBySaleReturns(saleReturns) \cup S
    <3>1. PICK q \in SaleReturnIds, k \in ReturnLines :
              /\ docs[q].status = "POSTED" /\ docs[q].lines[k] > 0
              /\ x = SaleReturnLine(docs, q, k)
      BY DEF AskedBySaleReturns
    <3>2. CASE q = t
      BY <1>1, <1>7, <3>1, <3>2
    <3>3. CASE q # t
      <4>1. /\ saleReturns[q].status = "POSTED" /\ saleReturns[q].lines[k] > 0
            /\ x = SaleReturnLine(saleReturns, q, k) /\ x \in Requests
        BY <1>8, <3>1, <3>3, SaleReturnLineIsRequest
      <4> QED BY <4>1 DEF AskedBySaleReturns
    <3> QED BY <3>2, <3>3
  <2>2. ASSUME NEW x \in S PROVE x \in AskedBySaleReturns(docs)
    <3>1. PICK k \in ReturnLines :
              saleReturns[t].lines[k] > 0 /\ x = SaleReturnLine(saleReturns, t, k)
      BY <1>1
    <3>2. docs[t].lines[k] > 0 /\ x = SaleReturnLine(docs, t, k) /\ x \in Requests
      BY <1>5, <1>7, <3>1
    <3> QED BY <3>2 DEF AskedBySaleReturns
  <2>3. ASSUME NEW x \in AskedBySaleReturns(saleReturns) PROVE x \in AskedBySaleReturns(docs)
    <3>1. PICK q \in SaleReturnIds, k \in ReturnLines :
              /\ saleReturns[q].status = "POSTED" /\ saleReturns[q].lines[k] > 0
              /\ x = SaleReturnLine(saleReturns, q, k)
      BY DEF AskedBySaleReturns
    <3>2. /\ docs[q].status = "POSTED" /\ docs[q].lines[k] > 0
          /\ x = SaleReturnLine(docs, q, k) /\ x \in Requests
      BY <1>8, <3>1, SaleReturnLineIsRequest
    <3> QED BY <3>2 DEF AskedBySaleReturns
  <2> QED BY <2>1, <2>2, <2>3
<1> QED BY <1>4, <1>5, <1>6, <1>9

\* Every step on sale documents keeps the two tables in order and adds rows for
\* exactly the requests the newly posted documents ask.
LEMMA SalesGrows ==
    ASSUME StockKept, SaleInv, SalesDocumentsNext
    PROVE  /\ StockKept'
           /\ \E S : /\ GrowsBy(movements, movements', S)
                     /\ \A x \in S : x.ref \in SalesRefs
                     /\ SalesAsked(sales', saleReturns') =
                            SalesAsked(sales, saleReturns) \cup S
<1>1. ASSUME UNCHANGED <<ledgerVars, masterVars>>,
             AskedBySales(sales') = AskedBySales(sales),
             AskedBySaleReturns(saleReturns') = AskedBySaleReturns(saleReturns)
      PROVE  /\ StockKept'
             /\ \E S : /\ GrowsBy(movements, movements', S)
                       /\ \A x \in S : x.ref \in SalesRefs
                       /\ SalesAsked(sales', saleReturns') =
                              SalesAsked(sales, saleReturns) \cup S
  <2>1. activeProducts' \subseteq Products /\ activeLocations' \subseteq Locations
    BY <1>1 DEF masterVars, StockKept
  <2>2. StockKept' /\ GrowsBy(movements, movements', {})
    BY <1>1, <2>1, NothingMoved
  <2> QED BY <1>1, <2>2 DEF SalesAsked
<1>2. /\ sales' = sales => AskedBySales(sales') = AskedBySales(sales)
      /\ saleReturns' = saleReturns =>
             AskedBySaleReturns(saleReturns') = AskedBySaleReturns(saleReturns)
  BY DEF AskedBySales, AskedBySaleReturns, SaleLine, SaleReturnLine
<1>3. ASSUME NEW s \in SaleIds, PostSale(s)
      PROVE  /\ StockKept'
             /\ \E S : /\ GrowsBy(movements, movements', S)
                       /\ \A x \in S : x.ref \in SalesRefs
                       /\ SalesAsked(sales', saleReturns') =
                              SalesAsked(sales, saleReturns) \cup S
  <2> DEFINE S == {SaleLine(sales, s, c) : c \in ItemKeys(sales[s].items)}
  <2>1. /\ sales[s].status = "DRAFT"
        /\ \E g \in ApplyAll(stock, movements, SaleRequests(s)) :
               stock' = g.stock /\ movements' = g.movements
        /\ sales' = [sales EXCEPT ![s].status = "POSTED"]
        /\ UNCHANGED masterVars /\ saleReturns' = saleReturns
    BY <1>3 DEF PostSale
  <2>2. /\ sales'[s].status = "POSTED" /\ sales'[s].items = sales[s].items
        /\ \A q \in SaleIds \ {s} : sales'[q] = sales[q]
    BY <2>1 DEF SaleInv, SaleTypes
  <2>3. \A x \in S : x.ref \in SalesRefs
    <3>1. ItemKeys(sales[s].items) \subseteq Cells
      BY DEF ItemKeys, SaleInv, SaleTypes
    <3> QED BY <3>1, SaleLineIsRequest
  <2>4. S = {SaleLine(sales, s, c) : c \in ItemKeys(sales[s].items)}
    OBVIOUS
  <2> HIDE DEF S
  <2>5. /\ IsFiniteSet(S) /\ S \subseteq Requests
        /\ SaleRequests(s) = SetToSeq(S)
        /\ AskedBySales(sales') = AskedBySales(sales) \cup S
    <3>1. sales[s].status # "POSTED"
      BY <2>1
    <3> QED BY <2>2, <2>4, <3>1, SaleAsks
  <2>6. StockKept' /\ GrowsBy(movements, movements', S)
    BY <2>1, <2>5, DocumentPosted
  <2>7. SalesAsked(sales', saleReturns') = SalesAsked(sales, saleReturns) \cup S
    BY <1>2, <2>1, <2>5 DEF SalesAsked
  <2> QED BY <2>3, <2>6, <2>7
<1>4. ASSUME NEW t \in SaleReturnIds, PostSaleReturn(t)
      PROVE  /\ StockKept'
             /\ \E S : /\ GrowsBy(movements, movements', S)
                       /\ \A x \in S : x.ref \in SalesRefs
                       /\ SalesAsked(sales', saleReturns') =
                              SalesAsked(sales, saleReturns) \cup S
  <2> DEFINE S == {SaleReturnLine(saleReturns, t, k) : k \in ItemKeys(saleReturns[t].lines)}
  <2>1. /\ saleReturns[t].status = "DRAFT"
        /\ \E g \in ApplyAll(stock, movements, SaleReturnRequests(t)) :
               stock' = g.stock /\ movements' = g.movements
        /\ saleReturns' = [saleReturns EXCEPT ![t].status = "POSTED"]
        /\ UNCHANGED masterVars /\ sales' = sales
    BY <1>4 DEF PostSaleReturn
  <2>2. /\ saleReturns'[t].status = "POSTED" /\ saleReturns'[t].lines = saleReturns[t].lines
        /\ \A q \in SaleReturnIds \ {t} : saleReturns'[q] = saleReturns[q]
    BY <2>1 DEF SaleInv, SaleTypes
  <2>3. \A x \in S : x.ref \in SalesRefs
    <3>1. ItemKeys(saleReturns[t].lines) \subseteq ReturnLines
      BY DEF ItemKeys, SaleInv, SaleTypes
    <3> QED BY <3>1, SaleReturnLineIsRequest
  <2>4. S = {SaleReturnLine(saleReturns, t, k) : k \in ItemKeys(saleReturns[t].lines)}
    OBVIOUS
  <2> HIDE DEF S
  <2>5. /\ IsFiniteSet(S) /\ S \subseteq Requests
        /\ SaleReturnRequests(t) = SetToSeq(S)
        /\ AskedBySaleReturns(saleReturns') = AskedBySaleReturns(saleReturns) \cup S
    <3>1. saleReturns[t].status # "POSTED"
      BY <2>1
    <3> QED BY <2>2, <2>4, <3>1, SaleReturnAsks
  <2>6. StockKept' /\ GrowsBy(movements, movements', S)
    BY <2>1, <2>5, DocumentPosted
  <2>7. SalesAsked(sales', saleReturns') = SalesAsked(sales, saleReturns) \cup S
    BY <1>2, <2>1, <2>5 DEF SalesAsked
  <2> QED BY <2>3, <2>6, <2>7
<1>5. ASSUME NEW s \in SaleIds,
             \/ \E items \in ItemsOver(Cells), walkIn \in BOOLEAN :
                    CreateSale(s, items, walkIn) \/ UpdateSale(s, items, walkIn)
             \/ CancelSale(s)
      PROVE  /\ UNCHANGED <<ledgerVars, masterVars>> /\ saleReturns' = saleReturns
             /\ AskedBySales(sales') = AskedBySales(sales)
  <2>1. /\ UNCHANGED <<ledgerVars, masterVars>> /\ saleReturns' = saleReturns
        /\ sales[s].status # "POSTED" /\ sales'[s].status # "POSTED"
        /\ \A q \in SaleIds \ {s} : sales'[q] = sales[q]
    <3>1. ASSUME NEW items \in ItemsOver(Cells), NEW walkIn \in BOOLEAN,
                 CreateSale(s, items, walkIn)
          PROVE  /\ UNCHANGED <<ledgerVars, masterVars>> /\ saleReturns' = saleReturns
                 /\ sales[s].status = "NONE" /\ sales'[s].status = "DRAFT"
                 /\ \A q \in SaleIds \ {s} : sales'[q] = sales[q]
      BY <3>1 DEF CreateSale, SaleInv, SaleTypes
    <3>2. ASSUME NEW items \in ItemsOver(Cells), NEW walkIn \in BOOLEAN,
                 UpdateSale(s, items, walkIn)
          PROVE  /\ UNCHANGED <<ledgerVars, masterVars>> /\ saleReturns' = saleReturns
                 /\ sales[s].status = "DRAFT" /\ sales'[s].status = "DRAFT"
                 /\ \A q \in SaleIds \ {s} : sales'[q] = sales[q]
      BY <3>2 DEF UpdateSale, SaleInv, SaleTypes
    <3>3. ASSUME CancelSale(s)
          PROVE  /\ UNCHANGED <<ledgerVars, masterVars>> /\ saleReturns' = saleReturns
                 /\ sales[s].status = "DRAFT" /\ sales'[s].status = "CANCELLED"
                 /\ \A q \in SaleIds \ {s} : sales'[q] = sales[q]
      BY <3>3 DEF CancelSale, SaleInv, SaleTypes
    <3> QED BY <1>5, <3>1, <3>2, <3>3
  <2> QED BY <2>1, AskedBySalesStays
<1>6. ASSUME NEW t \in SaleReturnIds, NEW s \in SaleIds, NEW lines \in ItemsOver(ReturnLines),
             CreateSaleReturn(t, s, lines)
      PROVE  /\ UNCHANGED <<ledgerVars, masterVars>> /\ sales' = sales
             /\ AskedBySaleReturns(saleReturns') = AskedBySaleReturns(saleReturns)
  <2>1. /\ UNCHANGED <<ledgerVars, masterVars>> /\ sales' = sales
        /\ saleReturns[t].status = "NONE" /\ saleReturns'[t].status = "DRAFT"
        /\ \A q \in SaleReturnIds \ {t} : saleReturns'[q] = saleReturns[q]
    BY <1>6 DEF CreateSaleReturn, SaleInv, SaleTypes
  <2> QED BY <2>1, AskedBySaleReturnsStays
<1>7. CASE SetCustomerActive
  <2>1. UNCHANGED <<ledgerVars, masterVars>> /\ sales' = sales /\ saleReturns' = saleReturns
    BY <1>7 DEF SetCustomerActive
  <2> QED BY <1>1, <1>2, <2>1
<1>8. CASE \E s \in SaleIds : PostSale(s)
  BY <1>3, <1>8
<1>9. CASE \E t \in SaleReturnIds : PostSaleReturn(t)
  BY <1>4, <1>9
<1>10. ASSUME NEW s \in SaleIds,
              \/ \E items \in ItemsOver(Cells), walkIn \in BOOLEAN :
                     CreateSale(s, items, walkIn) \/ UpdateSale(s, items, walkIn)
              \/ CancelSale(s)
              \/ \E t \in SaleReturnIds, lines \in ItemsOver(ReturnLines) :
                     CreateSaleReturn(t, s, lines)
       PROVE  /\ UNCHANGED <<ledgerVars, masterVars>>
              /\ AskedBySales(sales') = AskedBySales(sales)
              /\ AskedBySaleReturns(saleReturns') = AskedBySaleReturns(saleReturns)
  BY <1>2, <1>5, <1>6, <1>10
<1> QED BY <1>1, <1>7, <1>8, <1>9, <1>10 DEF SalesDocumentsNext

\* What sales and their ledger keep together.
SalesInv ==
    /\ SaleInv /\ StockKept
    /\ Explains(movements, SalesAsked(sales, saleReturns), Refs)

LEMMA SalesAskedInit == SalesDocumentsInit => SalesAsked(sales, saleReturns) = {}
BY DEF SalesDocumentsInit, SalesAsked, AskedBySales, AskedBySaleReturns

LEMMA SalesInvariant == SalesSpec => []SalesInv
<1>1. SalesInit => SalesInv
  <2> SUFFICES ASSUME SalesInit PROVE SalesInv
    OBVIOUS
  <2>1. SaleInv /\ StockKept /\ movements = <<>>
    BY SaleInvInit, StockKeptInit DEF SalesInit
  <2>2. SalesAsked(sales, saleReturns) = {}
    BY SalesAskedInit DEF SalesInit
  <2> QED BY <2>1, <2>2 DEF SalesInv, Explains
<1>2. ASSUME SalesInv, [SalesNext]_salesVars PROVE SalesInv'
  <2>1. SaleInv'
    BY <1>2, SaleInvStep DEF SalesInv, SalesNext, AroundSales, salesVars, salesOwnVars
  <2>2. CASE SalesDocumentsNext
    <3>1. PICK S : /\ StockKept' /\ GrowsBy(movements, movements', S)
                   /\ SalesAsked(sales', saleReturns') =
                          SalesAsked(sales, saleReturns) \cup S
      BY <1>2, <2>2, SalesGrows DEF SalesInv
    <3>2. Explains(movements', SalesAsked(sales', saleReturns'), Refs)
      BY <1>2, <3>1, ExplainsStep DEF SalesInv
    <3>3. SalesAsked(sales, saleReturns)' = SalesAsked(sales', saleReturns')
      BY DEF SalesAsked, AskedBySales, AskedBySaleReturns, SaleLine, SaleReturnLine
    <3> QED BY <2>1, <3>1, <3>2, <3>3 DEF SalesInv, Explains
  <2>3. CASE AroundSales \/ UNCHANGED salesVars
    <3>1. sales' = sales /\ saleReturns' = saleReturns
      BY <2>3 DEF AroundSales, salesVars, salesOwnVars
    <3>2. PICK S : /\ StockKept' /\ GrowsBy(movements, movements', S)
                   /\ \A x \in S : x.ref = NoRef
      BY <1>2, <2>3, AroundGrows DEF SalesInv, AroundSales, salesVars, ledgerVars, masterVars
    <3>3. \A x \in S : x.ref \notin Refs
      BY <3>2, InventoryAssumption
    <3>4. Explains(movements', SalesAsked(sales, saleReturns), Refs)
      BY <1>2, <3>2, <3>3, ExplainsStep DEF SalesInv
    <3>5. SalesAsked(sales, saleReturns)' = SalesAsked(sales, saleReturns)
      BY <3>1 DEF SalesAsked, AskedBySales, AskedBySaleReturns, SaleLine, SaleReturnLine
    <3> QED BY <2>1, <3>2, <3>4, <3>5 DEF SalesInv, Explains
  <2> QED BY <1>2, <2>2, <2>3 DEF SalesNext
<1> QED BY <1>1, <1>2, PTL DEF SalesSpec

\* When the ledger holds what the sale documents asked, and possibly what others
\* asked under references of their own, each item has moved stock once.
LEMMA SaleLinesMovedOnce ==
    ASSUME SaleInv, StockKept, NEW asked, Explains(movements, asked, Refs),
           SalesAsked(sales, saleReturns) \subseteq asked,
           \A x \in asked : x.ref \in SalesRefs => x \in SalesAsked(sales, saleReturns)
    PROVE  SalesMoveStockOnce
<1>1. /\ \A x \in asked : x.ref \in Refs =>
             \E i \in DOMAIN movements : SaleEffects(x.ref) = {i} /\ movements[i].request = x
      /\ \A ref \in Refs : (\A x \in asked : x.ref # ref) => SaleEffects(ref) = {}
  <2>1. LedgerOK(stock, movements) /\ NoRef \notin Refs
    BY InventoryAssumption DEF StockKept
  <2> QED BY <2>1, OneRowEach DEF SaleEffects
<1>2. \A i : Cardinality({i}) = 1
  BY FS_Singleton
<1>3. ASSUME NEW s \in SaleIds, NEW c \in Cells
      PROVE  LET effects == SaleEffects(<<"SALE", s, c>>) IN
             IF sales[s].status = "POSTED" /\ sales[s].items[c] > 0
             THEN /\ Cardinality(effects) = 1
                  /\ \A i \in effects : movements[i].request = SaleLine(sales, s, c)
             ELSE effects = {}
  <2> DEFINE x == SaleLine(sales, s, c)
             ref == <<"SALE", s, c>>
  <2>1. x \in Requests /\ x.ref = ref /\ ref \in SalesRefs /\ ref \in Refs
    BY SaleLineIsRequest, SalesAssumption
  <2>2. CASE sales[s].status = "POSTED" /\ sales[s].items[c] > 0
    <3>1. x \in asked
      BY <2>1, <2>2 DEF SalesAsked, AskedBySales
    <3>2. PICK i \in DOMAIN movements : SaleEffects(ref) = {i} /\ movements[i].request = x
      BY <1>1, <2>1, <3>1
    <3> HIDE DEF x, ref
    <3>3. Cardinality(SaleEffects(ref)) = 1
          /\ \A j \in SaleEffects(ref) : movements[j].request = x
      BY <1>2, <3>2
    <3> QED BY <2>2, <3>3 DEF x, ref
  <2>3. CASE ~(sales[s].status = "POSTED" /\ sales[s].items[c] > 0)
    <3>1. ASSUME NEW y \in AskedBySales(sales) PROVE y.ref # ref
      <4>1. PICK q \in SaleIds, o \in Cells :
                /\ sales[q].status = "POSTED" /\ sales[q].items[o] > 0
                /\ y = SaleLine(sales, q, o)
        BY DEF AskedBySales
      <4>2. y.ref = <<"SALE", q, o>>
        BY <4>1, SaleLineIsRequest
      <4>3. q # s \/ o # c
        BY <2>3, <4>1
      <4> QED BY <4>2, <4>3
    <3>2. ASSUME NEW y \in AskedBySaleReturns(saleReturns) PROVE y.ref # ref
      <4>1. PICK t \in SaleReturnIds, k \in ReturnLines : y = SaleReturnLine(saleReturns, t, k)
        BY DEF AskedBySaleReturns
      <4>2. y.ref = <<"SALE_RETURN", t, k>>
        BY <4>1, SaleReturnLineIsRequest
      <4> QED BY <4>2
    <3>3. \A y \in asked : y.ref # ref
      BY <2>1, <3>1, <3>2 DEF SalesAsked
    <3>4. SaleEffects(ref) = {}
      BY <1>1, <2>1, <3>3
    <3> QED BY <2>3, <3>4
  <2> QED BY <2>2, <2>3
<1>4. ASSUME NEW t \in SaleReturnIds, NEW k \in ReturnLines
      PROVE  LET effects == SaleEffects(<<"SALE_RETURN", t, k>>) IN
             IF saleReturns[t].status = "POSTED" /\ saleReturns[t].lines[k] > 0
             THEN /\ Cardinality(effects) = 1
                  /\ \A i \in effects :
                         movements[i].request = SaleReturnLine(saleReturns, t, k)
             ELSE effects = {}
  <2> DEFINE x == SaleReturnLine(saleReturns, t, k)
             ref == <<"SALE_RETURN", t, k>>
  <2>1. x \in Requests /\ x.ref = ref /\ ref \in SalesRefs /\ ref \in Refs
    BY SaleReturnLineIsRequest, SalesAssumption
  <2>2. CASE saleReturns[t].status = "POSTED" /\ saleReturns[t].lines[k] > 0
    <3>1. x \in asked
      BY <2>1, <2>2 DEF SalesAsked, AskedBySaleReturns
    <3>2. PICK i \in DOMAIN movements : SaleEffects(ref) = {i} /\ movements[i].request = x
      BY <1>1, <2>1, <3>1
    <3> HIDE DEF x, ref
    <3>3. Cardinality(SaleEffects(ref)) = 1
          /\ \A j \in SaleEffects(ref) : movements[j].request = x
      BY <1>2, <3>2
    <3> QED BY <2>2, <3>3 DEF x, ref
  <2>3. CASE ~(saleReturns[t].status = "POSTED" /\ saleReturns[t].lines[k] > 0)
    <3>1. ASSUME NEW y \in AskedBySaleReturns(saleReturns) PROVE y.ref # ref
      <4>1. PICK q \in SaleReturnIds, d \in ReturnLines :
                /\ saleReturns[q].status = "POSTED" /\ saleReturns[q].lines[d] > 0
                /\ y = SaleReturnLine(saleReturns, q, d)
        BY DEF AskedBySaleReturns
      <4>2. y.ref = <<"SALE_RETURN", q, d>>
        BY <4>1, SaleReturnLineIsRequest
      <4>3. q # t \/ d # k
        BY <2>3, <4>1
      <4> QED BY <4>2, <4>3
    <3>2. ASSUME NEW y \in AskedBySales(sales) PROVE y.ref # ref
      <4>1. PICK s \in SaleIds, c \in Cells : y = SaleLine(sales, s, c)
        BY DEF AskedBySales
      <4>2. y.ref = <<"SALE", s, c>>
        BY <4>1, SaleLineIsRequest
      <4> QED BY <4>2
    <3>3. \A y \in asked : y.ref # ref
      BY <2>1, <3>1, <3>2 DEF SalesAsked
    <3>4. SaleEffects(ref) = {}
      BY <1>1, <2>1, <3>3
    <3> QED BY <2>3, <3>4
  <2> QED BY <2>2, <2>3
<1> QED BY <1>3, <1>4 DEF SalesMoveStockOnce, SaleLine, SaleReturnLine

\* Stock, log and sale documents stay well formed, and no balance is ever
\* negative, through every sale and return.
THEOREM SalesTyped == SalesSpec => []SalesTypeOK
<1>1. SalesInv => SalesTypeOK
  BY StockKeptIsTyped DEF SalesInv, SaleInv, SaleTypes, SalesTypeOK
<1> QED BY <1>1, SalesInvariant, PTL

\* A posted sale has taken every item out once and a posted return has put every
\* line back once; no other document has moved anything.
THEOREM SaleLinesMoveStockOnce == SalesSpec => []SalesMoveStockOnce
<1>1. SalesInv => SalesMoveStockOnce
  BY SaleLinesMovedOnce DEF SalesInv
<1> QED BY <1>1, SalesInvariant, PTL

-----------------------------------------------------------------------------
(* Both over one ledger *)

AllAsked ==
    PurchasingAsked(receipts, returns) \cup SalesAsked(sales, saleReturns)

WarehouseInv ==
    /\ PurchaseInv /\ SaleInv /\ StockKept
    /\ Explains(movements, AllAsked, Refs)

LEMMA PurchasingAskedKeeps ==
    ASSUME UNCHANGED <<receipts, returns>>
    PROVE  PurchasingAsked(receipts', returns') = PurchasingAsked(receipts, returns)
BY DEF PurchasingAsked, AskedByReceipts, AskedByReturns, ReceiptLine, ReturnLine

LEMMA SalesAskedKeeps ==
    ASSUME UNCHANGED <<sales, saleReturns>>
    PROVE  SalesAsked(sales', saleReturns') = SalesAsked(sales, saleReturns)
BY DEF SalesAsked, AskedBySales, AskedBySaleReturns, SaleLine, SaleReturnLine

LEMMA WarehouseInvStep ==
    ASSUME WarehouseInv, [WarehouseNext]_warehouseVars PROVE WarehouseInv'
<1>1. PurchaseInv' /\ SaleInv'
  BY PurchaseInvStep, SaleInvStep
     DEF WarehouseInv, WarehouseNext, warehouseVars, purchasingOwnVars, salesOwnVars
<1>2. AllAsked' = PurchasingAsked(receipts', returns') \cup SalesAsked(sales', saleReturns')
  BY DEF AllAsked, PurchasingAsked, AskedByReceipts, AskedByReturns, ReceiptLine, ReturnLine,
         SalesAsked, AskedBySales, AskedBySaleReturns, SaleLine, SaleReturnLine
<1>3. CASE PurchasingDocumentsNext /\ UNCHANGED salesOwnVars
  <2>1. PICK S : /\ StockKept' /\ GrowsBy(movements, movements', S)
                 /\ PurchasingAsked(receipts', returns') =
                        PurchasingAsked(receipts, returns) \cup S
    BY <1>3, PurchasingGrows DEF WarehouseInv
  <2>2. SalesAsked(sales', saleReturns') = SalesAsked(sales, saleReturns)
    BY <1>3, SalesAskedKeeps DEF salesOwnVars
  <2>3. AllAsked' = AllAsked \cup S
    BY <1>2, <2>1, <2>2 DEF AllAsked
  <2>4. Explains(movements', AllAsked \cup S, Refs)
    BY <2>1, ExplainsStep DEF WarehouseInv
  <2> QED BY <1>1, <2>1, <2>3, <2>4 DEF WarehouseInv, Explains
<1>4. CASE SalesDocumentsNext /\ UNCHANGED purchasingOwnVars
  <2>1. PICK S : /\ StockKept' /\ GrowsBy(movements, movements', S)
                 /\ SalesAsked(sales', saleReturns') = SalesAsked(sales, saleReturns) \cup S
    BY <1>4, SalesGrows DEF WarehouseInv
  <2>2. PurchasingAsked(receipts', returns') = PurchasingAsked(receipts, returns)
    BY <1>4, PurchasingAskedKeeps DEF purchasingOwnVars
  <2>3. AllAsked' = AllAsked \cup S
    BY <1>2, <2>1, <2>2 DEF AllAsked
  <2>4. Explains(movements', AllAsked \cup S, Refs)
    BY <2>1, ExplainsStep DEF WarehouseInv
  <2> QED BY <1>1, <2>1, <2>3, <2>4 DEF WarehouseInv, Explains
<1>5. CASE \/ \E r \in ManualRequests :
                  CreateMovement(r) /\ UNCHANGED <<purchasingOwnVars, salesOwnVars>>
           \/ UNCHANGED warehouseVars
  <2>1. UNCHANGED <<receipts, returns>> /\ UNCHANGED <<sales, saleReturns>>
    BY <1>5 DEF warehouseVars, purchasingOwnVars, salesOwnVars
  <2>2. PICK S : /\ StockKept' /\ GrowsBy(movements, movements', S)
                 /\ \A x \in S : x.ref = NoRef
    BY <1>5, AroundGrows DEF WarehouseInv, warehouseVars, ledgerVars, masterVars
  <2>3. \A x \in S : x.ref \notin Refs
    BY <2>2, InventoryAssumption
  <2>4. Explains(movements', AllAsked, Refs)
    BY <2>2, <2>3, ExplainsStep DEF WarehouseInv
  <2>5. AllAsked' = AllAsked
    BY <1>2, <2>1, PurchasingAskedKeeps, SalesAskedKeeps DEF AllAsked
  <2> QED BY <1>1, <2>2, <2>4, <2>5 DEF WarehouseInv, Explains
<1> QED BY <1>3, <1>4, <1>5 DEF WarehouseNext

LEMMA WarehouseInvariant == WarehouseSpec => []WarehouseInv
<1>1. WarehouseInit => WarehouseInv
  <2> SUFFICES ASSUME WarehouseInit PROVE WarehouseInv
    OBVIOUS
  <2>1. PurchaseInv /\ SaleInv /\ StockKept /\ movements = <<>>
    BY PurchaseInvInit, SaleInvInit, StockKeptInit DEF WarehouseInit
  <2>2. AllAsked = {}
    BY PurchasingAskedInit, SalesAskedInit DEF WarehouseInit, AllAsked
  <2> QED BY <2>1, <2>2 DEF WarehouseInv, Explains
<1>2. WarehouseInv /\ [WarehouseNext]_warehouseVars => WarehouseInv'
  BY WarehouseInvStep
<1> QED BY <1>1, <1>2, PTL DEF WarehouseSpec

\* What each part promises of its own documents holds of both together.
LEMMA WarehouseKeepsParts ==
    ASSUME WarehouseInv PROVE LinesMoveStockOnce /\ SalesMoveStockOnce
<1>1. \A x \in PurchasingAsked(receipts, returns) : x.ref \in PurchasingRefs
  BY ReceiptLineIsRequest, ReturnLineIsRequest
     DEF WarehouseInv, PurchasingAsked, AskedByReceipts, AskedByReturns
<1>2. \A x \in SalesAsked(sales, saleReturns) : x.ref \in SalesRefs
  BY SaleLineIsRequest, SaleReturnLineIsRequest
     DEF WarehouseInv, SalesAsked, AskedBySales, AskedBySaleReturns
<1>3. PurchasingRefs \cap SalesRefs = {}
  BY DEF PurchasingRefs, SalesRefs
<1>4. /\ \A x \in AllAsked : x.ref \in PurchasingRefs => x \in PurchasingAsked(receipts, returns)
      /\ \A x \in AllAsked : x.ref \in SalesRefs => x \in SalesAsked(sales, saleReturns)
      /\ PurchasingAsked(receipts, returns) \subseteq AllAsked
      /\ SalesAsked(sales, saleReturns) \subseteq AllAsked
  BY <1>1, <1>2, <1>3 DEF AllAsked
<1> QED BY <1>4, LinesMovedOnce, SaleLinesMovedOnce DEF WarehouseInv

\* With purchases and sales over one ledger, at any interleaving: no order is
\* over-received or over-returned, no sale is over-returned, and every line of
\* every document moves stock once.
THEOREM PartsKeepTheirPromises ==
    WarehouseSpec => [](/\ NeverOverReceived /\ NeverOverReturned
                        /\ StatusTellsReceiving /\ CancelledIsClosed
                        /\ NeverReturnedBeyondSale
                        /\ LinesMoveStockOnce /\ SalesMoveStockOnce)
<1>1. WarehouseInv => /\ NeverOverReceived /\ NeverOverReturned
                      /\ StatusTellsReceiving /\ CancelledIsClosed
                      /\ NeverReturnedBeyondSale
                      /\ LinesMoveStockOnce /\ SalesMoveStockOnce
  BY WarehouseKeepsParts DEF WarehouseInv, PurchaseInv, SaleInv
<1> QED BY <1>1, WarehouseInvariant, PTL

-----------------------------------------------------------------------------
(* The units of the rows, added up document by document *)

Units == [i \in DOMAIN movements |-> movements[i].request.quantity]
RowsFor(refs) == {i \in DOMAIN movements : movements[i].request.ref \in refs}

LEMMA RowsAreTyped ==
    ASSUME StockKept
    PROVE  /\ IsFiniteSet(DOMAIN movements)
           /\ \A i \in DOMAIN movements : /\ movements[i].request \in Requests
                                          /\ Units[i] = movements[i].request.quantity
                                          /\ Units[i] \in Nat
           /\ \A S \in SUBSET DOMAIN movements : IsFiniteSet(S) /\ Integral(Units, S)
<1>1. movements \in Seq(MovementRows)
  BY DEF StockKept, LedgerOK
<1>2. IsFiniteSet(DOMAIN movements)
  <2>1. DOMAIN movements = 1..Len(movements) /\ Len(movements) \in Nat
    BY <1>1
  <2> QED BY <2>1, FS_Interval
<1>3. \A i \in DOMAIN movements : movements[i].request \in Requests
  <2>1. \A i \in DOMAIN movements : movements[i] \in MovementRows
    BY <1>1
  <2> QED BY <2>1 DEF MovementRows
<1>4. \A i \in DOMAIN movements : Units[i] = movements[i].request.quantity /\ Units[i] \in Nat
  BY <1>3 DEF Units, Requests
<1> HIDE DEF Units
<1>5. \A S \in SUBSET DOMAIN movements : IsFiniteSet(S) /\ Integral(Units, S)
  BY <1>2, <1>4, FS_Subset DEF Integral
<1> QED BY <1>2, <1>3, <1>4, <1>5

\* The one row of a posted line counts its units, and no row counts nothing.
LEMMA UnitsOfLine ==
    ASSUME StockKept, NEW E \in SUBSET DOMAIN movements, NEW v \in Nat, NEW posted \in BOOLEAN,
           IF posted /\ v > 0
           THEN Cardinality(E) = 1 /\ \A i \in E : movements[i].request.quantity = v
           ELSE E = {}
    PROVE  SumFunctionOnSet(Units, E) = IF posted THEN v ELSE 0
<1>1. CASE posted /\ v > 0
  <2>1. IsFiniteSet(E)
    BY RowsAreTyped
  <2>2. PICK i : E = {i}
    BY <1>1, <2>1, FS_Singleton
  <2>3. Units[i] = v
    BY <1>1, <2>2, RowsAreTyped
  <2>4. SumFunctionOnSet(Units, {i}) = Units[i]
    BY <2>3, SumSingleton
  <2> QED BY <1>1, <2>2, <2>3, <2>4
<1>2. CASE ~(posted /\ v > 0)
  <2>1. SumFunctionOnSet(Units, E) = 0
    BY <1>2, SumEmpty
  <2> QED BY <1>2, <2>1
<1> QED BY <1>1, <1>2

LEMMA ReceiptRows ==
    ASSUME WarehouseInv, NEW r \in Receipts, NEW p \in Products
    PROVE  LET E == EffectsOf(<<"PURCHASE_RECEIPT", r, p>>) IN
           /\ \A i \in E : /\ receipts[r].status = "POSTED"
                           /\ movements[i].request = ReceiptLine(receipts, r, p)
           /\ receipts[r].status = "POSTED" =>
                  SumFunctionOnSet(Units, E) = receipts[r].lines[p]
<1> DEFINE E == EffectsOf(<<"PURCHASE_RECEIPT", r, p>>)
           v == receipts[r].lines[p]
<1>1. IF receipts[r].status = "POSTED" /\ v > 0
      THEN /\ Cardinality(E) = 1
           /\ \A i \in E : movements[i].request = ReceiptLine(receipts, r, p)
      ELSE E = {}
  BY WarehouseKeepsParts DEF LinesMoveStockOnce, ReceiptLine
<1>2. v \in Nat /\ E \in SUBSET DOMAIN movements /\ StockKept
  BY PurchaseNumbers DEF WarehouseInv, PurchaseInv, EffectsOf
<1>3. ReceiptLine(receipts, r, p).quantity = v
  BY DEF ReceiptLine, Request
<1> HIDE DEF E, v
<1>4. receipts[r].status = "POSTED" => SumFunctionOnSet(Units, E) = v
  BY <1>1, <1>2, <1>3, UnitsOfLine
<1>5. \A i \in E : /\ receipts[r].status = "POSTED"
                   /\ movements[i].request = ReceiptLine(receipts, r, p)
  BY <1>1
<1> QED BY <1>4, <1>5 DEF E, v

LEMMA ReturnRows ==
    ASSUME WarehouseInv, NEW t \in Returns, NEW c \in Cells
    PROVE  LET E == EffectsOf(<<"PURCHASE_RETURN", t, c>>) IN
           /\ \A i \in E : /\ returns[t].status = "POSTED"
                           /\ movements[i].request = ReturnLine(returns, t, c)
           /\ returns[t].status = "POSTED" =>
                  SumFunctionOnSet(Units, E) = returns[t].lines[c]
<1> DEFINE E == EffectsOf(<<"PURCHASE_RETURN", t, c>>)
           v == returns[t].lines[c]
<1>1. IF returns[t].status = "POSTED" /\ v > 0
      THEN /\ Cardinality(E) = 1
           /\ \A i \in E : movements[i].request = ReturnLine(returns, t, c)
      ELSE E = {}
  BY WarehouseKeepsParts DEF LinesMoveStockOnce, ReturnLine
<1>2. v \in Nat /\ E \in SUBSET DOMAIN movements /\ StockKept
  BY PurchaseNumbers DEF WarehouseInv, PurchaseInv, EffectsOf
<1>3. ReturnLine(returns, t, c).quantity = v
  BY DEF ReturnLine, Request
<1> HIDE DEF E, v
<1>4. returns[t].status = "POSTED" => SumFunctionOnSet(Units, E) = v
  BY <1>1, <1>2, <1>3, UnitsOfLine
<1>5. \A i \in E : /\ returns[t].status = "POSTED"
                   /\ movements[i].request = ReturnLine(returns, t, c)
  BY <1>1
<1> QED BY <1>4, <1>5 DEF E, v

LEMMA SaleRows ==
    ASSUME WarehouseInv, NEW s \in SaleIds, NEW c \in Cells
    PROVE  LET E == SaleEffects(<<"SALE", s, c>>) IN
           /\ \A i \in E : /\ sales[s].status = "POSTED"
                           /\ movements[i].request = SaleLine(sales, s, c)
           /\ sales[s].status = "POSTED" => SumFunctionOnSet(Units, E) = sales[s].items[c]
<1> DEFINE E == SaleEffects(<<"SALE", s, c>>)
           v == sales[s].items[c]
<1>1. IF sales[s].status = "POSTED" /\ v > 0
      THEN Cardinality(E) = 1 /\ \A i \in E : movements[i].request = SaleLine(sales, s, c)
      ELSE E = {}
  BY WarehouseKeepsParts DEF SalesMoveStockOnce, SaleLine
<1>2. v \in Nat /\ E \in SUBSET DOMAIN movements /\ StockKept
  BY SaleNumbers DEF WarehouseInv, SaleInv, SaleEffects
<1>3. SaleLine(sales, s, c).quantity = v
  BY DEF SaleLine, Request
<1> HIDE DEF E, v
<1>4. sales[s].status = "POSTED" => SumFunctionOnSet(Units, E) = v
  BY <1>1, <1>2, <1>3, UnitsOfLine
<1>5. \A i \in E : sales[s].status = "POSTED" /\ movements[i].request = SaleLine(sales, s, c)
  BY <1>1
<1> QED BY <1>4, <1>5 DEF E, v

LEMMA SaleReturnRows ==
    ASSUME WarehouseInv, NEW t \in SaleReturnIds, NEW k \in ReturnLines
    PROVE  LET E == SaleEffects(<<"SALE_RETURN", t, k>>) IN
           /\ \A i \in E : /\ saleReturns[t].status = "POSTED"
                           /\ movements[i].request = SaleReturnLine(saleReturns, t, k)
           /\ saleReturns[t].status = "POSTED" =>
                  SumFunctionOnSet(Units, E) = saleReturns[t].lines[k]
<1> DEFINE E == SaleEffects(<<"SALE_RETURN", t, k>>)
           v == saleReturns[t].lines[k]
<1>1. IF saleReturns[t].status = "POSTED" /\ v > 0
      THEN /\ Cardinality(E) = 1
           /\ \A i \in E : movements[i].request = SaleReturnLine(saleReturns, t, k)
      ELSE E = {}
  BY WarehouseKeepsParts DEF SalesMoveStockOnce, SaleReturnLine
<1>2. v \in Nat /\ E \in SUBSET DOMAIN movements /\ StockKept
  BY SaleNumbers DEF WarehouseInv, SaleInv, SaleEffects
<1>3. SaleReturnLine(saleReturns, t, k).quantity = v
  BY DEF SaleReturnLine, Request
<1> HIDE DEF E, v
<1>4. saleReturns[t].status = "POSTED" => SumFunctionOnSet(Units, E) = v
  BY <1>1, <1>2, <1>3, UnitsOfLine
<1>5. \A i \in E : /\ saleReturns[t].status = "POSTED"
                   /\ movements[i].request = SaleReturnLine(saleReturns, t, k)
  BY <1>1
<1> QED BY <1>4, <1>5 DEF E, v

\* Rows of disjoint groups of document lines add up group by group.
LEMMA RowsByPart ==
    ASSUME StockKept, NEW refs, NEW T, IsFiniteSet(T), NEW Part, NEW h,
           \A t \in T : Part[t] \subseteq refs,
           \A x \in refs : \E t \in T : x \in Part[t],
           \A s, t \in T : \A x \in Part[s] : x \in Part[t] => s = t,
           \A t \in T : SumFunctionOnSet(Units, RowsFor(Part[t])) = h[t]
    PROVE  SumFunctionOnSet(Units, RowsFor(refs)) = SumFunctionOnSet(h, T)
<1> DEFINE S == RowsFor(refs)
           k == [i \in S |-> CHOOSE t \in T : movements[i].request.ref \in Part[t]]
<1>1. IsFiniteSet(S) /\ Integral(Units, S)
  BY RowsAreTyped DEF RowsFor
<1>2. \A i \in S : movements[i].request.ref \in refs /\ i \in DOMAIN movements
  BY DEF RowsFor
<1>3. \A i \in S : k[i] \in T /\ movements[i].request.ref \in Part[k[i]]
  BY <1>2
<1>4. ASSUME NEW t \in T PROVE Group(k, S, t) = RowsFor(Part[t])
  <2> HIDE DEF k
  <2>1. \A i \in S : movements[i].request.ref \in Part[t] => k[i] = t
    BY <1>3
  <2>2. \A i \in RowsFor(Part[t]) : i \in S /\ movements[i].request.ref \in Part[t]
    BY DEF RowsFor
  <2>3. \A i \in S : movements[i].request.ref \in Part[t] => i \in RowsFor(Part[t])
    BY <1>2 DEF RowsFor
  <2> HIDE DEF S
  <2> QED BY <1>3, <2>1, <2>2, <2>3 DEF Group
<1> HIDE DEF S, k
<1>5. \A t \in T : SumFunctionOnSet(Units, Group(k, S, t)) = h[t]
  BY <1>4
<1>6. \A x \in S : k[x] \in T
  BY <1>3
<1>7. SumFunctionOnSet(Units, S) = SumFunctionOnSet(h, T)
  <2> HIDE DEF Units
  <2> QED BY <1>1, <1>5, <1>6, SumOfGroups
<1> QED BY <1>7 DEF S

\* the lines of a product in receipts, supplier returns, sales, customer returns
ReceiptRefs(R, p) == {<<"PURCHASE_RECEIPT", r, p>> : r \in R}
ReturnRefs(T, p) == {<<"PURCHASE_RETURN", t, <<p, l>>>> : t \in T, l \in Locations}
SaleRefs(S, p) == {<<"SALE", s, <<p, l>>>> : s \in S, l \in Locations}
SaleReturnRefs(T, L, p) ==
    {<<"SALE_RETURN", t, <<<<p, l>>, m>>>> : t \in T, l \in L, m \in Locations}

LEMMA RowsForOne == \A x : RowsFor({x}) = EffectsOf(x) /\ RowsFor({x}) = SaleEffects(x)
BY DEF RowsFor, EffectsOf, SaleEffects

LEMMA UnitsReceived ==
    ASSUME WarehouseInv, NEW p \in Products
    PROVE  SumFunctionOnSet(Units,
               RowsFor(ReceiptRefs({r \in Receipts : receipts[r].status = "POSTED"}, p))) =
           SumFunctionOnSet([u \in Purchases |-> Received(receipts, u, p)], Purchases)
<1> DEFINE Posted == {r \in Receipts : receipts[r].status = "POSTED"}
           f == [r \in Receipts |-> receipts[r].lines[p]]
           h == [u \in Purchases |-> Received(receipts, u, p)]
           D(u) == PostedReceipts(receipts, u)
           Part == [u \in Purchases |-> ReceiptRefs(D(u), p)]
<1>0. StockKept
  BY DEF WarehouseInv
<1>1. ASSUME NEW u \in Purchases
      PROVE  SumFunctionOnSet(Units, RowsFor(ReceiptRefs(D(u), p))) = Received(receipts, u, p)
  <2> DEFINE One == [r \in D(u) |-> {<<"PURCHASE_RECEIPT", r, p>>}]
  <2>1. D(u) \in SUBSET Receipts /\ \A r \in D(u) : receipts[r].status = "POSTED"
    BY DEF PostedReceipts
  <2>2. IsFiniteSet(D(u))
    BY <2>1, FS_Subset, PurchasingAssumption
  <2>3. \A r \in D(u) : SumFunctionOnSet(Units, RowsFor({<<"PURCHASE_RECEIPT", r, p>>})) = f[r]
    <3> TAKE r \in D(u)
    <3>1. r \in Receipts /\ receipts[r].status = "POSTED"
      BY <2>1
    <3>2. SumFunctionOnSet(Units, EffectsOf(<<"PURCHASE_RECEIPT", r, p>>)) = receipts[r].lines[p]
      BY <3>1, ReceiptRows
    <3>3. f[r] = receipts[r].lines[p]
      BY <3>1
    <3> HIDE DEF f
    <3> QED BY <3>2, <3>3, RowsForOne
  <2>4. /\ \A r \in D(u) : One[r] \subseteq ReceiptRefs(D(u), p)
        /\ \A x \in ReceiptRefs(D(u), p) : \E r \in D(u) : x \in One[r]
        /\ \A r, q \in D(u) : \A x \in One[r] : x \in One[q] => r = q
    BY DEF ReceiptRefs
  <2>5. \A r \in D(u) : SumFunctionOnSet(Units, RowsFor(One[r])) = f[r]
    BY <2>3
  <2>6. SumFunctionOnSet(Units, RowsFor(ReceiptRefs(D(u), p))) = SumFunctionOnSet(f, D(u))
    <3> HIDE DEF One, f, D
    <3> QED BY <1>0, <2>2, <2>4, <2>5, RowsByPart
  <2> QED BY <2>6 DEF Received
<1>2. \A r \in Posted : receipts[r].purchase \in Purchases
  BY DEF WarehouseInv, PurchaseInv, PurchaseDocumentsFit
<1>3. \A u \in Purchases : D(u) = {r \in Posted : receipts[r].purchase = u}
  BY DEF PostedReceipts
<1>4. /\ \A u \in Purchases : Part[u] \subseteq ReceiptRefs(Posted, p)
      /\ \A x \in ReceiptRefs(Posted, p) : \E u \in Purchases : x \in Part[u]
      /\ \A u, v \in Purchases : \A x \in Part[u] : x \in Part[v] => u = v
  <2> HIDE DEF Posted, D
  <2> QED BY <1>2, <1>3 DEF ReceiptRefs
<1>5. \A u \in Purchases : SumFunctionOnSet(Units, RowsFor(Part[u])) = h[u]
  BY <1>1
<1>6. SumFunctionOnSet(Units, RowsFor(ReceiptRefs(Posted, p))) = SumFunctionOnSet(h, Purchases)
  <2> HIDE DEF Posted, Part, h
  <2> QED BY <1>0, <1>4, <1>5, RowsByPart, WarehouseAssumption
<1> QED BY <1>6

LEMMA UnitsReturned ==
    ASSUME WarehouseInv, NEW p \in Products
    PROVE  SumFunctionOnSet(Units,
               RowsFor(ReturnRefs({t \in Returns : returns[t].status = "POSTED"}, p))) =
           SumFunctionOnSet([u \in Purchases |-> Returned(returns, u, p)], Purchases)
<1> DEFINE Posted == {t \in Returns : returns[t].status = "POSTED"}
           f == [t \in Returns |-> OverLocations(returns[t].lines, p)]
           h == [u \in Purchases |-> Returned(returns, u, p)]
           D(u) == PostedReturns(returns, u)
           Part == [u \in Purchases |-> ReturnRefs(D(u), p)]
<1>0. StockKept
  BY DEF WarehouseInv
<1>1. ASSUME NEW t \in Posted
      PROVE  SumFunctionOnSet(Units, RowsFor(ReturnRefs({t}, p))) =
             OverLocations(returns[t].lines, p)
  <2> DEFINE g == [l \in Locations |-> returns[t].lines[<<p, l>>]]
             One == [l \in Locations |-> {<<"PURCHASE_RETURN", t, <<p, l>>>>}]
             refs == ReturnRefs({t}, p)
  <2>1. \A l \in Locations : <<p, l>> \in Cells
    BY DEF Cells
  <2>2. \A l \in Locations :
            SumFunctionOnSet(Units, RowsFor({<<"PURCHASE_RETURN", t, <<p, l>>>>})) = g[l]
    <3> TAKE l \in Locations
    <3>1. SumFunctionOnSet(Units, EffectsOf(<<"PURCHASE_RETURN", t, <<p, l>>>>)) =
              returns[t].lines[<<p, l>>]
      BY <2>1, ReturnRows
    <3>2. g[l] = returns[t].lines[<<p, l>>]
      OBVIOUS
    <3> HIDE DEF g
    <3> QED BY <3>1, <3>2, RowsForOne
  <2>3. /\ \A l \in Locations : One[l] \subseteq refs
        /\ \A x \in refs : \E l \in Locations : x \in One[l]
        /\ \A l, m \in Locations : \A x \in One[l] : x \in One[m] => l = m
    BY DEF ReturnRefs
  <2>4. \A l \in Locations : SumFunctionOnSet(Units, RowsFor(One[l])) = g[l]
    BY <2>2
  <2>5. SumFunctionOnSet(Units, RowsFor(refs)) = SumFunctionOnSet(g, Locations)
    <3>1. IsFiniteSet(Locations)
      BY InventoryAssumption
    <3> HIDE DEF One, g, refs
    <3> QED BY <1>0, <2>3, <2>4, <3>1, RowsByPart
  <2> QED BY <2>5 DEF OverLocations
<1>2. ASSUME NEW u \in Purchases
      PROVE  SumFunctionOnSet(Units, RowsFor(ReturnRefs(D(u), p))) = Returned(returns, u, p)
  <2> DEFINE One == [t \in D(u) |-> ReturnRefs({t}, p)]
  <2>1. D(u) \in SUBSET Returns /\ D(u) \subseteq Posted
    BY DEF PostedReturns
  <2>2. IsFiniteSet(D(u))
    BY <2>1, FS_Subset, PurchasingAssumption
  <2>3. \A t \in D(u) : SumFunctionOnSet(Units, RowsFor(ReturnRefs({t}, p))) = f[t]
    BY <1>1, <2>1
  <2>4. /\ \A t \in D(u) : One[t] \subseteq ReturnRefs(D(u), p)
        /\ \A x \in ReturnRefs(D(u), p) : \E t \in D(u) : x \in One[t]
        /\ \A t, q \in D(u) : \A x \in One[t] : x \in One[q] => t = q
    BY DEF ReturnRefs
  <2>5. \A t \in D(u) : SumFunctionOnSet(Units, RowsFor(One[t])) = f[t]
    BY <2>3
  <2>6. SumFunctionOnSet(Units, RowsFor(ReturnRefs(D(u), p))) = SumFunctionOnSet(f, D(u))
    <3> HIDE DEF One, f, D
    <3> QED BY <1>0, <2>2, <2>4, <2>5, RowsByPart
  <2> QED BY <2>6 DEF Returned
<1>3. \A t \in Posted : returns[t].purchase \in Purchases
  BY DEF WarehouseInv, PurchaseInv, PurchaseDocumentsFit
<1>4. \A u \in Purchases : D(u) = {t \in Posted : returns[t].purchase = u}
  BY DEF PostedReturns
<1>5. /\ \A u \in Purchases : Part[u] \subseteq ReturnRefs(Posted, p)
      /\ \A x \in ReturnRefs(Posted, p) : \E u \in Purchases : x \in Part[u]
      /\ \A u, v \in Purchases : \A x \in Part[u] : x \in Part[v] => u = v
  <2> HIDE DEF Posted, D
  <2> QED BY <1>3, <1>4 DEF ReturnRefs
<1>6. \A u \in Purchases : SumFunctionOnSet(Units, RowsFor(Part[u])) = h[u]
  BY <1>2
<1>7. SumFunctionOnSet(Units, RowsFor(ReturnRefs(Posted, p))) = SumFunctionOnSet(h, Purchases)
  <2> HIDE DEF Posted, Part, h
  <2> QED BY <1>0, <1>5, <1>6, RowsByPart, WarehouseAssumption
<1> QED BY <1>7

LEMMA UnitsSold ==
    ASSUME WarehouseInv, NEW p \in Products
    PROVE  LET Posted == {s \in SaleIds : sales[s].status = "POSTED"} IN
           SumFunctionOnSet(Units, RowsFor(SaleRefs(Posted, p))) =
           SumFunctionOnSet(
               [s \in SaleIds |->
                   SumFunctionOnSet([l \in Locations |-> sales[s].items[<<p, l>>]], Locations)],
               Posted)
<1> DEFINE Posted == {s \in SaleIds : sales[s].status = "POSTED"}
           g(s) == [l \in Locations |-> sales[s].items[<<p, l>>]]
           h == [s \in SaleIds |-> SumFunctionOnSet(g(s), Locations)]
           Part == [s \in Posted |-> SaleRefs({s}, p)]
<1>0. StockKept /\ IsFiniteSet(Locations)
  BY InventoryAssumption DEF WarehouseInv
<1>1. ASSUME NEW s \in Posted
      PROVE  SumFunctionOnSet(Units, RowsFor(SaleRefs({s}, p))) =
             SumFunctionOnSet(g(s), Locations)
  <2> DEFINE One == [l \in Locations |-> {<<"SALE", s, <<p, l>>>>}]
             refs == SaleRefs({s}, p)
             gs == g(s)
  <2>1. \A l \in Locations : SumFunctionOnSet(Units, RowsFor({<<"SALE", s, <<p, l>>>>})) = gs[l]
    <3> TAKE l \in Locations
    <3>1. <<p, l>> \in Cells
      BY DEF Cells
    <3>2. SumFunctionOnSet(Units, SaleEffects(<<"SALE", s, <<p, l>>>>)) = sales[s].items[<<p, l>>]
      BY <3>1, SaleRows
    <3>3. gs[l] = sales[s].items[<<p, l>>]
      OBVIOUS
    <3> HIDE DEF gs
    <3> QED BY <3>2, <3>3, RowsForOne
  <2>2. /\ \A l \in Locations : One[l] \subseteq refs
        /\ \A x \in refs : \E l \in Locations : x \in One[l]
        /\ \A l, m \in Locations : \A x \in One[l] : x \in One[m] => l = m
    BY DEF SaleRefs
  <2>3. \A l \in Locations : SumFunctionOnSet(Units, RowsFor(One[l])) = gs[l]
    BY <2>1
  <2>4. SumFunctionOnSet(Units, RowsFor(refs)) = SumFunctionOnSet(gs, Locations)
    <3> HIDE DEF One, gs, refs
    <3> QED BY <1>0, <2>2, <2>3, RowsByPart
  <2> QED BY <2>4
<1>2. \A s \in Posted : SumFunctionOnSet(Units, RowsFor(Part[s])) = h[s]
  <2> HIDE DEF g
  <2> QED BY <1>1
<1>3. /\ \A s \in Posted : Part[s] \subseteq SaleRefs(Posted, p)
      /\ \A x \in SaleRefs(Posted, p) : \E s \in Posted : x \in Part[s]
      /\ \A s, v \in Posted : \A x \in Part[s] : x \in Part[v] => s = v
  <2> HIDE DEF Posted
  <2> QED BY DEF SaleRefs
<1>4. IsFiniteSet(Posted)
  <2>1. Posted \in SUBSET SaleIds
    OBVIOUS
  <2> QED BY <2>1, FS_Subset, WarehouseAssumption
<1>5. SumFunctionOnSet(Units, RowsFor(SaleRefs(Posted, p))) = SumFunctionOnSet(h, Posted)
  <2> HIDE DEF Posted, Part, h
  <2> QED BY <1>0, <1>2, <1>3, <1>4, RowsByPart
<1> QED BY <1>5

LEMMA UnitsBroughtBackOfItem ==
    ASSUME WarehouseInv, NEW p \in Products, NEW l \in Locations, NEW s \in SaleIds
    PROVE  SumFunctionOnSet(Units, RowsFor(SaleReturnRefs(PostedSaleReturns(s), {l}, p))) =
           SaleReturned(s, <<p, l>>)
<1> DEFINE D == PostedSaleReturns(s)
           f == [t \in SaleReturnIds |-> ReturnedTo(saleReturns[t].lines, <<p, l>>)]
           Part == [t \in D |-> SaleReturnRefs({t}, {l}, p)]
<1>0. StockKept /\ IsFiniteSet(Locations)
  BY InventoryAssumption DEF WarehouseInv
<1>1. D \in SUBSET SaleReturnIds /\ \A t \in D : saleReturns[t].status = "POSTED"
  BY DEF PostedSaleReturns
<1>2. ASSUME NEW t \in D
      PROVE  SumFunctionOnSet(Units, RowsFor(SaleReturnRefs({t}, {l}, p))) =
             ReturnedTo(saleReturns[t].lines, <<p, l>>)
  <2> DEFINE g == [m \in Locations |-> saleReturns[t].lines[<<<<p, l>>, m>>]]
             One == [m \in Locations |-> {<<"SALE_RETURN", t, <<<<p, l>>, m>>>>}]
             refs == SaleReturnRefs({t}, {l}, p)
  <2>1. \A m \in Locations :
            SumFunctionOnSet(Units, RowsFor({<<"SALE_RETURN", t, <<<<p, l>>, m>>>>})) = g[m]
    <3> TAKE m \in Locations
    <3>1. <<<<p, l>>, m>> \in ReturnLines
      BY DEF ReturnLines, Cells
    <3>2. t \in SaleReturnIds /\ saleReturns[t].status = "POSTED"
      BY <1>1
    <3>3. SumFunctionOnSet(Units, SaleEffects(<<"SALE_RETURN", t, <<<<p, l>>, m>>>>)) =
              saleReturns[t].lines[<<<<p, l>>, m>>]
      BY <3>1, <3>2, SaleReturnRows
    <3>4. g[m] = saleReturns[t].lines[<<<<p, l>>, m>>]
      OBVIOUS
    <3> HIDE DEF g
    <3> QED BY <3>3, <3>4, RowsForOne
  <2>2. /\ \A m \in Locations : One[m] \subseteq refs
        /\ \A x \in refs : \E m \in Locations : x \in One[m]
        /\ \A m, n \in Locations : \A x \in One[m] : x \in One[n] => m = n
    BY DEF SaleReturnRefs
  <2>3. \A m \in Locations : SumFunctionOnSet(Units, RowsFor(One[m])) = g[m]
    BY <2>1
  <2>4. SumFunctionOnSet(Units, RowsFor(refs)) = SumFunctionOnSet(g, Locations)
    <3> HIDE DEF One, g, refs
    <3> QED BY <1>0, <2>2, <2>3, RowsByPart
  <2> QED BY <2>4 DEF ReturnedTo
<1>3. \A t \in D : SumFunctionOnSet(Units, RowsFor(Part[t])) = f[t]
  BY <1>1, <1>2
<1>4. /\ \A t \in D : Part[t] \subseteq SaleReturnRefs(D, {l}, p)
      /\ \A x \in SaleReturnRefs(D, {l}, p) : \E t \in D : x \in Part[t]
      /\ \A t, v \in D : \A x \in Part[t] : x \in Part[v] => t = v
  <2> HIDE DEF D
  <2> QED BY DEF SaleReturnRefs
<1>5. IsFiniteSet(D)
  BY <1>1, FS_Subset, SalesAssumption
<1>6. SumFunctionOnSet(Units, RowsFor(SaleReturnRefs(D, {l}, p))) = SumFunctionOnSet(f, D)
  <2> DEFINE refs == SaleReturnRefs(D, {l}, p)
  <2> HIDE DEF D, Part, f, refs
  <2>1. SumFunctionOnSet(Units, RowsFor(refs)) = SumFunctionOnSet(f, D)
    <3>1. /\ \A t \in D : Part[t] \subseteq refs
          /\ \A x \in refs : \E t \in D : x \in Part[t]
          /\ \A t, v \in D : \A x \in Part[t] : x \in Part[v] => t = v
      BY <1>4 DEF refs
    <3> QED BY <1>0, <1>3, <1>5, <3>1, RowsByPart
  <2> QED BY <2>1 DEF refs
<1> QED BY <1>6 DEF SaleReturned

LEMMA UnitsBroughtBack ==
    ASSUME WarehouseInv, NEW p \in Products
    PROVE  LET Posted == {s \in SaleIds : sales[s].status = "POSTED"}
               Back == {t \in SaleReturnIds : saleReturns[t].status = "POSTED"}
           IN  SumFunctionOnSet(Units, RowsFor(SaleReturnRefs(Back, Locations, p))) =
               SumFunctionOnSet(
                   [s \in SaleIds |->
                       SumFunctionOnSet([l \in Locations |-> SaleReturned(s, <<p, l>>)],
                                        Locations)],
                   Posted)
<1> DEFINE Posted == {s \in SaleIds : sales[s].status = "POSTED"}
           Back == {t \in SaleReturnIds : saleReturns[t].status = "POSTED"}
           D(s) == PostedSaleReturns(s)
           g(s) == [l \in Locations |-> SaleReturned(s, <<p, l>>)]
           h == [s \in SaleIds |-> SumFunctionOnSet(g(s), Locations)]
           Part == [s \in Posted |-> SaleReturnRefs(D(s), Locations, p)]
           all == SaleReturnRefs(Back, Locations, p)
<1>0. StockKept /\ IsFiniteSet(Locations)
  BY InventoryAssumption DEF WarehouseInv
<1>1. ASSUME NEW s \in Posted
      PROVE  SumFunctionOnSet(Units, RowsFor(SaleReturnRefs(D(s), Locations, p))) =
             SumFunctionOnSet(g(s), Locations)
  <2> DEFINE One == [l \in Locations |-> SaleReturnRefs(D(s), {l}, p)]
             refs == SaleReturnRefs(D(s), Locations, p)
             gs == g(s)
  <2>1. \A l \in Locations :
            SumFunctionOnSet(Units, RowsFor(SaleReturnRefs(D(s), {l}, p))) = gs[l]
    <3> TAKE l \in Locations
    <3>1. SumFunctionOnSet(Units, RowsFor(SaleReturnRefs(D(s), {l}, p))) = SaleReturned(s, <<p, l>>)
      BY UnitsBroughtBackOfItem
    <3>2. gs[l] = SaleReturned(s, <<p, l>>)
      OBVIOUS
    <3> HIDE DEF gs
    <3> QED BY <3>1, <3>2
  <2>2. /\ \A l \in Locations : One[l] \subseteq refs
        /\ \A x \in refs : \E l \in Locations : x \in One[l]
        /\ \A l, m \in Locations : \A x \in One[l] : x \in One[m] => l = m
    <3> HIDE DEF D
    <3> QED BY DEF SaleReturnRefs
  <2>3. \A l \in Locations : SumFunctionOnSet(Units, RowsFor(One[l])) = gs[l]
    <3> HIDE DEF gs
    <3> QED BY <2>1
  <2>4. SumFunctionOnSet(Units, RowsFor(refs)) = SumFunctionOnSet(gs, Locations)
    <3> HIDE DEF One, gs, refs
    <3> QED BY <1>0, <2>2, <2>3, RowsByPart
  <2> QED BY <2>4
<1>2. \A s \in Posted : SumFunctionOnSet(Units, RowsFor(Part[s])) = h[s]
  <2> HIDE DEF g, D
  <2> QED BY <1>1
<1>3. /\ \A t \in Back : saleReturns[t].sale \in Posted
      /\ \A s \in Posted : D(s) = {t \in Back : saleReturns[t].sale = s}
  BY DEF WarehouseInv, SaleInv, SaleDocumentsFit, PostedSaleReturns
<1>4. /\ \A s \in Posted : Part[s] \subseteq all
      /\ \A x \in all : \E s \in Posted : x \in Part[s]
      /\ \A s, v \in Posted : \A x \in Part[s] : x \in Part[v] => s = v
  <2> HIDE DEF Posted, Back, D
  <2> QED BY <1>3 DEF SaleReturnRefs
<1>5. IsFiniteSet(Posted)
  <2>1. Posted \in SUBSET SaleIds
    OBVIOUS
  <2> QED BY <2>1, FS_Subset, WarehouseAssumption
<1>6. SumFunctionOnSet(Units, RowsFor(all)) = SumFunctionOnSet(h, Posted)
  <2> HIDE DEF Posted, Part, h, all
  <2> QED BY <1>0, <1>2, <1>4, <1>5, RowsByPart
<1> QED BY <1>6

\* Every row of a product is a manual movement or belongs to one line of one
\* posted document, and enters what the line says.
LEMMA RowsOfProduct ==
    ASSUME WarehouseInv, NEW p \in Products
    PROVE  LET H == {i \in DOMAIN movements : /\ movements[i].request.product = p
                                              /\ movements[i].request.ref = NoRef}
               B1 == RowsFor(ReceiptRefs({r \in Receipts : receipts[r].status = "POSTED"}, p))
               B2 == RowsFor(ReturnRefs({t \in Returns : returns[t].status = "POSTED"}, p))
               B3 == RowsFor(SaleRefs({s \in SaleIds : sales[s].status = "POSTED"}, p))
               B4 == RowsFor(SaleReturnRefs(
                         {t \in SaleReturnIds : saleReturns[t].status = "POSTED"}, Locations, p))
           IN  /\ RowsOf(movements, p) = H \cup B1 \cup B2 \cup B3 \cup B4
               /\ H \cap (B1 \cup B2 \cup B3 \cup B4) = {}
               /\ B1 \cap (B2 \cup B3 \cup B4) = {} /\ B2 \cap (B3 \cup B4) = {} /\ B3 \cap B4 = {}
               /\ \A i \in B1 \cup B4 : Entries(movements)[i] = Units[i]
               /\ \A i \in B2 \cup B3 : Entries(movements)[i] = -Units[i]
<1> DEFINE P1 == {r \in Receipts : receipts[r].status = "POSTED"}
           P2 == {t \in Returns : returns[t].status = "POSTED"}
           P3 == {s \in SaleIds : sales[s].status = "POSTED"}
           P4 == {t \in SaleReturnIds : saleReturns[t].status = "POSTED"}
           H == {i \in DOMAIN movements : /\ movements[i].request.product = p
                                          /\ movements[i].request.ref = NoRef}
           B1 == RowsFor(ReceiptRefs(P1, p))
           B2 == RowsFor(ReturnRefs(P2, p))
           B3 == RowsFor(SaleRefs(P3, p))
           B4 == RowsFor(SaleReturnRefs(P4, Locations, p))
           Ref(i) == movements[i].request.ref
<1>0. \A i \in DOMAIN movements : Entries(movements)[i] = Entering(movements[i])
                               /\ Units[i] = movements[i].request.quantity
  BY DEF Entries, Units
<1>1. ASSUME NEW i \in B1
      PROVE  /\ i \in DOMAIN movements /\ movements[i].request.product = p
             /\ Ref(i) # NoRef /\ Ref(i)[1] = "PURCHASE_RECEIPT"
             /\ movements[i].request.type = "IN"
  <2>1. PICK r \in Receipts : Ref(i) = <<"PURCHASE_RECEIPT", r, p>>
    BY DEF RowsFor, ReceiptRefs
  <2>2. i \in DOMAIN movements /\ i \in EffectsOf(<<"PURCHASE_RECEIPT", r, p>>)
    BY <2>1 DEF RowsFor, EffectsOf
  <2>3. movements[i].request = ReceiptLine(receipts, r, p)
    BY <2>2, ReceiptRows
  <2>4. Ref(i) \in Refs
    BY <2>1, PurchasingAssumption DEF PurchasingRefs
  <2> QED BY <2>1, <2>2, <2>3, <2>4, InventoryAssumption DEF ReceiptLine, Request
<1>2. ASSUME NEW i \in B2
      PROVE  /\ i \in DOMAIN movements /\ movements[i].request.product = p
             /\ Ref(i) # NoRef /\ Ref(i)[1] = "PURCHASE_RETURN"
             /\ movements[i].request.type = "OUT"
  <2>1. PICK t \in Returns, l \in Locations : Ref(i) = <<"PURCHASE_RETURN", t, <<p, l>>>>
    BY DEF RowsFor, ReturnRefs
  <2>2. <<p, l>> \in Cells
    BY DEF Cells
  <2>3. i \in DOMAIN movements /\ i \in EffectsOf(<<"PURCHASE_RETURN", t, <<p, l>>>>)
    BY <2>1 DEF RowsFor, EffectsOf
  <2>4. movements[i].request = ReturnLine(returns, t, <<p, l>>)
    BY <2>2, <2>3, ReturnRows
  <2>5. Ref(i) \in Refs
    BY <2>1, <2>2, PurchasingAssumption DEF PurchasingRefs
  <2> QED BY <2>1, <2>3, <2>4, <2>5, InventoryAssumption DEF ReturnLine, Request
<1>3. ASSUME NEW i \in B3
      PROVE  /\ i \in DOMAIN movements /\ movements[i].request.product = p
             /\ Ref(i) # NoRef /\ Ref(i)[1] = "SALE"
             /\ movements[i].request.type = "OUT"
  <2>1. PICK s \in SaleIds, l \in Locations : Ref(i) = <<"SALE", s, <<p, l>>>>
    BY DEF RowsFor, SaleRefs
  <2>2. <<p, l>> \in Cells
    BY DEF Cells
  <2>3. i \in DOMAIN movements /\ i \in SaleEffects(<<"SALE", s, <<p, l>>>>)
    BY <2>1 DEF RowsFor, SaleEffects
  <2>4. movements[i].request = SaleLine(sales, s, <<p, l>>)
    BY <2>2, <2>3, SaleRows
  <2>5. Ref(i) \in Refs
    BY <2>1, <2>2, SalesAssumption DEF SalesRefs
  <2> QED BY <2>1, <2>3, <2>4, <2>5, InventoryAssumption DEF SaleLine, Request
<1>4. ASSUME NEW i \in B4
      PROVE  /\ i \in DOMAIN movements /\ movements[i].request.product = p
             /\ Ref(i) # NoRef /\ Ref(i)[1] = "SALE_RETURN"
             /\ movements[i].request.type = "IN"
  <2>1. PICK t \in SaleReturnIds, l \in Locations, m \in Locations :
            Ref(i) = <<"SALE_RETURN", t, <<<<p, l>>, m>>>>
    BY DEF RowsFor, SaleReturnRefs
  <2>2. <<<<p, l>>, m>> \in ReturnLines
    BY DEF Cells, ReturnLines
  <2>3. i \in DOMAIN movements /\ i \in SaleEffects(<<"SALE_RETURN", t, <<<<p, l>>, m>>>>)
    BY <2>1 DEF RowsFor, SaleEffects
  <2>4. movements[i].request = SaleReturnLine(saleReturns, t, <<<<p, l>>, m>>)
    BY <2>2, <2>3, SaleReturnRows
  <2>5. Ref(i) \in Refs
    BY <2>1, <2>2, SalesAssumption DEF SalesRefs, ReturnLines
  <2> QED BY <2>1, <2>3, <2>4, <2>5, InventoryAssumption DEF SaleReturnLine, Request
<1>5. ASSUME NEW i \in RowsOf(movements, p), Ref(i) # NoRef
      PROVE  i \in B1 \/ i \in B2 \/ i \in B3 \/ i \in B4
  <2>1. i \in DOMAIN movements /\ movements[i].request.product = p
    BY DEF RowsOf
  <2>2. movements[i].request \in Requests
    BY <2>1, RowsAreTyped DEF WarehouseInv
  <2>3. Ref(i) \in Refs
    BY <1>5, <2>2 DEF Requests
  <2>4. movements[i].request \in AllAsked
    BY <2>1, <2>3 DEF WarehouseInv, Explains
  <2>5. CASE movements[i].request \in AskedByReceipts(receipts)
    <3>1. PICK r \in Receipts, q \in Products :
              receipts[r].status = "POSTED" /\ movements[i].request = ReceiptLine(receipts, r, q)
      BY <2>5 DEF AskedByReceipts
    <3>2. r \in P1 /\ q = p /\ Ref(i) = <<"PURCHASE_RECEIPT", r, p>>
      BY <2>1, <3>1 DEF ReceiptLine, Request
    <3>3. Ref(i) \in ReceiptRefs(P1, p)
      <4> HIDE DEF P1
      <4> QED BY <3>2 DEF ReceiptRefs
    <3> QED BY <2>1, <3>3 DEF RowsFor
  <2>6. CASE movements[i].request \in AskedByReturns(returns)
    <3>1. PICK t \in Returns, c \in Cells :
              returns[t].status = "POSTED" /\ movements[i].request = ReturnLine(returns, t, c)
      BY <2>6 DEF AskedByReturns
    <3>2. t \in P2 /\ c[1] = p /\ Ref(i) = <<"PURCHASE_RETURN", t, c>>
      BY <2>1, <3>1 DEF ReturnLine, Request
    <3>3. c = <<p, c[2]>> /\ c[2] \in Locations
      BY <3>2 DEF Cells
    <3>4. Ref(i) \in ReturnRefs(P2, p)
      <4> HIDE DEF P2
      <4> QED BY <3>2, <3>3 DEF ReturnRefs
    <3> QED BY <2>1, <3>4 DEF RowsFor
  <2>7. CASE movements[i].request \in AskedBySales(sales)
    <3>1. PICK s \in SaleIds, c \in Cells :
              sales[s].status = "POSTED" /\ movements[i].request = SaleLine(sales, s, c)
      BY <2>7 DEF AskedBySales
    <3>2. s \in P3 /\ c[1] = p /\ Ref(i) = <<"SALE", s, c>>
      BY <2>1, <3>1 DEF SaleLine, Request
    <3>3. c = <<p, c[2]>> /\ c[2] \in Locations
      BY <3>2 DEF Cells
    <3>4. Ref(i) \in SaleRefs(P3, p)
      <4> HIDE DEF P3
      <4> QED BY <3>2, <3>3 DEF SaleRefs
    <3> QED BY <2>1, <3>4 DEF RowsFor
  <2>8. CASE movements[i].request \in AskedBySaleReturns(saleReturns)
    <3>1. PICK t \in SaleReturnIds, k \in ReturnLines :
              /\ saleReturns[t].status = "POSTED"
              /\ movements[i].request = SaleReturnLine(saleReturns, t, k)
      BY <2>8 DEF AskedBySaleReturns
    <3>2. t \in P4 /\ k[1][1] = p /\ Ref(i) = <<"SALE_RETURN", t, k>>
      BY <2>1, <3>1 DEF SaleReturnLine, Request
    <3>3. k = <<k[1], k[2]>> /\ k[1] \in Cells /\ k[2] \in Locations
      BY DEF ReturnLines
    <3>4. k[1] = <<p, k[1][2]>> /\ k[1][2] \in Locations
      BY <3>2, <3>3 DEF Cells
    <3>5. Ref(i) \in SaleReturnRefs(P4, Locations, p)
      <4> HIDE DEF P4
      <4> QED BY <3>2, <3>3, <3>4 DEF SaleReturnRefs
    <3> QED BY <2>1, <3>5 DEF RowsFor
  <2> QED BY <2>4, <2>5, <2>6, <2>7, <2>8 DEF AllAsked, PurchasingAsked, SalesAsked
<1>6. \A i \in H : i \in RowsOf(movements, p) /\ Ref(i) = NoRef
  BY DEF RowsOf
<1>7. \A i \in RowsOf(movements, p) : Ref(i) = NoRef => i \in H
  BY DEF RowsOf
<1>8. \A i \in B1 \cup B2 \cup B3 \cup B4 : i \in RowsOf(movements, p)
  <2> HIDE DEF B1, B2, B3, B4
  <2> QED BY <1>1, <1>2, <1>3, <1>4 DEF RowsOf
<1>9. \A i \in B1 \cup B4 : Entries(movements)[i] = Units[i]
  <2> HIDE DEF B1, B4
  <2> QED BY <1>0, <1>1, <1>4 DEF Entering
<1>10. \A i \in B2 \cup B3 : Entries(movements)[i] = -Units[i]
  <2> HIDE DEF B2, B3
  <2> QED BY <1>0, <1>2, <1>3 DEF Entering
<1> HIDE DEF H, B1, B2, B3, B4, Ref
<1>11. RowsOf(movements, p) = H \cup B1 \cup B2 \cup B3 \cup B4
  BY <1>5, <1>6, <1>7, <1>8
<1>12. H \cap (B1 \cup B2 \cup B3 \cup B4) = {}
  BY <1>1, <1>2, <1>3, <1>4, <1>6
<1>13. B1 \cap (B2 \cup B3 \cup B4) = {} /\ B2 \cap (B3 \cup B4) = {} /\ B3 \cap B4 = {}
  <2>1. "PURCHASE_RECEIPT" # "PURCHASE_RETURN" /\ "PURCHASE_RECEIPT" # "SALE"
        /\ "PURCHASE_RECEIPT" # "SALE_RETURN" /\ "PURCHASE_RETURN" # "SALE"
        /\ "PURCHASE_RETURN" # "SALE_RETURN" /\ "SALE" # "SALE_RETURN"
    OBVIOUS
  <2> QED BY <1>1, <1>2, <1>3, <1>4, <2>1
<1> QED BY <1>9, <1>10, <1>11, <1>12, <1>13 DEF H, B1, B2, B3, B4, P1, P2, P3, P4

\* What purchases and sales amount to, as the difference of both directions.
LEMMA NetReceivedIs ==
    ASSUME WarehouseInv, NEW p \in Products
    PROVE  NetReceived(p) =
               SumFunctionOnSet([u \in Purchases |-> Received(receipts, u, p)], Purchases)
             - SumFunctionOnSet([u \in Purchases |-> Returned(returns, u, p)], Purchases)
<1> DEFINE f == [u \in Purchases |-> Received(receipts, u, p)]
           g == [u \in Purchases |-> Returned(returns, u, p)]
           h == [u \in Purchases |-> Received(receipts, u, p) - Returned(returns, u, p)]
<1>1. \A u \in Purchases : f[u] \in Nat /\ g[u] \in Nat /\ h[u] = f[u] - g[u]
  BY PurchaseNumbers DEF WarehouseInv, PurchaseInv
<1> HIDE DEF f, g, h
<1>2. SumFunctionOnSet(h, Purchases) =
          SumFunctionOnSet(f, Purchases) - SumFunctionOnSet(g, Purchases)
  BY <1>1, SumDifference, WarehouseAssumption DEF Integral
<1> QED BY <1>2 DEF NetReceived, f, g, h

LEMMA NetSoldIs ==
    ASSUME WarehouseInv, NEW p \in Products
    PROVE  LET Posted == {s \in SaleIds : sales[s].status = "POSTED"} IN
           NetSold(p) =
               SumFunctionOnSet(
                   [s \in SaleIds |->
                       SumFunctionOnSet([l \in Locations |-> sales[s].items[<<p, l>>]],
                                        Locations)], Posted)
             - SumFunctionOnSet(
                   [s \in SaleIds |->
                       SumFunctionOnSet([l \in Locations |-> SaleReturned(s, <<p, l>>)],
                                        Locations)], Posted)
<1> DEFINE Posted == {s \in SaleIds : sales[s].status = "POSTED"}
           a(s) == [l \in Locations |-> sales[s].items[<<p, l>>]]
           b(s) == [l \in Locations |-> SaleReturned(s, <<p, l>>)]
           c(s) == [l \in Locations |-> sales[s].items[<<p, l>>] - SaleReturned(s, <<p, l>>)]
           f == [s \in SaleIds |-> SumFunctionOnSet(a(s), Locations)]
           g == [s \in SaleIds |-> SumFunctionOnSet(b(s), Locations)]
           h == [s \in SaleIds |-> SumFunctionOnSet(c(s), Locations)]
<1>1. ASSUME NEW s \in SaleIds
      PROVE  /\ SumFunctionOnSet(a(s), Locations) \in Int
             /\ SumFunctionOnSet(b(s), Locations) \in Int
             /\ SumFunctionOnSet(c(s), Locations) =
                    SumFunctionOnSet(a(s), Locations) - SumFunctionOnSet(b(s), Locations)
  <2> DEFINE A == a(s)
             B == b(s)
             C == c(s)
  <2>1. \A l \in Locations : <<p, l>> \in Cells
    BY DEF Cells
  <2>2. \A l \in Locations : A[l] \in Nat /\ B[l] \in Nat /\ C[l] = A[l] - B[l]
    BY <2>1, SaleNumbers DEF WarehouseInv, SaleInv
  <2> HIDE DEF A, B, C
  <2>3. /\ SumFunctionOnSet(A, Locations) \in Int /\ SumFunctionOnSet(B, Locations) \in Int
        /\ SumFunctionOnSet(C, Locations) =
               SumFunctionOnSet(A, Locations) - SumFunctionOnSet(B, Locations)
    BY <2>2, SumInt, SumDifference, InventoryAssumption DEF Integral
  <2> QED BY <2>3 DEF A, B, C
<1>2. \A s \in SaleIds : f[s] \in Int /\ g[s] \in Int /\ h[s] = f[s] - g[s]
  <2> HIDE DEF a, b, c
  <2> QED BY <1>1
<1>3. Posted \in SUBSET SaleIds
  OBVIOUS
<1> HIDE DEF f, g, h, Posted
<1>4. IsFiniteSet(Posted)
  BY <1>3, FS_Subset, WarehouseAssumption
<1>5. Integral(f, Posted) /\ Integral(g, Posted) /\ \A s \in Posted : h[s] = f[s] - g[s]
  BY <1>2, <1>3 DEF Integral
<1>6. SumFunctionOnSet(h, Posted) = SumFunctionOnSet(f, Posted) - SumFunctionOnSet(g, Posted)
  BY <1>4, <1>5, SumDifference
<1> QED BY <1>6 DEF NetSold, f, g, h, Posted

LEMMA DocumentsExplainStock ==
    ASSUME WarehouseInv PROVE StockExplainedByDocuments
<1> SUFFICES ASSUME NEW p \in Products
             PROVE  OnHand(stock, p) = EnteredByHand(p) + NetReceived(p) - NetSold(p)
  BY DEF StockExplainedByDocuments, OnHand, ByLocation
<1> DEFINE f == Entries(movements)
           H == {i \in DOMAIN movements : /\ movements[i].request.product = p
                                          /\ movements[i].request.ref = NoRef}
           B1 == RowsFor(ReceiptRefs({r \in Receipts : receipts[r].status = "POSTED"}, p))
           B2 == RowsFor(ReturnRefs({t \in Returns : returns[t].status = "POSTED"}, p))
           B3 == RowsFor(SaleRefs({s \in SaleIds : sales[s].status = "POSTED"}, p))
           B4 == RowsFor(SaleReturnRefs(
                     {t \in SaleReturnIds : saleReturns[t].status = "POSTED"}, Locations, p))
           Posted == {s \in SaleIds : sales[s].status = "POSTED"}
           R == SumFunctionOnSet([u \in Purchases |-> Received(receipts, u, p)], Purchases)
           T == SumFunctionOnSet([u \in Purchases |-> Returned(returns, u, p)], Purchases)
           S == SumFunctionOnSet(
                    [s \in SaleIds |-> SumFunctionOnSet(
                        [l \in Locations |-> sales[s].items[<<p, l>>]], Locations)], Posted)
           B == SumFunctionOnSet(
                    [s \in SaleIds |-> SumFunctionOnSet(
                        [l \in Locations |-> SaleReturned(s, <<p, l>>)], Locations)], Posted)
<1>1. /\ RowsOf(movements, p) = H \cup B1 \cup B2 \cup B3 \cup B4
      /\ H \cap (B1 \cup B2 \cup B3 \cup B4) = {}
      /\ B1 \cap (B2 \cup B3 \cup B4) = {} /\ B2 \cap (B3 \cup B4) = {} /\ B3 \cap B4 = {}
      /\ \A i \in B1 \cup B4 : f[i] = Units[i]
      /\ \A i \in B2 \cup B3 : f[i] = -Units[i]
  BY RowsOfProduct
<1>2. /\ SumFunctionOnSet(Units, B1) = R /\ SumFunctionOnSet(Units, B2) = T
      /\ SumFunctionOnSet(Units, B3) = S /\ SumFunctionOnSet(Units, B4) = B
  BY UnitsReceived, UnitsReturned, UnitsSold, UnitsBroughtBack
<1>3. NetReceived(p) = R - T /\ NetSold(p) = S - B
  BY NetReceivedIs, NetSoldIs
<1>4. EnteredByHand(p) = SumFunctionOnSet(f, H)
  BY DEF EnteredByHand, Entries
<1>5. OnHand(stock, p) = SumFunctionOnSet(f, RowsOf(movements, p))
  BY DEF WarehouseInv, StockKept, LedgerOK, Entered
<1>6. StockKept /\ \A i \in DOMAIN movements : f[i] \in Int
  BY DEF WarehouseInv, StockKept, LedgerOK, Entries
<1>7. H \subseteq DOMAIN movements /\ B1 \subseteq DOMAIN movements
      /\ B2 \subseteq DOMAIN movements /\ B3 \subseteq DOMAIN movements
      /\ B4 \subseteq DOMAIN movements
  BY DEF RowsFor
<1> HIDE DEF f, H, B1, B2, B3, B4, Posted, R, T, S, B
<1>8. \A X \in SUBSET DOMAIN movements :
          IsFiniteSet(X) /\ Integral(f, X) /\ Integral(Units, X)
                         /\ SumFunctionOnSet(Units, X) \in Int
  BY <1>6, RowsAreTyped, SumInt DEF Integral
<1>9. /\ SumFunctionOnSet(f, B1) = R /\ SumFunctionOnSet(f, B4) = B
      /\ SumFunctionOnSet(f, B2) = -T /\ SumFunctionOnSet(f, B3) = -S
  <2>1. SumFunctionOnSet(f, B1) = SumFunctionOnSet(Units, B1)
    BY <1>1, <1>7, <1>8, SumAgree
  <2>2. SumFunctionOnSet(f, B4) = SumFunctionOnSet(Units, B4)
    BY <1>1, <1>7, <1>8, SumAgree
  <2>3. SumFunctionOnSet(f, B2) = -SumFunctionOnSet(Units, B2)
    BY <1>1, <1>7, <1>8, SumNegated
  <2>4. SumFunctionOnSet(f, B3) = -SumFunctionOnSet(Units, B3)
    BY <1>1, <1>7, <1>8, SumNegated
  <2> QED BY <1>2, <2>1, <2>2, <2>3, <2>4
<1>10. SumFunctionOnSet(f, B3 \cup B4) = SumFunctionOnSet(f, B3) + SumFunctionOnSet(f, B4)
  BY <1>1, <1>7, <1>8, SumDisjoint
<1>11. SumFunctionOnSet(f, B2 \cup (B3 \cup B4)) =
           SumFunctionOnSet(f, B2) + SumFunctionOnSet(f, B3 \cup B4)
  <2>1. B3 \cup B4 \in SUBSET DOMAIN movements
    BY <1>7
  <2> QED BY <1>1, <1>7, <1>8, <2>1, SumDisjoint
<1>12. SumFunctionOnSet(f, B1 \cup (B2 \cup (B3 \cup B4))) =
           SumFunctionOnSet(f, B1) + SumFunctionOnSet(f, B2 \cup (B3 \cup B4))
  <2>1. B2 \cup (B3 \cup B4) \in SUBSET DOMAIN movements
        /\ B1 \cap (B2 \cup (B3 \cup B4)) = {}
    BY <1>1, <1>7
  <2> QED BY <1>7, <1>8, <2>1, SumDisjoint
<1>13. SumFunctionOnSet(f, RowsOf(movements, p)) =
           SumFunctionOnSet(f, H) + SumFunctionOnSet(f, B1 \cup (B2 \cup (B3 \cup B4)))
  <2>1. /\ B1 \cup (B2 \cup (B3 \cup B4)) \in SUBSET DOMAIN movements
        /\ H \cap (B1 \cup (B2 \cup (B3 \cup B4))) = {}
        /\ RowsOf(movements, p) = H \cup (B1 \cup (B2 \cup (B3 \cup B4)))
    BY <1>1, <1>7
  <2> QED BY <1>7, <1>8, <2>1, SumDisjoint
<1>14. R \in Int /\ T \in Int /\ S \in Int /\ B \in Int /\ SumFunctionOnSet(f, H) \in Int
  BY <1>2, <1>7, <1>8, SumInt
<1>15. SumFunctionOnSet(f, RowsOf(movements, p)) =
           SumFunctionOnSet(f, H) + (R + ((-T) + ((-S) + B)))
  BY <1>9, <1>10, <1>11, <1>12, <1>13
<1> QED BY <1>3, <1>4, <1>5, <1>14, <1>15

\* The units of a product on hand are what was received and kept, less what was
\* sold and not brought back, and what staff moved in by hand, at any interleaving
\* of receipts, returns, sales and manual movements over the same balance rows.
THEOREM DocumentsExplainTheStock == WarehouseSpec => []StockExplainedByDocuments
BY DocumentsExplainStock, WarehouseInvariant, PTL

-----------------------------------------------------------------------------
(* Purchases and sales as orders: every step maps to a step of Orders *)

\* A table of which one row changes.
LEMMA OneRowChanges ==
    ASSUME NEW S, NEW f, NEW g, NEW u \in S,
           f = [v \in S |-> f[v]], g = [v \in S |-> g[v]],
           \A v \in S \ {u} : g[v] = f[v]
    PROVE  g = [f EXCEPT ![u] = g[u]]
<1> DEFINE h == [f EXCEPT ![u] = g[u]]
<1>1. h = [v \in S |-> h[v]]
  OBVIOUS
<1>2. \A v \in S : h[v] = g[v]
  OBVIOUS
<1> HIDE DEF h
<1>3. g = h
  BY <1>1, <1>2
<1> QED BY <1>3 DEF h

\* What the tables of the abstract order hold for one purchase.
LEMMA UnitsAt ==
    ASSUME NEW u \in Purchases
    PROVE  /\ OrderStatuses[u] = OrderStatus(purchases[u].status)
           /\ OrderedUnits[u] = purchases[u].ordered
           /\ \A p \in Products : ReceivedUnits[u][p] = Received(receipts, u, p)
           /\ \A p \in Products : ReceivedUnits'[u][p] = Received(receipts', u, p)
           /\ \A p \in Products : ReturnedUnits[u][p] = Returned(returns, u, p)
           /\ \A p \in Products : ReturnedUnits'[u][p] = Returned(returns', u, p)
<1>1. /\ OrderStatuses[u] = OrderStatus(purchases[u].status)
      /\ OrderedUnits[u] = purchases[u].ordered
  BY DEF OrderStatuses, OrderedUnits
<1>2. \A p \in Products : /\ ReceivedUnits[u][p] = Received(receipts, u, p)
                          /\ ReceivedUnits'[u][p] = Received(receipts', u, p)
  BY DEF ReceivedUnits, Received, PostedReceipts
<1>3. \A p \in Products : /\ ReturnedUnits[u][p] = Returned(returns, u, p)
                          /\ ReturnedUnits'[u][p] = Returned(returns', u, p)
  BY DEF ReturnedUnits, Returned, PostedReturns
<1> QED BY <1>1, <1>2, <1>3

\* The tables of the abstract order change where the purchases and the units do.
LEMMA RowsFollow ==
    ASSUME PurchaseTypes, PurchaseTypes', NEW u \in Purchases,
           \A v \in Purchases \ {u} :
               /\ purchases'[v] = purchases[v]
               /\ \A p \in Products :
                      /\ Received(receipts', v, p) = Received(receipts, v, p)
                      /\ Returned(returns', v, p) = Returned(returns, v, p)
    PROVE  /\ OrderStatuses' =
                  [OrderStatuses EXCEPT ![u] = OrderStatus(purchases'[u].status)]
           /\ OrderedUnits' = [OrderedUnits EXCEPT ![u] = OrderedUnits'[u]]
           /\ ReceivedUnits' = [ReceivedUnits EXCEPT ![u] = ReceivedUnits'[u]]
           /\ ReturnedUnits' = [ReturnedUnits EXCEPT ![u] = ReturnedUnits'[u]]
           /\ OrderedUnits'[u] \in [Products -> Nat]
           /\ ReceivedUnits'[u] \in [Products -> Nat]
           /\ ReturnedUnits'[u] \in [Products -> Nat]
<1>1. /\ OrderStatuses = [v \in Purchases |-> OrderStatuses[v]]
      /\ OrderStatuses' = [v \in Purchases |-> OrderStatuses'[v]]
      /\ \A v \in Purchases \ {u} : OrderStatuses'[v] = OrderStatuses[v]
      /\ OrderStatuses'[u] = OrderStatus(purchases'[u].status)
  BY DEF OrderStatuses, OrderStatus
<1>2. /\ OrderedUnits = [v \in Purchases |-> OrderedUnits[v]]
      /\ OrderedUnits' = [v \in Purchases |-> OrderedUnits'[v]]
      /\ \A v \in Purchases \ {u} : OrderedUnits'[v] = OrderedUnits[v]
  BY DEF OrderedUnits
<1>3. /\ ReceivedUnits = [v \in Purchases |-> ReceivedUnits[v]]
      /\ ReceivedUnits' = [v \in Purchases |-> ReceivedUnits'[v]]
      /\ \A v \in Purchases \ {u} : ReceivedUnits'[v] = ReceivedUnits[v]
  BY DEF ReceivedUnits, Received, PostedReceipts
<1>4. /\ ReturnedUnits = [v \in Purchases |-> ReturnedUnits[v]]
      /\ ReturnedUnits' = [v \in Purchases |-> ReturnedUnits'[v]]
      /\ \A v \in Purchases \ {u} : ReturnedUnits'[v] = ReturnedUnits[v]
  BY DEF ReturnedUnits, Returned, PostedReturns
<1>5. OrderStatuses' = [OrderStatuses EXCEPT ![u] = OrderStatuses'[u]]
  BY <1>1, OneRowChanges
<1>6. OrderedUnits' = [OrderedUnits EXCEPT ![u] = OrderedUnits'[u]]
  BY <1>2, OneRowChanges
<1>7. ReceivedUnits' = [ReceivedUnits EXCEPT ![u] = ReceivedUnits'[u]]
  BY <1>3, OneRowChanges
<1>8. ReturnedUnits' = [ReturnedUnits EXCEPT ![u] = ReturnedUnits'[u]]
  BY <1>4, OneRowChanges
<1>9. OrderedUnits'[u] \in [Products -> Nat]
  <2>1. OrderedUnits'[u] \in Lines(Products)
    BY DEF OrderedUnits, PurchaseTypes
  <2> QED BY <2>1, LinesAreNatural DEF Lines
<1>10. ReceivedUnits'[u] \in [Products -> Nat]
  <2>1. \A r \in Receipts : receipts'[r].lines \in Lines(Products)
    BY DEF PurchaseTypes
  <2>2. \A r \in Receipts, p \in Products : receipts'[r].lines[p] \in Nat
    BY <2>1, LinesAreNatural
  <2>3. \A p \in Products : Received(receipts', u, p) \in Nat
    BY <2>2, ReceivedIsNatural
  <2> QED BY <2>3, UnitsAt DEF ReceivedUnits
<1>11. ReturnedUnits'[u] \in [Products -> Nat]
  <2>1. \A t \in Returns : returns'[t].lines \in Lines(Cells)
    BY DEF PurchaseTypes
  <2>2. \A t \in Returns, c \in Cells : returns'[t].lines[c] \in Nat
    BY <2>1, LinesAreNatural
  <2>3. ASSUME NEW t \in Returns, NEW p \in Products
        PROVE  OverLocations(returns'[t].lines, p) \in Nat
    <3>1. \A l \in Locations : returns'[t].lines[<<p, l>>] \in Nat
      BY <2>2 DEF Cells
    <3> QED BY <3>1, OverLocationsIsNatural
  <2>4. \A p \in Products : Returned(returns', u, p) \in Nat
    BY <2>3, ReturnedIsNatural
  <2> QED BY <2>4, UnitsAt DEF ReturnedUnits
<1> QED BY <1>1, <1>5, <1>6, <1>7, <1>8, <1>9, <1>10, <1>11

\* Steps of a purchase that deliver and give back nothing.
LEMMA OrderMoves ==
    ASSUME PurchaseTypes, PurchaseTypes', NEW u \in Purchases,
           \A v \in Purchases : v # u => purchases'[v] = purchases[v],
           \A v \in Purchases, p \in Products :
               /\ Received(receipts', v, p) = Received(receipts, v, p)
               /\ Returned(returns', v, p) = Returned(returns, v, p),
           \/ /\ purchases[u].status \in {"NONE", "DRAFT"}
              /\ purchases'[u].status = "DRAFT"
           \/ /\ purchases[u].status = "DRAFT"
              /\ purchases'[u].status = "CONFIRMED"
              /\ purchases'[u].ordered = purchases[u].ordered
           \/ /\ purchases[u].status \in {"DRAFT", "CONFIRMED"}
              /\ purchases'[u].status = "CANCELLED"
              /\ purchases'[u].ordered = purchases[u].ordered
              /\ \A p \in Products : Received(receipts, u, p) = 0
    PROVE  PurchaseOrders!Draft(u) \/ PurchaseOrders!Confirm(u) \/ PurchaseOrders!Cancel(u)
<1>1. /\ OrderStatuses' =
             [OrderStatuses EXCEPT ![u] = OrderStatus(purchases'[u].status)]
      /\ OrderedUnits' = [OrderedUnits EXCEPT ![u] = OrderedUnits'[u]]
      /\ OrderedUnits'[u] \in [Products -> Nat]
  BY RowsFollow
<1>2. OrderStatuses[u] = OrderStatus(purchases[u].status)
  BY UnitsAt
<1>3. UNCHANGED <<ReceivedUnits, ReturnedUnits>>
  BY DEF ReceivedUnits, ReturnedUnits, Received, PostedReceipts, Returned, PostedReturns
<1>4. CASE /\ purchases[u].status \in {"NONE", "DRAFT"}
           /\ purchases'[u].status = "DRAFT"
  <2>1. OrderStatuses[u] \in {"NONE", "DRAFT"}
    BY <1>2, <1>4 DEF OrderStatus
  <2>2. OrderStatus(purchases'[u].status) = "DRAFT"
    BY <1>4 DEF OrderStatus
  <2>3. PurchaseOrders!Draft(u)
    BY <1>1, <1>3, <2>1, <2>2
       DEF PurchaseOrders!Draft, PurchaseOrders!Becomes, PurchaseOrders!Rewrites
  <2> QED BY <2>3
<1>5. ASSUME purchases'[u].ordered = purchases[u].ordered PROVE OrderedUnits' = OrderedUnits
  BY <1>5 DEF OrderedUnits
<1>6. CASE /\ purchases[u].status = "DRAFT"
           /\ purchases'[u].status = "CONFIRMED"
           /\ purchases'[u].ordered = purchases[u].ordered
  <2>1. OrderStatuses[u] = "DRAFT" /\ OrderStatus(purchases'[u].status) = "CONFIRMED"
    BY <1>2, <1>6 DEF OrderStatus
  <2>2. PurchaseOrders!Confirm(u)
    BY <1>1, <1>3, <1>5, <1>6, <2>1 DEF PurchaseOrders!Confirm, PurchaseOrders!Becomes
  <2> QED BY <2>2
<1>7. CASE /\ purchases[u].status \in {"DRAFT", "CONFIRMED"}
           /\ purchases'[u].status = "CANCELLED"
           /\ purchases'[u].ordered = purchases[u].ordered
           /\ \A p \in Products : Received(receipts, u, p) = 0
  <2>1. /\ OrderStatuses[u] \in {"DRAFT", "CONFIRMED"}
        /\ OrderStatus(purchases'[u].status) = "CANCELLED"
    BY <1>2, <1>7 DEF OrderStatus
  <2>2. \A p \in Products : ReceivedUnits[u][p] = 0
    BY <1>7, UnitsAt
  <2>3. PurchaseOrders!Cancel(u)
    BY <1>1, <1>3, <1>5, <1>7, <2>1, <2>2 DEF PurchaseOrders!Cancel, PurchaseOrders!Becomes
  <2> QED BY <2>3
<1> QED BY <1>4, <1>6, <1>7

\* Posting a receipt delivers, and PurchaseInv' says how far.
LEMMA ReceiptDelivers ==
    ASSUME PurchaseInv, PurchaseInv', NEW r \in Receipts, PostReceipt(r),
           NEW u \in Purchases, u = receipts[r].purchase
    PROVE  PurchaseOrders!Deliver(u)
<1>1. /\ receipts[r].status = "DRAFT" /\ u \in Purchases
      /\ receipts' = [receipts EXCEPT ![r].status = "POSTED"]
      /\ purchases' = [purchases EXCEPT ![u].status = StatusAfter(receipts', u)]
      /\ returns' = returns
      /\ purchases[u].status \in {"CONFIRMED", "PARTIALLY_RECEIVED"}
  BY DEF PostReceipt, OpenForReceiving, PurchaseInv, PurchaseDocumentsFit
<1>2. /\ receipts'[r].status = "POSTED" /\ receipts'[r].purchase = u
      /\ receipts'[r].lines = receipts[r].lines
      /\ \A q \in Receipts \ {r} : receipts'[q] = receipts[q]
      /\ \A v \in Purchases : purchases'[v].ordered = purchases[v].ordered
      /\ \A v \in Purchases \ {u} : purchases'[v] = purchases[v]
      /\ purchases'[u].status \in {"PARTIALLY_RECEIVED", "RECEIVED"}
  BY <1>1 DEF PurchaseInv, PurchaseTypes, StatusAfter
<1>3. PurchaseTypes /\ PurchaseTypes'
  BY DEF PurchaseInv
<1>4. /\ \A q \in Receipts, p \in Products : receipts[q].lines[p] \in Nat
      /\ \A v : \A p \in Products : Received(receipts, v, p) \in Nat
  BY <1>3, PurchaseNumbers
<1>5. ASSUME NEW p \in Products
      PROVE  /\ Received(receipts', u, p) = Received(receipts, u, p) + receipts[r].lines[p]
             /\ \A v : v # u => Received(receipts', v, p) = Received(receipts, v, p)
  <2>1. /\ \A q \in Receipts : receipts[q].lines[p] \in Nat
        /\ receipts[r].status # "POSTED"
        /\ receipts'[r].purchase = receipts[r].purchase
    BY <1>1, <1>2, <1>4
  <2> QED BY <1>2, <2>1, PostingReceives
<1>6. PostedReceipts(receipts', u) # {}
  BY <1>2 DEF PostedReceipts
<1>7. \A p \in Products : /\ Received(receipts, u, p) <= Received(receipts', u, p)
                          /\ Received(receipts', u, p) <= purchases[u].ordered[p]
  <2> TAKE p \in Products
  <2>1. Received(receipts', u, p) <= purchases'[u].ordered[p]
    BY <1>1 DEF PurchaseInv, NeverOverReceived, Received, PostedReceipts
  <2>2. purchases'[u].ordered = purchases[u].ordered
    BY <1>1, <1>2
  <2>3. /\ Received(receipts', u, p) = Received(receipts, u, p) + receipts[r].lines[p]
        /\ Received(receipts, u, p) \in Nat /\ receipts[r].lines[p] \in Nat
    BY <1>4, <1>5
  <2> QED BY <2>1, <2>2, <2>3
<1>8. purchases'[u].status =
          IF \A p \in Products : Received(receipts', u, p) = purchases[u].ordered[p]
          THEN "RECEIVED" ELSE "PARTIALLY_RECEIVED"
  <2>1. purchases'[u].status = "RECEIVED" <=>
            \A p \in Products : Received(receipts', u, p) = purchases'[u].ordered[p]
    BY <1>1, <1>6 DEF PurchaseInv, StatusTellsReceiving, Received, PostedReceipts
  <2>2. /\ purchases'[u].ordered = purchases[u].ordered
        /\ purchases'[u].status \in {"PARTIALLY_RECEIVED", "RECEIVED"}
    BY <1>1, <1>2
  <2> QED BY <2>1, <2>2
<1>9. /\ OrderStatuses' = [OrderStatuses EXCEPT ![u] = OrderStatus(purchases'[u].status)]
      /\ ReceivedUnits' = [ReceivedUnits EXCEPT ![u] = ReceivedUnits'[u]]
      /\ ReceivedUnits'[u] \in [Products -> Nat]
  <2>1. \A v \in Purchases, p \in Products : Returned(returns', v, p) = Returned(returns, v, p)
    BY <1>1 DEF Returned, PostedReturns
  <2>2. \A v \in Purchases \ {u} :
            /\ purchases'[v] = purchases[v]
            /\ \A p \in Products :
                   /\ Received(receipts', v, p) = Received(receipts, v, p)
                   /\ Returned(returns', v, p) = Returned(returns, v, p)
    BY <1>2, <1>5, <2>1
  <2> QED BY <1>1, <1>3, <2>2, RowsFollow
<1>10. UNCHANGED <<OrderedUnits, ReturnedUnits>>
  BY <1>1, <1>2 DEF OrderedUnits, ReturnedUnits, Returned, PostedReturns
<1>11. /\ OrderStatuses[u] \in {"CONFIRMED", "PARTLY_DELIVERED"}
       /\ \A p \in Products : /\ ReceivedUnits[u][p] <= ReceivedUnits'[u][p]
                              /\ ReceivedUnits'[u][p] <= OrderedUnits[u][p]
       /\ OrderStatus(purchases'[u].status) =
              IF \A p \in Products : ReceivedUnits'[u][p] = OrderedUnits[u][p]
              THEN "DELIVERED" ELSE "PARTLY_DELIVERED"
  <2>1. OrderStatuses[u] = OrderStatus(purchases[u].status)
    BY <1>1, UnitsAt
  <2>2. OrderedUnits[u] = purchases[u].ordered
    BY <1>1, UnitsAt
  <2>3. \A p \in Products : /\ ReceivedUnits[u][p] = Received(receipts, u, p)
                            /\ ReceivedUnits'[u][p] = Received(receipts', u, p)
    BY <1>1, UnitsAt
  <2>4. OrderStatuses[u] \in {"CONFIRMED", "PARTLY_DELIVERED"}
    BY <1>1, <2>1 DEF OrderStatus
  <2>5. /\ OrderStatus("RECEIVED") = "DELIVERED"
        /\ OrderStatus("PARTIALLY_RECEIVED") = "PARTLY_DELIVERED"
    BY DEF OrderStatus
  <2> QED BY <1>7, <1>8, <2>2, <2>3, <2>4, <2>5
<1>12. PurchaseOrders!Deliver(u)
  BY <1>9, <1>10, <1>11
     DEF PurchaseOrders!Deliver, PurchaseOrders!Becomes, PurchaseOrders!Rewrites
<1> QED BY <1>12

\* Posting a return gives back.
LEMMA ReturnGivesBack ==
    ASSUME PurchaseInv, PurchaseInv', NEW t \in Returns, PostReturn(t),
           NEW u \in Purchases, u = returns[t].purchase
    PROVE  PurchaseOrders!GiveBack(u)
<1>1. /\ returns[t].status = "DRAFT" /\ u \in Purchases
      /\ returns' = [returns EXCEPT ![t].status = "POSTED"]
      /\ purchases' = purchases /\ receipts' = receipts
      /\ purchases[u].status \in {"PARTIALLY_RECEIVED", "RECEIVED"}
  BY DEF PostReturn, HasReceiving, PurchaseInv, PurchaseDocumentsFit
<1>2. /\ returns'[t].status = "POSTED" /\ returns'[t].purchase = u
      /\ returns'[t].lines = returns[t].lines
      /\ \A q \in Returns \ {t} : returns'[q] = returns[q]
  BY <1>1 DEF PurchaseInv, PurchaseTypes
<1>3. PurchaseTypes /\ PurchaseTypes'
  BY DEF PurchaseInv
<1>4. /\ \A q \in Returns, p \in Products : OverLocations(returns[q].lines, p) \in Nat
      /\ \A v : \A p \in Products : Returned(returns, v, p) \in Nat
  BY <1>3, PurchaseNumbers
<1>5. ASSUME NEW p \in Products
      PROVE  /\ Returned(returns', u, p) =
                    Returned(returns, u, p) + OverLocations(returns[t].lines, p)
             /\ \A v : v # u => Returned(returns', v, p) = Returned(returns, v, p)
  <2>1. /\ \A q \in Returns : OverLocations(returns[q].lines, p) \in Nat
        /\ returns[t].status # "POSTED"
        /\ returns'[t].purchase = returns[t].purchase
    BY <1>1, <1>2, <1>4
  <2> QED BY <1>2, <2>1, PostingReturns
<1>6. \A p \in Products : /\ Returned(returns, u, p) <= Returned(returns', u, p)
                          /\ Returned(returns', u, p) <= Received(receipts, u, p)
  <2> TAKE p \in Products
  <2>1. Returned(returns', u, p) <= Received(receipts', u, p)
    BY <1>1 DEF PurchaseInv, NeverOverReturned, Returned, PostedReturns, Received, PostedReceipts
  <2>2. receipts' = receipts
    BY <1>1
  <2>3. /\ Returned(returns', u, p) =
               Returned(returns, u, p) + OverLocations(returns[t].lines, p)
        /\ Returned(returns, u, p) \in Nat /\ OverLocations(returns[t].lines, p) \in Nat
    BY <1>4, <1>5
  <2> QED BY <2>1, <2>2, <2>3
<1>7. /\ ReturnedUnits' = [ReturnedUnits EXCEPT ![u] = ReturnedUnits'[u]]
      /\ ReturnedUnits'[u] \in [Products -> Nat]
  BY <1>1, <1>3, <1>5, RowsFollow
<1>8. UNCHANGED <<OrderStatuses, OrderedUnits, ReceivedUnits>>
  BY <1>1 DEF OrderStatuses, OrderedUnits, ReceivedUnits, Received, PostedReceipts
<1>9. /\ OrderStatuses[u] \in {"PARTLY_DELIVERED", "DELIVERED"}
      /\ \A p \in Products : /\ ReturnedUnits[u][p] <= ReturnedUnits'[u][p]
                             /\ ReturnedUnits'[u][p] <= ReceivedUnits[u][p]
  <2>1. OrderStatuses[u] \in {"PARTLY_DELIVERED", "DELIVERED"}
    BY <1>1, UnitsAt DEF OrderStatus
  <2> QED BY <1>1, <1>6, <2>1, UnitsAt
<1>10. PurchaseOrders!GiveBack(u)
  BY <1>7, <1>8, <1>9 DEF PurchaseOrders!GiveBack, PurchaseOrders!Rewrites
<1> QED BY <1>10

\* Documents that are drafted, cancelled or paid for change no posted unit.
LEMMA NothingPostedMoves ==
    ASSUME PurchaseInv, PurchaseInv',
           \A r \in Receipts : receipts[r].status = "POSTED" <=> receipts'[r].status = "POSTED",
           \A r \in Receipts : receipts[r].status = "POSTED" => receipts'[r] = receipts[r],
           \A t \in Returns : returns[t].status = "POSTED" <=> returns'[t].status = "POSTED",
           \A t \in Returns : returns[t].status = "POSTED" => returns'[t] = returns[t]
    PROVE  \A u \in Purchases, p \in Products :
               /\ Received(receipts', u, p) = Received(receipts, u, p)
               /\ Returned(returns', u, p) = Returned(returns, u, p)
<1>1. \A u : /\ PostedReceipts(receipts', u) = PostedReceipts(receipts, u)
             /\ PostedReturns(returns', u) = PostedReturns(returns, u)
  BY DEF PostedReceipts, PostedReturns
<1>2. /\ \A r \in Receipts, p \in Products : receipts[r].lines[p] \in Nat
      /\ \A t \in Returns, p \in Products : OverLocations(returns[t].lines, p) \in Nat
  BY PurchaseNumbers DEF PurchaseInv
<1> TAKE u \in Purchases, p \in Products
<1>3. \A r \in PostedReceipts(receipts, u) :
          receipts[r].lines[p] \in Nat /\ receipts'[r].lines[p] = receipts[r].lines[p]
  BY <1>2 DEF PostedReceipts
<1>4. \A t \in PostedReturns(returns, u) :
          OverLocations(returns[t].lines, p) \in Nat /\ returns'[t].lines = returns[t].lines
  BY <1>2 DEF PostedReturns
<1>5. Received(receipts', u, p) = Received(receipts, u, p)
  BY <1>1, <1>3, ReceivedStays
<1>6. Returned(returns', u, p) = Returned(returns, u, p)
  BY <1>1, <1>4, ReturnedStays
<1> QED BY <1>5, <1>6

\* Every step of purchasing is a step of the orders or leaves them alone.
LEMMA PurchasingStepsOrders ==
    ASSUME PurchaseInv, PurchaseInv', PurchasingDocumentsNext \/ UNCHANGED purchasingOwnVars
    PROVE  [PurchaseOrders!Next]_(PurchaseOrders!orderVars)
<1> DEFINE Step == [PurchaseOrders!Next]_(PurchaseOrders!orderVars)
<1>1. ASSUME purchases' = purchases,
             \A u \in Purchases, p \in Products :
                 /\ Received(receipts', u, p) = Received(receipts, u, p)
                 /\ Returned(returns', u, p) = Returned(returns, u, p)
      PROVE  Step
  <2>1. UNCHANGED <<OrderStatuses, OrderedUnits>>
    BY <1>1 DEF OrderStatuses, OrderedUnits
  <2>2. UNCHANGED <<ReceivedUnits, ReturnedUnits>>
    BY <1>1 DEF ReceivedUnits, ReturnedUnits, Received, PostedReceipts, Returned, PostedReturns
  <2> QED BY <2>1, <2>2 DEF PurchaseOrders!orderVars
<1>2. ASSUME NEW u \in Purchases,
             \/ PurchaseOrders!Draft(u) \/ PurchaseOrders!Confirm(u) \/ PurchaseOrders!Deliver(u)
             \/ PurchaseOrders!GiveBack(u) \/ PurchaseOrders!Cancel(u)
      PROVE  Step
  BY <1>2 DEF PurchaseOrders!Next
<1> HIDE DEF Step
<1>3. PurchaseTypes /\ PurchaseTypes'
  BY DEF PurchaseInv
<1>4. ASSUME UNCHANGED <<receipts, returns>>
      PROVE  \A u \in Purchases, p \in Products :
                 /\ Received(receipts', u, p) = Received(receipts, u, p)
                 /\ Returned(returns', u, p) = Returned(returns, u, p)
  BY <1>4, NothingPostedMoves
<1>5. ASSUME NEW u \in Purchases, NEW lines \in SomeLines(Products),
             CreatePurchase(u, lines) \/ UpdatePurchase(u, lines)
      PROVE  Step
  <2>1. /\ purchases[u].status \in {"NONE", "DRAFT"} /\ purchases'[u].status = "DRAFT"
        /\ \A v \in Purchases : v # u => purchases'[v] = purchases[v]
        /\ UNCHANGED <<receipts, returns>>
    BY <1>3, <1>5 DEF CreatePurchase, UpdatePurchase, PurchaseTypes
  <2> QED BY <1>2, <1>3, <1>4, <2>1, OrderMoves
<1>6. ASSUME NEW u \in Purchases, ConfirmPurchase(u) PROVE Step
  <2>1. /\ purchases[u].status = "DRAFT" /\ purchases'[u].status = "CONFIRMED"
        /\ purchases'[u].ordered = purchases[u].ordered
        /\ \A v \in Purchases : v # u => purchases'[v] = purchases[v]
        /\ UNCHANGED <<receipts, returns>>
    BY <1>3, <1>6 DEF ConfirmPurchase, PurchaseTypes
  <2> QED BY <1>2, <1>3, <1>4, <2>1, OrderMoves
<1>7. ASSUME NEW u \in Purchases, CancelPurchase(u) PROVE Step
  <2>1. /\ purchases[u].status \in {"DRAFT", "CONFIRMED"}
        /\ purchases'[u].status = "CANCELLED"
        /\ purchases'[u].ordered = purchases[u].ordered
        /\ \A v \in Purchases : v # u => purchases'[v] = purchases[v]
        /\ PostedReceipts(receipts, u) = {} /\ returns' = returns
    BY <1>3, <1>7 DEF CancelPurchase, PurchaseTypes
  <2>2. \A r \in Receipts :
            \/ receipts'[r] = receipts[r]
            \/ receipts[r].status = "DRAFT" /\ receipts'[r].status = "CANCELLED"
    BY <1>3, <1>7 DEF CancelPurchase, PurchaseTypes
  <2>3. \A v \in Purchases, p \in Products :
            /\ Received(receipts', v, p) = Received(receipts, v, p)
            /\ Returned(returns', v, p) = Returned(returns, v, p)
    BY <2>1, <2>2, NothingPostedMoves
  <2>4. \A p \in Products : Received(receipts, u, p) = 0
    BY <2>1, NothingPosted
  <2> QED BY <1>2, <1>3, <2>1, <2>3, <2>4, OrderMoves
<1>8. ASSUME NEW u \in Purchases, NEW r \in Receipts, NEW l \in Locations,
             NEW lines \in SomeLines(Products), CreateReceipt(r, u, l, lines)
      PROVE  Step
  <2>1. /\ receipts[r].status = "NONE" /\ receipts'[r].status = "DRAFT"
        /\ \A q \in Receipts \ {r} : receipts'[q] = receipts[q]
        /\ UNCHANGED <<purchases, returns>>
    BY <1>3, <1>8 DEF CreateReceipt, PurchaseTypes
  <2> QED BY <1>1, <2>1, NothingPostedMoves
<1>9. ASSUME NEW u \in Purchases, NEW t \in Returns, NEW lines \in SomeLines(Cells),
             CreateReturn(t, u, lines)
      PROVE  Step
  <2>1. /\ returns[t].status = "NONE" /\ returns'[t].status = "DRAFT"
        /\ \A q \in Returns \ {t} : returns'[q] = returns[q]
        /\ UNCHANGED <<purchases, receipts>>
    BY <1>3, <1>9 DEF CreateReturn, PurchaseTypes
  <2> QED BY <1>1, <2>1, NothingPostedMoves
<1>10. ASSUME NEW r \in Receipts, PostReceipt(r) PROVE Step
  <2>1. PICK u \in Purchases : u = receipts[r].purchase
    BY <1>10 DEF PostReceipt, PurchaseInv, PurchaseDocumentsFit
  <2>2. PurchaseOrders!Deliver(u)
    BY <1>10, <2>1, ReceiptDelivers
  <2> QED BY <1>2, <2>2
<1>11. ASSUME NEW t \in Returns, PostReturn(t) PROVE Step
  <2>1. PICK u \in Purchases : u = returns[t].purchase
    BY <1>11 DEF PostReturn, PurchaseInv, PurchaseDocumentsFit
  <2>2. PurchaseOrders!GiveBack(u)
    BY <1>11, <2>1, ReturnGivesBack
  <2> QED BY <1>2, <2>2
<1>12. ASSUME \/ \E u \in Purchases : PaySupplier(u) \/ ReverseSupplierPayment(u)
              \/ SetSupplierActive
              \/ UNCHANGED purchasingOwnVars
       PROVE  Step
  <2>1. UNCHANGED <<purchases, receipts, returns>>
    BY <1>12 DEF PaySupplier, ReverseSupplierPayment, SetSupplierActive,
       purchasingDocumentVars, purchasingOwnVars
  <2> QED BY <1>1, <1>4, <2>1
<1>13. Step
  BY <1>5, <1>6, <1>7, <1>8, <1>9, <1>10, <1>11, <1>12 DEF PurchasingDocumentsNext
<1> QED BY <1>13 DEF Step

\* Before the first purchase the abstract orders are at their beginning too.
LEMMA PurchaseOrdersInit == PurchasingDocumentsInit => PurchaseOrders!Init
<1> SUFFICES ASSUME PurchasingDocumentsInit PROVE PurchaseOrders!Init
  OBVIOUS
<1>1. \A u \in Purchases :
          /\ \A p : Received(receipts, u, p) = 0
          /\ \A p : Returned(returns, u, p) = 0
  <2> TAKE u \in Purchases
  <2>1. /\ \A r \in Receipts : receipts[r].purchase # u
        /\ \A t \in Returns : returns[t].purchase # u
    BY PurchasingAssumption DEF PurchasingDocumentsInit
  <2> QED BY <2>1, NothingPosted
<1>2. /\ OrderStatuses = [u \in Purchases |-> "NONE"]
      /\ OrderedUnits = [u \in Purchases |-> [p \in Products |-> 0]]
  BY DEF PurchasingDocumentsInit, OrderStatuses, OrderedUnits, OrderStatus
<1>3. /\ ReceivedUnits = [u \in Purchases |-> [p \in Products |-> 0]]
      /\ ReturnedUnits = [u \in Purchases |-> [p \in Products |-> 0]]
  BY <1>1 DEF ReceivedUnits, ReturnedUnits
<1> QED BY <1>2, <1>3 DEF PurchaseOrders!Init

\* Whatever is drafted, posted, paid and cancelled in whatever order, purchasing
\* does to a purchase only what the abstract order allows.
THEOREM PurchasingKeepsOrders == PurchasingSpec => PurchasesAreOrders
<1>1. PurchasingInit => PurchaseOrders!Init
  BY PurchaseOrdersInit DEF PurchasingInit
<1>2. PurchaseInv /\ PurchaseInv' /\ [PurchasingNext]_purchasingVars
          => [PurchaseOrders!Next]_(PurchaseOrders!orderVars)
  BY PurchasingStepsOrders DEF PurchasingNext, AroundPurchasing, purchasingVars, purchasingOwnVars
<1> QED BY <1>1, <1>2, PurchaseInvariant, PTL
        DEF PurchasingSpec, PurchasesAreOrders, PurchaseOrders!Spec

\* What the tables of the abstract order hold for one sale.
LEMMA SaleUnitsAt ==
    ASSUME NEW s \in SaleIds, NEW c \in Cells
    PROVE  /\ SoldUnits[s][c] = IF sales[s].status = "POSTED" THEN sales[s].items[c] ELSE 0
           /\ SoldUnits'[s][c] = IF sales'[s].status = "POSTED" THEN sales'[s].items[c] ELSE 0
           /\ BroughtBackUnits[s][c] = SaleReturned(s, c)
           /\ BroughtBackUnits'[s][c] = SaleReturned(s, c)'
           /\ ItemUnits[s][c] = sales[s].items[c]
BY DEF SoldUnits, BroughtBackUnits, ItemUnits, SaleReturned, PostedSaleReturns

\* The tables of the abstract order change where the sales and what came back do.
LEMMA SaleRowsFollow ==
    ASSUME SaleTypes, SaleTypes', NEW s \in SaleIds,
           \A v \in SaleIds \ {s} :
               /\ sales'[v] = sales[v]
               /\ \A c \in Cells : SaleReturned(v, c)' = SaleReturned(v, c)
    PROVE  /\ SaleOrderStatuses' = [SaleOrderStatuses EXCEPT ![s] = SaleOrderStatuses'[s]]
           /\ ItemUnits' = [ItemUnits EXCEPT ![s] = ItemUnits'[s]]
           /\ SoldUnits' = [SoldUnits EXCEPT ![s] = SoldUnits'[s]]
           /\ BroughtBackUnits' = [BroughtBackUnits EXCEPT ![s] = BroughtBackUnits'[s]]
<1>1. /\ SaleOrderStatuses = [v \in SaleIds |-> SaleOrderStatuses[v]]
      /\ SaleOrderStatuses' = [v \in SaleIds |-> SaleOrderStatuses'[v]]
      /\ \A v \in SaleIds \ {s} : SaleOrderStatuses'[v] = SaleOrderStatuses[v]
  BY DEF SaleOrderStatuses
<1>2. /\ ItemUnits = [v \in SaleIds |-> ItemUnits[v]]
      /\ ItemUnits' = [v \in SaleIds |-> ItemUnits'[v]]
      /\ \A v \in SaleIds \ {s} : ItemUnits'[v] = ItemUnits[v]
  BY DEF ItemUnits
<1>3. /\ SoldUnits = [v \in SaleIds |-> SoldUnits[v]]
      /\ SoldUnits' = [v \in SaleIds |-> SoldUnits'[v]]
      /\ \A v \in SaleIds \ {s} : SoldUnits'[v] = SoldUnits[v]
  BY DEF SoldUnits
<1>4. /\ BroughtBackUnits = [v \in SaleIds |-> BroughtBackUnits[v]]
      /\ BroughtBackUnits' = [v \in SaleIds |-> BroughtBackUnits'[v]]
      /\ \A v \in SaleIds \ {s} : BroughtBackUnits'[v] = BroughtBackUnits[v]
  BY DEF BroughtBackUnits
<1> QED BY <1>1, <1>2, <1>3, <1>4, OneRowChanges

\* Until it is posted a sale may be rewritten, posted whole, or cancelled.
LEMMA SaleMoves ==
    ASSUME SaleInv, SaleInv', NEW s \in SaleIds,
           \A v \in SaleIds \ {s} : sales'[v] = sales[v],
           saleReturns' = saleReturns,
           \/ /\ sales[s].status \in {"NONE", "DRAFT"}
              /\ sales'[s].status = "DRAFT"
           \/ /\ sales[s].status = "DRAFT"
              /\ sales'[s].status \in {"POSTED", "CANCELLED"}
              /\ sales'[s].items = sales[s].items
    PROVE  SaleOrders!Draft(s) \/ SaleOrders!Deliver(s) \/ SaleOrders!Cancel(s)
<1>1. SaleTypes /\ SaleTypes'
  BY DEF SaleInv
<1>2. \A v \in SaleIds, c \in Cells : SaleReturned(v, c)' = SaleReturned(v, c)
  BY DEF SaleReturned, PostedSaleReturns
<1>3. /\ SaleOrderStatuses' = [SaleOrderStatuses EXCEPT ![s] = SaleOrderStatuses'[s]]
      /\ ItemUnits' = [ItemUnits EXCEPT ![s] = ItemUnits'[s]]
      /\ SoldUnits' = [SoldUnits EXCEPT ![s] = SoldUnits'[s]]
  BY <1>1, <1>2, SaleRowsFollow
<1>4. BroughtBackUnits' = BroughtBackUnits
  BY <1>2 DEF BroughtBackUnits
<1>5. ItemUnits'[s] \in [Cells -> Nat]
  <2>1. ItemUnits'[s] \in [Cells -> {0} \cup Quantities]
    BY <1>1 DEF SaleTypes, ItemUnits
  <2> QED BY <2>1, QuantitiesAreNatural
<1>6. ASSUME sales'[s].items = sales[s].items PROVE ItemUnits' = ItemUnits
  BY <1>6 DEF ItemUnits
<1>7. ASSUME sales[s].status # "POSTED", sales'[s].status # "POSTED"
      PROVE  SoldUnits' = SoldUnits
  BY <1>7 DEF SoldUnits
<1>8. CASE /\ sales[s].status \in {"NONE", "DRAFT"}
           /\ sales'[s].status = "DRAFT"
  <2>1. SaleOrderStatuses[s] \in {"NONE", "DRAFT"} /\ SaleOrderStatuses'[s] = "DRAFT"
    BY <1>8 DEF SaleOrderStatuses
  <2>2. SaleOrders!Draft(s)
    BY <1>3, <1>4, <1>5, <1>7, <1>8, <2>1
       DEF SaleOrders!Draft, SaleOrders!Becomes, SaleOrders!Rewrites
  <2> QED BY <2>2
<1>9. CASE /\ sales[s].status = "DRAFT"
           /\ sales'[s].status = "CANCELLED"
           /\ sales'[s].items = sales[s].items
  <2>1. SaleOrderStatuses[s] = "DRAFT" /\ SaleOrderStatuses'[s] = "CANCELLED"
    BY <1>9 DEF SaleOrderStatuses
  <2>2. \A c \in Cells : SoldUnits[s][c] = 0
    BY <1>9, SaleUnitsAt
  <2>3. SaleOrders!Cancel(s)
    BY <1>3, <1>4, <1>6, <1>7, <1>9, <2>1, <2>2 DEF SaleOrders!Cancel, SaleOrders!Becomes
  <2> QED BY <2>3
<1>10. CASE /\ sales[s].status = "DRAFT"
            /\ sales'[s].status = "POSTED"
            /\ sales'[s].items = sales[s].items
  <2>1. SaleOrderStatuses[s] = "DRAFT" /\ SaleOrderStatuses'[s] = "DELIVERED"
    BY <1>10 DEF SaleOrderStatuses
  <2>2. ASSUME NEW c \in Cells
        PROVE  /\ SoldUnits[s][c] = 0 /\ SoldUnits'[s][c] = ItemUnits[s][c]
               /\ ItemUnits[s][c] \in Nat
    <3>1. sales[s].items[c] \in Nat
      BY <1>1, SaleNumbers
    <3> QED BY <1>10, <3>1, SaleUnitsAt
  <2>3. SoldUnits'[s] \in [Cells -> Nat]
    BY <2>2 DEF SoldUnits
  <2>4. \A c \in Cells : /\ SoldUnits[s][c] <= SoldUnits'[s][c]
                         /\ SoldUnits'[s][c] <= ItemUnits[s][c]
    BY <2>2
  <2>5. SaleOrders!Deliver(s)
    BY <1>3, <1>4, <1>6, <1>10, <2>1, <2>2, <2>3, <2>4
       DEF SaleOrders!Deliver, SaleOrders!Becomes, SaleOrders!Rewrites
  <2> QED BY <2>5
<1> QED BY <1>8, <1>9, <1>10

\* Posting a return brings units of a posted sale back.
LEMMA SaleReturnGivesBack ==
    ASSUME SaleInv, SaleInv', NEW t \in SaleReturnIds, PostSaleReturn(t),
           NEW s \in SaleIds, s = saleReturns[t].sale
    PROVE  SaleOrders!GiveBack(s)
<1>1. /\ saleReturns[t].status = "DRAFT" /\ sales[s].status = "POSTED"
      /\ saleReturns' = [saleReturns EXCEPT ![t].status = "POSTED"]
      /\ sales' = sales
  BY DEF PostSaleReturn, ReturnAllowed
<1>2. SaleTypes /\ SaleTypes'
  BY DEF SaleInv
<1>3. ASSUME NEW v \in SaleIds, NEW c \in Cells
      PROVE  /\ SaleReturned(v, c) \in Nat
             /\ ReturnedTo(saleReturns[t].lines, c) \in Nat
             /\ SaleReturned(v, c)' = SaleReturned(v, c) +
                    IF v = s THEN ReturnedTo(saleReturns[t].lines, c) ELSE 0
  BY <1>1, <1>2, SaleNumbers, PostingBringsBack
<1>4. \A v \in SaleIds \ {s}, c \in Cells : SaleReturned(v, c)' = SaleReturned(v, c)
  BY <1>3
<1>5. BroughtBackUnits' = [BroughtBackUnits EXCEPT ![s] = BroughtBackUnits'[s]]
  BY <1>1, <1>2, <1>4, SaleRowsFollow
<1>6. ASSUME NEW c \in Cells
      PROVE  /\ BroughtBackUnits'[s][c] \in Nat
             /\ BroughtBackUnits[s][c] <= BroughtBackUnits'[s][c]
             /\ BroughtBackUnits'[s][c] <= SoldUnits[s][c]
  <2>1. SaleReturned(s, c)' = SaleReturned(s, c) + ReturnedTo(saleReturns[t].lines, c)
    BY <1>3
  <2>2. SaleReturned(s, c) \in Nat /\ ReturnedTo(saleReturns[t].lines, c) \in Nat
    BY <1>3
  <2>3. SaleReturned(s, c)' <= IF sales'[s].status = "POSTED" THEN sales'[s].items[c] ELSE 0
    BY DEF SaleInv, NeverReturnedBeyondSale
  <2>4. /\ SoldUnits[s][c] = sales[s].items[c]
        /\ BroughtBackUnits[s][c] = SaleReturned(s, c)
        /\ BroughtBackUnits'[s][c] = SaleReturned(s, c)'
    BY <1>1, SaleUnitsAt
  <2>5. SaleReturned(s, c)' <= sales[s].items[c]
    BY <1>1, <2>3
  <2> QED BY <2>1, <2>2, <2>4, <2>5
<1>7. BroughtBackUnits'[s] \in [Cells -> Nat]
  BY <1>6 DEF BroughtBackUnits
<1>8. UNCHANGED <<SaleOrderStatuses, ItemUnits, SoldUnits>>
  BY <1>1 DEF SaleOrderStatuses, ItemUnits, SoldUnits
<1>9. SaleOrderStatuses[s] = "DELIVERED"
  BY <1>1 DEF SaleOrderStatuses
<1>10. SaleOrders!GiveBack(s)
  BY <1>5, <1>6, <1>7, <1>8, <1>9 DEF SaleOrders!GiveBack, SaleOrders!Rewrites
<1> QED BY <1>10

\* Every step of sales is a step of the orders or leaves them alone.
LEMMA SalesStepsOrders ==
    ASSUME SaleInv, SaleInv', SalesDocumentsNext \/ UNCHANGED salesOwnVars
    PROVE  [SaleOrders!Next]_(SaleOrders!orderVars)
<1> DEFINE Step == [SaleOrders!Next]_(SaleOrders!orderVars)
<1>1. ASSUME sales' = sales,
             \A s \in SaleIds, c \in Cells : SaleReturned(s, c)' = SaleReturned(s, c)
      PROVE  Step
  <2>1. UNCHANGED <<SaleOrderStatuses, ItemUnits, SoldUnits>>
    BY <1>1 DEF SaleOrderStatuses, ItemUnits, SoldUnits
  <2>2. BroughtBackUnits' = BroughtBackUnits
    BY <1>1 DEF BroughtBackUnits
  <2> QED BY <2>1, <2>2 DEF SaleOrders!orderVars
<1>2. ASSUME NEW s \in SaleIds,
             \/ SaleOrders!Draft(s) \/ SaleOrders!Deliver(s)
             \/ SaleOrders!GiveBack(s) \/ SaleOrders!Cancel(s)
      PROVE  Step
  BY <1>2 DEF SaleOrders!Next
<1> HIDE DEF Step
<1>3. SaleTypes
  BY DEF SaleInv
<1>4. ASSUME NEW s \in SaleIds,
             \/ \E items \in ItemsOver(Cells), walkIn \in BOOLEAN :
                    CreateSale(s, items, walkIn) \/ UpdateSale(s, items, walkIn)
             \/ PostSale(s) \/ CancelSale(s)
      PROVE  Step
  <2> DEFINE Drafted == /\ sales[s].status \in {"NONE", "DRAFT"}
                        /\ sales'[s].status = "DRAFT"
             Closed == /\ sales[s].status = "DRAFT"
                       /\ sales'[s].status \in {"POSTED", "CANCELLED"}
                       /\ sales'[s].items = sales[s].items
             Alone == /\ \A v \in SaleIds \ {s} : sales'[v] = sales[v]
                      /\ saleReturns' = saleReturns
  <2>1. ASSUME NEW items, NEW walkIn, CreateSale(s, items, walkIn)
        PROVE  Drafted /\ Alone
    BY <1>3, <2>1 DEF CreateSale, SaleTypes
  <2>2. ASSUME NEW items, NEW walkIn, UpdateSale(s, items, walkIn)
        PROVE  Drafted /\ Alone
    BY <1>3, <2>2 DEF UpdateSale, SaleTypes
  <2>3. ASSUME PostSale(s) PROVE Closed /\ Alone
    BY <1>3, <2>3 DEF PostSale, SaleTypes
  <2>4. ASSUME CancelSale(s) PROVE Closed /\ Alone
    BY <1>3, <2>4 DEF CancelSale, SaleTypes
  <2>5. (Drafted \/ Closed) /\ Alone
    <3> HIDE DEF Drafted, Closed, Alone
    <3> QED BY <1>4, <2>1, <2>2, <2>3, <2>4
  <2>6. SaleOrders!Draft(s) \/ SaleOrders!Deliver(s) \/ SaleOrders!Cancel(s)
    BY <2>5, SaleMoves
  <2> QED BY <1>2, <2>6
<1>5. ASSUME NEW t \in SaleReturnIds, NEW s \in SaleIds, NEW lines \in ItemsOver(ReturnLines),
             CreateSaleReturn(t, s, lines)
      PROVE  Step
  <2>1. /\ saleReturns[t].status = "NONE" /\ saleReturns'[t].status = "DRAFT"
        /\ \A q \in SaleReturnIds \ {t} : saleReturns'[q] = saleReturns[q]
        /\ sales' = sales
    BY <1>3, <1>5 DEF CreateSaleReturn, SaleTypes
  <2>2. ASSUME NEW v \in SaleIds, NEW c \in Cells
        PROVE  SaleReturned(v, c)' = SaleReturned(v, c)
    <3>1. PostedSaleReturns(v)' = PostedSaleReturns(v)
      BY <2>1 DEF PostedSaleReturns
    <3>2. \A q \in PostedSaleReturns(v) : saleReturns'[q].lines = saleReturns[q].lines
      BY <2>1 DEF PostedSaleReturns
    <3> QED BY <1>3, <3>1, <3>2, SaleReturnedStays
  <2> QED BY <1>1, <2>1, <2>2
<1>6. ASSUME NEW t \in SaleReturnIds, PostSaleReturn(t) PROVE Step
  <2>1. PICK s \in SaleIds : s = saleReturns[t].sale
    BY <1>6 DEF PostSaleReturn, SaleInv, SaleDocumentsFit
  <2>2. SaleOrders!GiveBack(s)
    BY <1>6, <2>1, SaleReturnGivesBack
  <2> QED BY <1>2, <2>2
<1>7. ASSUME SetCustomerActive \/ UNCHANGED salesOwnVars PROVE Step
  <2>1. UNCHANGED <<sales, saleReturns>>
    BY <1>7 DEF SetCustomerActive, salesOwnVars
  <2>2. \A s \in SaleIds, c \in Cells : SaleReturned(s, c)' = SaleReturned(s, c)
    BY <2>1 DEF SaleReturned, PostedSaleReturns
  <2> QED BY <1>1, <2>1, <2>2
<1>8. Step
  BY <1>4, <1>5, <1>6, <1>7 DEF SalesDocumentsNext
<1> QED BY <1>8 DEF Step

\* Before the first sale the abstract orders are at their beginning too.
LEMMA SaleOrdersInit == SalesDocumentsInit => SaleOrders!Init
<1> SUFFICES ASSUME SalesDocumentsInit PROVE SaleOrders!Init
  OBVIOUS
<1>1. \A s \in SaleIds : PostedSaleReturns(s) = {}
  BY DEF SalesDocumentsInit, PostedSaleReturns
<1>2. \A s \in SaleIds, c \in Cells : SaleReturned(s, c) = 0
  BY <1>1, SumEmpty DEF SaleReturned
<1>3. /\ SaleOrderStatuses = [s \in SaleIds |-> "NONE"]
      /\ ItemUnits = [s \in SaleIds |-> [c \in Cells |-> 0]]
      /\ SoldUnits = [s \in SaleIds |-> [c \in Cells |-> 0]]
  BY DEF SalesDocumentsInit, SaleOrderStatuses, ItemUnits, SoldUnits
<1>4. BroughtBackUnits = [s \in SaleIds |-> [c \in Cells |-> 0]]
  BY <1>2 DEF BroughtBackUnits
<1> QED BY <1>3, <1>4 DEF SaleOrders!Init

\* A sale goes through what the abstract order allows and nothing else: posted
\* whole or not at all, then only given back.
THEOREM SalesKeepOrders == SalesSpec => SalesAreOrders
<1>1. SalesInit => SaleOrders!Init
  BY SaleOrdersInit DEF SalesInit
<1>2. SaleInv /\ SaleInv' /\ [SalesNext]_salesVars
          => [SaleOrders!Next]_(SaleOrders!orderVars)
  BY SalesStepsOrders DEF SalesNext, AroundSales, salesVars, salesOwnVars
<1> QED BY <1>1, <1>2, SaleInvariant, PTL DEF SalesSpec, SalesAreOrders, SaleOrders!Spec

\* Over one ledger, at any interleaving, purchases and sales are still orders: no
\* step of one side disturbs an order of the other.
THEOREM WarehouseKeepsOrders == WarehouseSpec => PurchasesAreOrders /\ SalesAreOrders
<1>1. WarehouseInit => PurchaseOrders!Init /\ SaleOrders!Init
  BY PurchaseOrdersInit, SaleOrdersInit DEF WarehouseInit
<1>2. ASSUME WarehouseInv, WarehouseInv', [WarehouseNext]_warehouseVars
      PROVE  /\ [PurchaseOrders!Next]_(PurchaseOrders!orderVars)
             /\ [SaleOrders!Next]_(SaleOrders!orderVars)
  <2>1. PurchasingDocumentsNext \/ UNCHANGED purchasingOwnVars
    BY <1>2 DEF WarehouseNext, warehouseVars, purchasingOwnVars
  <2>2. SalesDocumentsNext \/ UNCHANGED salesOwnVars
    BY <1>2 DEF WarehouseNext, warehouseVars, salesOwnVars
  <2>3. PurchaseInv /\ PurchaseInv' /\ SaleInv /\ SaleInv'
    BY <1>2 DEF WarehouseInv
  <2> QED BY <2>1, <2>2, <2>3, PurchasingStepsOrders, SalesStepsOrders
<1> QED BY <1>1, <1>2, WarehouseInvariant, PTL
        DEF WarehouseSpec, PurchasesAreOrders, PurchaseOrders!Spec,
            SalesAreOrders, SaleOrders!Spec

-----------------------------------------------------------------------------
(* What stock promises money *)

\* When one purchase moves, and no return, only its status changes in the contract.
LEMMA OnePurchaseMoves ==
    ASSUME UNCHANGED <<salesOwnVars, returns, paid>>, NEW u \in Purchases,
           \A v \in Purchases \ {u} : purchases'[v] = purchases[v]
    PROVE  /\ UNCHANGED <<SoldIds, BroughtBackIds, SentBackIds, SaleOfReturn,
                          PurchaseOfReturn, paid>>
           /\ StatusesForMoney[u] = StatusForMoney(purchases[u].status)
           /\ StatusesForMoney' =
                  [StatusesForMoney EXCEPT ![u] = StatusForMoney(purchases'[u].status)]
           /\ StatusForMoney(purchases'[u].status) = StatusForMoney(purchases[u].status) =>
                  StatusesForMoney' = StatusesForMoney
<1>1. UNCHANGED <<SoldIds, BroughtBackIds, SentBackIds, SaleOfReturn, PurchaseOfReturn, paid>>
  BY DEF salesOwnVars, SoldIds, BroughtBackIds, SentBackIds, SaleOfReturn, PurchaseOfReturn
<1>2. /\ StatusesForMoney = [v \in Purchases |-> StatusesForMoney[v]]
      /\ StatusesForMoney' = [v \in Purchases |-> StatusesForMoney'[v]]
      /\ \A v \in Purchases \ {u} : StatusesForMoney'[v] = StatusesForMoney[v]
      /\ StatusesForMoney[u] = StatusForMoney(purchases[u].status)
      /\ StatusesForMoney'[u] = StatusForMoney(purchases'[u].status)
  BY DEF StatusesForMoney, StatusForMoney
<1>3. StatusesForMoney' = [StatusesForMoney EXCEPT ![u] = StatusesForMoney'[u]]
  BY <1>2, OneRowChanges
<1>4. StatusesForMoney'[u] = StatusesForMoney[u] => StatusesForMoney' = StatusesForMoney
  BY <1>2, <1>3
<1> QED BY <1>1, <1>2, <1>3, <1>4

\* A step of purchasing is one of the contract or leaves it alone.
LEMMA PurchasingStepsFlow ==
    ASSUME PurchaseInv, PurchaseInv', PurchasingDocumentsNext, UNCHANGED salesOwnVars
    PROVE  [WarehouseFlow!Next]_(WarehouseFlow!flowVars)
<1> DEFINE Step == [WarehouseFlow!Next]_(WarehouseFlow!flowVars)
<1>0. WarehouseFlow!Next => Step
  OBVIOUS
<1>1. ASSUME UNCHANGED <<SoldIds, BroughtBackIds, SentBackIds, StatusesForMoney,
                         SaleOfReturn, PurchaseOfReturn, paid>>
      PROVE  Step
  BY <1>1 DEF WarehouseFlow!flowVars
<1> HIDE DEF Step
<1>2. PurchaseTypes /\ PurchaseTypes' /\ PurchaseDocumentsFit
  BY DEF PurchaseInv
<1>3. /\ UNCHANGED <<SoldIds, BroughtBackIds, SaleOfReturn>>
      /\ purchases' = purchases => StatusesForMoney' = StatusesForMoney
      /\ returns' = returns => UNCHANGED <<SentBackIds, PurchaseOfReturn>>
  BY DEF salesOwnVars, SoldIds, BroughtBackIds, SaleOfReturn, StatusesForMoney,
         StatusForMoney, SentBackIds, PurchaseOfReturn
<1>4. \A u \in Purchases :
          /\ StatusesForMoney[u] = StatusForMoney(purchases[u].status)
          /\ purchases[u].status = "CONFIRMED" => StatusesForMoney[u] = "CONFIRMED"
          /\ purchases[u].status \in {"PARTIALLY_RECEIVED", "RECEIVED"} =>
                 StatusesForMoney[u] = "RECEIVING"
          /\ purchases[u].status \in {"NONE", "DRAFT"} => StatusesForMoney[u] = "DRAFT"
  BY DEF StatusesForMoney, StatusForMoney
<1>5. /\ StatusForMoney("NONE") = "DRAFT" /\ StatusForMoney("DRAFT") = "DRAFT"
      /\ StatusForMoney("CONFIRMED") = "CONFIRMED"
      /\ StatusForMoney("PARTIALLY_RECEIVED") = "RECEIVING"
      /\ StatusForMoney("RECEIVED") = "RECEIVING"
      /\ StatusForMoney("CANCELLED") = "CANCELLED"
  BY DEF StatusForMoney
<1>6. ASSUME NEW u \in Purchases, NEW lines, CreatePurchase(u, lines) \/ UpdatePurchase(u, lines)
      PROVE  Step
  <2>1. /\ purchases[u].status \in {"NONE", "DRAFT"} /\ purchases'[u].status = "DRAFT"
        /\ \A v \in Purchases \ {u} : purchases'[v] = purchases[v]
        /\ UNCHANGED <<returns, paid>>
    BY <1>2, <1>6 DEF CreatePurchase, UpdatePurchase, PurchaseTypes
  <2> QED BY <1>1, <1>5, <2>1, OnePurchaseMoves
<1>7. ASSUME NEW u \in Purchases, ConfirmPurchase(u) PROVE Step
  <2>1. /\ purchases[u].status = "DRAFT" /\ purchases'[u].status = "CONFIRMED"
        /\ \A v \in Purchases \ {u} : purchases'[v] = purchases[v]
        /\ UNCHANGED <<returns, paid>>
    BY <1>2, <1>7 DEF ConfirmPurchase, PurchaseTypes
  <2>2. WarehouseFlow!Becomes(u, "CONFIRMED")
    BY <1>5, <2>1, OnePurchaseMoves DEF WarehouseFlow!Becomes
  <2>3. WarehouseFlow!Confirm(u)
    BY <1>4, <2>1, <2>2 DEF WarehouseFlow!Confirm
  <2> QED BY <1>0, <2>3 DEF WarehouseFlow!Next
<1>8. ASSUME NEW u \in Purchases, CancelPurchase(u) PROVE Step
  <2>1. /\ purchases[u].status \in {"DRAFT", "CONFIRMED"}
        /\ purchases'[u].status = "CANCELLED" /\ u \notin paid
        /\ \A v \in Purchases \ {u} : purchases'[v] = purchases[v]
        /\ UNCHANGED <<returns, paid>>
    BY <1>2, <1>8 DEF CancelPurchase, PurchaseTypes
  <2>2. WarehouseFlow!Becomes(u, "CANCELLED")
    BY <1>5, <2>1, OnePurchaseMoves DEF WarehouseFlow!Becomes
  <2>3. WarehouseFlow!Cancel(u)
    BY <1>4, <2>1, <2>2 DEF WarehouseFlow!Cancel
  <2> QED BY <1>0, <2>3 DEF WarehouseFlow!Next
<1>9. ASSUME NEW r \in Receipts, PostReceipt(r) PROVE Step
  <2>1. PICK u \in Purchases : u = receipts[r].purchase
    BY <1>2, <1>9 DEF PostReceipt, PurchaseDocumentsFit
  <2>2. /\ purchases[u].status \in {"CONFIRMED", "PARTIALLY_RECEIVED"}
        /\ purchases'[u].status \in {"PARTIALLY_RECEIVED", "RECEIVED"}
        /\ \A v \in Purchases \ {u} : purchases'[v] = purchases[v]
        /\ UNCHANGED <<returns, paid>>
    <3>1. /\ purchases[u].status \in {"CONFIRMED", "PARTIALLY_RECEIVED"}
          /\ \E docs : purchases' = [purchases EXCEPT ![u].status = StatusAfter(docs, u)]
          /\ UNCHANGED <<returns, paid>>
      BY <1>9, <2>1 DEF PostReceipt, OpenForReceiving
    <3>2. \A docs : StatusAfter(docs, u) \in {"PARTIALLY_RECEIVED", "RECEIVED"}
      BY DEF StatusAfter
    <3>3. purchases \in [Purchases -> [status: PurchaseStatus, ordered: Lines(Products)]]
      BY <1>2 DEF PurchaseTypes
    <3> QED BY <3>1, <3>2, <3>3
  <2>3. CASE purchases[u].status = "CONFIRMED"
    <3>1. WarehouseFlow!Becomes(u, "RECEIVING")
      BY <1>5, <2>2, OnePurchaseMoves DEF WarehouseFlow!Becomes
    <3>2. WarehouseFlow!Receive(u)
      BY <1>4, <2>3, <3>1 DEF WarehouseFlow!Receive
    <3> QED BY <1>0, <3>2 DEF WarehouseFlow!Next
  <2>4. CASE purchases[u].status = "PARTIALLY_RECEIVED"
    BY <1>1, <1>5, <2>2, <2>4, OnePurchaseMoves
  <2> QED BY <2>2, <2>3, <2>4
<1>10. ASSUME NEW u \in Purchases, NEW r, NEW l, NEW lines, CreateReceipt(r, u, l, lines)
       PROVE  Step
  <2>1. UNCHANGED <<purchases, returns, paid>>
    BY <1>10 DEF CreateReceipt
  <2> QED BY <1>1, <1>3, <2>1
<1>11. ASSUME NEW u \in Purchases, NEW t \in Returns, NEW lines, CreateReturn(t, u, lines)
       PROVE  Step
  <2>1. /\ returns[t].status = "NONE" /\ returns'[t].status = "DRAFT"
        /\ returns[t].purchase = NoPurchase /\ returns'[t].purchase = u
        /\ \A q \in Returns \ {t} : returns'[q] = returns[q]
        /\ purchases[u].status \in {"PARTIALLY_RECEIVED", "RECEIVED"}
        /\ UNCHANGED <<purchases, paid>>
    BY <1>2, <1>11 DEF CreateReturn, HasReceiving, PurchaseTypes, PurchaseDocumentsFit
  <2>2. SentBackIds' = SentBackIds
    BY <2>1 DEF SentBackIds
  <2>3. PurchaseOfReturn' = [PurchaseOfReturn EXCEPT ![t] = u]
    BY <2>1 DEF PurchaseOfReturn
  <2>4. PurchaseOfReturn[t] = NoPurchase /\ StatusesForMoney[u] = "RECEIVING"
    BY <1>4, <2>1 DEF PurchaseOfReturn
  <2>5. WarehouseFlow!NamePurchase(t, u)
    BY <1>3, <2>1, <2>2, <2>3, <2>4 DEF WarehouseFlow!NamePurchase
  <2> QED BY <1>0, <2>5 DEF WarehouseFlow!Next
<1>12. ASSUME NEW t \in Returns, PostReturn(t) PROVE Step
  <2>1. PICK u \in Purchases : u = returns[t].purchase
    BY <1>2, <1>12 DEF PostReturn, PurchaseDocumentsFit
  <2>2. /\ returns'[t].status = "POSTED" /\ returns'[t].purchase = returns[t].purchase
        /\ \A q \in Returns \ {t} : returns'[q] = returns[q]
        /\ purchases[u].status \in {"PARTIALLY_RECEIVED", "RECEIVED"}
        /\ UNCHANGED <<purchases, paid>>
    BY <1>2, <1>12, <2>1 DEF PostReturn, HasReceiving, PurchaseTypes
  <2>3. SentBackIds' = SentBackIds \cup {t}
    BY <2>2 DEF SentBackIds
  <2>4. PurchaseOfReturn' = PurchaseOfReturn
    BY <2>2 DEF PurchaseOfReturn
  <2>5. PurchaseOfReturn[t] = u /\ StatusesForMoney[u] = "RECEIVING"
    BY <1>4, <2>1, <2>2 DEF PurchaseOfReturn
  <2>6. WarehouseFlow!PostPurchaseReturn(t)
    BY <1>3, <2>2, <2>3, <2>4, <2>5 DEF WarehouseFlow!PostPurchaseReturn
  <2> QED BY <1>0, <2>6 DEF WarehouseFlow!Next
<1>13. ASSUME NEW u \in Purchases, PaySupplier(u) PROVE Step
  <2>1. /\ purchases[u].status \in {"CONFIRMED", "PARTIALLY_RECEIVED", "RECEIVED"}
        /\ paid' = paid \cup {u} /\ UNCHANGED <<purchases, returns>>
    BY <1>13 DEF PaySupplier, purchasingDocumentVars
  <2>2. WarehouseFlow!Pay(u)
    BY <1>3, <1>4, <2>1 DEF WarehouseFlow!Pay
  <2> QED BY <1>0, <2>2 DEF WarehouseFlow!Next
<1>14. ASSUME NEW u \in Purchases, ReverseSupplierPayment(u) PROVE Step
  <2>1. paid' = paid \ {u} /\ UNCHANGED <<purchases, returns>>
    BY <1>14 DEF ReverseSupplierPayment, purchasingDocumentVars
  <2>2. WarehouseFlow!Unpay(u)
    BY <1>3, <2>1 DEF WarehouseFlow!Unpay
  <2> QED BY <1>0, <2>2 DEF WarehouseFlow!Next
<1>15. ASSUME SetSupplierActive PROVE Step
  <2>1. UNCHANGED <<purchases, returns, paid>>
    BY <1>15 DEF SetSupplierActive, purchasingDocumentVars
  <2> QED BY <1>1, <1>3, <2>1
<1>16. Step
  BY <1>6, <1>7, <1>8, <1>9, <1>10, <1>11, <1>12, <1>13, <1>14, <1>15
     DEF PurchasingDocumentsNext
<1> QED BY <1>16 DEF Step

\* A step of sales is one of the contract or leaves it alone.
LEMMA SalesStepsFlow ==
    ASSUME SaleInv, SaleInv', SalesDocumentsNext, UNCHANGED purchasingOwnVars
    PROVE  [WarehouseFlow!Next]_(WarehouseFlow!flowVars)
<1> DEFINE Step == [WarehouseFlow!Next]_(WarehouseFlow!flowVars)
<1>0. WarehouseFlow!Next => Step
  OBVIOUS
<1>1. ASSUME UNCHANGED <<SoldIds, BroughtBackIds, SaleOfReturn>> PROVE Step
  BY <1>1 DEF WarehouseFlow!flowVars, purchasingOwnVars, SentBackIds, StatusesForMoney,
              StatusForMoney, PurchaseOfReturn
<1> HIDE DEF Step
<1>2. SaleTypes /\ SaleTypes' /\ SaleDocumentsFit /\ SaleDocumentsFit'
  BY DEF SaleInv
<1>3. /\ UNCHANGED <<SentBackIds, StatusesForMoney, PurchaseOfReturn, paid>>
      /\ sales' = sales => SoldIds' = SoldIds
      /\ saleReturns' = saleReturns => UNCHANGED <<BroughtBackIds, SaleOfReturn>>
  BY DEF purchasingOwnVars, SentBackIds, StatusesForMoney, StatusForMoney,
         PurchaseOfReturn, SoldIds, BroughtBackIds, SaleOfReturn
<1>4. ASSUME NEW s \in SaleIds, NEW items, NEW walkIn,
             CreateSale(s, items, walkIn) \/ UpdateSale(s, items, walkIn)
      PROVE  Step
  <2>1. /\ sales[s].status # "POSTED" /\ sales'[s].status # "POSTED"
        /\ \A v \in SaleIds \ {s} : sales'[v] = sales[v]
        /\ saleReturns' = saleReturns
    BY <1>2, <1>4 DEF CreateSale, UpdateSale, SaleTypes
  <2>2. SoldIds' = SoldIds
    BY <2>1 DEF SoldIds
  <2> QED BY <1>1, <1>3, <2>1, <2>2
<1>5. ASSUME NEW s \in SaleIds, CancelSale(s) PROVE Step
  <2>1. /\ sales[s].status # "POSTED" /\ sales'[s].status # "POSTED"
        /\ \A v \in SaleIds \ {s} : sales'[v] = sales[v]
        /\ saleReturns' = saleReturns
    BY <1>2, <1>5 DEF CancelSale, SaleTypes
  <2>2. SoldIds' = SoldIds
    BY <2>1 DEF SoldIds
  <2> QED BY <1>1, <1>3, <2>1, <2>2
<1>6. ASSUME NEW s \in SaleIds, PostSale(s) PROVE Step
  <2>1. /\ sales'[s].status = "POSTED"
        /\ \A v \in SaleIds \ {s} : sales'[v] = sales[v]
        /\ saleReturns' = saleReturns
    BY <1>2, <1>6 DEF PostSale, SaleTypes
  <2>2. SoldIds' = SoldIds \cup {s}
    BY <2>1 DEF SoldIds
  <2>3. WarehouseFlow!PostSale(s)
    BY <1>3, <2>1, <2>2 DEF WarehouseFlow!PostSale
  <2> QED BY <1>0, <2>3 DEF WarehouseFlow!Next
<1>7. ASSUME NEW t \in SaleReturnIds, NEW s \in SaleIds, NEW lines,
             CreateSaleReturn(t, s, lines)
      PROVE  Step
  <2>1. /\ saleReturns[t].status = "NONE" /\ saleReturns'[t].status = "DRAFT"
        /\ saleReturns[t].sale = NoSale /\ saleReturns'[t].sale = s
        /\ \A q \in SaleReturnIds \ {t} : saleReturns'[q] = saleReturns[q]
        /\ sales[s].status = "POSTED" /\ sales' = sales
    BY <1>2, <1>7 DEF CreateSaleReturn, ReturnAllowed, SaleTypes, SaleDocumentsFit
  <2>2. BroughtBackIds' = BroughtBackIds
    BY <2>1 DEF BroughtBackIds
  <2>3. SaleOfReturn' = [SaleOfReturn EXCEPT ![t] = s]
    BY <2>1 DEF SaleOfReturn
  <2>4. SaleOfReturn[t] = NoSale /\ s \in SoldIds
    BY <2>1 DEF SaleOfReturn, SoldIds
  <2>5. WarehouseFlow!NameSale(t, s)
    BY <1>3, <2>1, <2>2, <2>3, <2>4 DEF WarehouseFlow!NameSale
  <2> QED BY <1>0, <2>5 DEF WarehouseFlow!Next
<1>8. ASSUME NEW t \in SaleReturnIds, PostSaleReturn(t) PROVE Step
  <2>1. /\ saleReturns'[t].status = "POSTED" /\ saleReturns'[t].sale = saleReturns[t].sale
        /\ \A q \in SaleReturnIds \ {t} : saleReturns'[q] = saleReturns[q]
        /\ saleReturns[t].sale \in SaleIds /\ sales[saleReturns[t].sale].status = "POSTED"
        /\ sales' = sales
    BY <1>2, <1>8 DEF PostSaleReturn, SaleTypes, SaleDocumentsFit
  <2>2. BroughtBackIds' = BroughtBackIds \cup {t}
    BY <2>1 DEF BroughtBackIds
  <2>3. SaleOfReturn' = SaleOfReturn
    BY <2>1 DEF SaleOfReturn
  <2>4. SaleOfReturn[t] \in SoldIds
    BY <2>1 DEF SaleOfReturn, SoldIds
  <2>5. WarehouseFlow!PostSaleReturn(t)
    BY <1>3, <2>1, <2>2, <2>3, <2>4 DEF WarehouseFlow!PostSaleReturn
  <2> QED BY <1>0, <2>5 DEF WarehouseFlow!Next
<1>9. ASSUME SetCustomerActive PROVE Step
  <2>1. UNCHANGED <<sales, saleReturns>>
    BY <1>9 DEF SetCustomerActive
  <2> QED BY <1>1, <1>3, <2>1
<1>10. Step
  BY <1>4, <1>5, <1>6, <1>7, <1>8, <1>9 DEF SalesDocumentsNext
<1> QED BY <1>10 DEF Step

\* At first nothing is posted, confirmed or paid.
LEMMA WarehouseFlowInit == PurchasingDocumentsInit /\ SalesDocumentsInit => WarehouseFlow!Init
<1> SUFFICES ASSUME PurchasingDocumentsInit, SalesDocumentsInit PROVE WarehouseFlow!Init
  OBVIOUS
<1>1. SoldIds = {} /\ BroughtBackIds = {} /\ SentBackIds = {} /\ paid = {}
  BY DEF PurchasingDocumentsInit, SalesDocumentsInit, SoldIds, BroughtBackIds, SentBackIds
<1>2. StatusesForMoney = [u \in Purchases |-> "DRAFT"]
  BY DEF PurchasingDocumentsInit, StatusesForMoney, StatusForMoney
<1>3. /\ SaleOfReturn \in [SaleReturnIds -> SaleIds \cup {NoSale}]
      /\ PurchaseOfReturn \in [Returns -> Purchases \cup {NoPurchase}]
  BY DEF PurchasingDocumentsInit, SalesDocumentsInit, SaleOfReturn, PurchaseOfReturn
<1> QED BY <1>1, <1>2, <1>3 DEF WarehouseFlow!Init

\* Stock keeps its side of what stock and money promise each other: documents
\* only move forward, a return is posted only against goods that moved, and a
\* purchase with an active payment is never cancelled.
THEOREM StockKeepsFlow == WarehouseSpec => WarehouseKeepsFlow
<1>1. WarehouseInit => WarehouseFlow!Init
  BY WarehouseFlowInit DEF WarehouseInit
<1>2. ASSUME WarehouseInv, WarehouseInv', [WarehouseNext]_warehouseVars
      PROVE  [WarehouseFlow!Next]_(WarehouseFlow!flowVars)
  <2>1. PurchaseInv /\ PurchaseInv' /\ SaleInv /\ SaleInv'
    BY <1>2 DEF WarehouseInv
  <2>2. CASE PurchasingDocumentsNext /\ UNCHANGED salesOwnVars
    BY <2>1, <2>2, PurchasingStepsFlow
  <2>3. CASE SalesDocumentsNext /\ UNCHANGED purchasingOwnVars
    BY <2>1, <2>3, SalesStepsFlow
  <2>4. CASE UNCHANGED <<purchasingOwnVars, salesOwnVars>>
    BY <2>4 DEF purchasingOwnVars, salesOwnVars, WarehouseFlow!flowVars, SoldIds,
                BroughtBackIds, SentBackIds, StatusesForMoney, StatusForMoney,
                SaleOfReturn, PurchaseOfReturn
  <2>5. CASE UNCHANGED warehouseVars
    <3>1. UNCHANGED <<purchasingOwnVars, salesOwnVars>>
      BY <2>5 DEF warehouseVars, purchasingOwnVars, salesOwnVars
    <3> QED BY <2>4, <3>1
  <2>6. WarehouseNext =>
            \/ PurchasingDocumentsNext /\ UNCHANGED salesOwnVars
            \/ SalesDocumentsNext /\ UNCHANGED purchasingOwnVars
            \/ UNCHANGED <<purchasingOwnVars, salesOwnVars>>
    BY DEF WarehouseNext
  <2> QED BY <1>2, <2>2, <2>3, <2>4, <2>5, <2>6
<1> QED BY <1>1, <1>2, WarehouseInvariant, PTL
        DEF WarehouseSpec, WarehouseKeepsFlow, WarehouseFlow!Spec
=============================================================================
