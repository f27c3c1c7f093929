SPECIFICATION PurchasingSpec
CONSTANTS
    Products = {p1}
    Locations = {l1, l2}
    Quantities = {1, 2}
    MaxInt = 4
    NoRow = NoRow
    NoLocation = NoLocation
    Refs <- PurchasingRefs
    NoRef = NoRef
    Purchases = {u1}
    Receipts = {r1, r2}
    Returns = {t1, t2}
    NoPurchase = NoPurchase
    MaxMovements = 1
SYMMETRY Symmetry
INVARIANTS PurchasingTypeOK NeverOverReceived NeverOverReturned
    StatusTellsReceiving CancelledIsClosed LinesMoveStockOnce
PROPERTY PurchasesAreOrders
