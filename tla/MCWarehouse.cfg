SPECIFICATION WarehouseSpec
CONSTANTS
    Products = {p1}
    Locations = {l1, l2}
    Quantities = {0, 1}
    MaxInt = 2
    NoRow = NoRow
    NoLocation = NoLocation
    Refs <- WarehouseRefs
    NoRef = NoRef
    Purchases = {u1}
    Receipts = {r1}
    Returns = {t1}
    NoPurchase = NoPurchase
    SaleIds = {s1}
    SaleReturnIds = {x1}
    NoSale = NoSale
    MaxMovements = 2
INVARIANTS InventoryTypeOK StockMatchesLedger LedgerChains StockExplainedByDocuments
