SPECIFICATION SalesSpec
CONSTANTS
    Products = {p1}
    Locations = {l1, l2}
    Quantities = {1, 2}
    MaxInt = 3
    NoRow = NoRow
    NoLocation = NoLocation
    Refs <- SalesRefs
    NoRef = NoRef
    SaleIds = {s1}
    SaleReturnIds = {t1, t2}
    NoSale = NoSale
    MaxMovements = 2
SYMMETRY Symmetry
INVARIANTS SalesTypeOK NeverReturnedBeyondSale SalesMoveStockOnce
