SPECIFICATION PaymentsSpec
CONSTANTS
    d1 = d1
    d2 = d2
    x1 = x1
    x2 = x2
    y1 = y1
    y2 = y2
    SaleDocs = {d1}
    SaleReturnDocs = {x1}
    PurchaseDocs = {d2}
    PurchaseReturnDocs = {y1}
    Total <- MCTotal
    DocumentOf <- MCDocumentOf
    ReturnValue <- MCReturnValue
    PaymentIds = {p1, p2}
    CashMethods = {cash}
    OtherMethods = {}
    Registers = {g1}
    Sessions = {c1, c2}
    Amounts = {1}
    CountedAmounts = {0, 1}
    Entries = {e1}
    NoRegister = NoRegister
    NoSession = NoSession
    NoDocument = NoDocument
SYMMETRY Symmetry
INVARIANTS PaymentsTypeOK CashMatchesPayments OneOpenSession DrawerNeverNegative ClosingSnapshotHolds
PROPERTIES PaymentsAreFinal ClosedSessionsAreFinal
