SPECIFICATION PaymentsSpec
CONSTANTS
    d1 = d1
    d2 = d2
    x1 = x1
    x2 = x2
    y1 = y1
    y2 = y2
    SaleDocs = {d1}
    SaleReturnDocs = {x1, x2}
    PurchaseDocs = {d2}
    PurchaseReturnDocs = {y1, y2}
    Total <- MCTotal
    DocumentOf <- MCDocumentOf
    ReturnValue <- MCReturnValue
    PaymentIds = {p1, p2, p3, p4}
    CashMethods = {}
    OtherMethods = {card}
    Registers = {}
    Sessions = {}
    Amounts = {1, 2, 3}
    CountedAmounts = {0}
    Entries = {}
    NoRegister = NoRegister
    NoSession = NoSession
    NoDocument = NoDocument
SYMMETRY Symmetry
INVARIANTS SaleSettlementSound PurchaseSettlementSound
PROPERTY PaymentsKeepFlow
