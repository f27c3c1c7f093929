SPECIFICATION FairTxSpec
CONSTANTS
    d1 = d1
    x1 = x1
    pay1 = pay1
    refund1 = refund1
    reverse1 = reverse1
    close = close
    SaleDocs = {d1}
    SaleReturnDocs = {x1}
    Total <- MCTotal
    DocumentOf <- MCDocumentOf
    ReturnValue <- MCReturnValue
    Requests = {pay1, refund1, reverse1, close}
    Before = {pay1}
    Asks <- MCAsks
    Drawer = Drawer
    Opening = 0
    MaxAttempts = 2
    Cash = Cash
    Card = Card
    Register = Register
    NoRegister = NoRegister
    NoSession = NoSession
    NoDocument = NoDocument
INVARIANTS TxTypeOK CommittedIsSound NoLockCycle
PROPERTIES EveryRequestAnswered ImplementsPayments
CHECK_DEADLOCK FALSE
