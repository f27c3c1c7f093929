--------------------------- MODULE MCSettlementTx ---------------------------
(* A paid sale with a posted return: a refund, the reversal of the payment  *)
(* and the closing of the cash session race for the same money.             *)
EXTENDS SettlementTx

CONSTANTS d1, x1, pay1, refund1, reverse1, close

MCTotal == [s \in SaleDocs |-> 2]
MCDocumentOf == [t \in SaleReturnDocs |-> d1]
MCReturnValue == [t \in SaleReturnDocs |-> 2]

Ask(kind, on, amount, cash) ==
    [kind |-> kind, on |-> on, amount |-> amount, cash |-> cash]

MCAsks ==
    [r \in Requests |->
        CASE r = pay1 -> Ask("SALE_PAYMENT", d1, 2, TRUE)
          [] r = refund1 -> Ask("SALE_REFUND", x1, 2, TRUE)
          [] r = reverse1 -> Ask("REVERSE", pay1, 0, FALSE)
          [] r = close -> Ask("CLOSE", Drawer, 0, FALSE)]
=============================================================================
