------------------------------ MODULE Payments ------------------------------
(***************************************************************************)
(* Payments, refunds and reversals of ms-autorepuesto                      *)
(* (finance/payments.service.ts) over the settlement amounts of            *)
(* financial-summary.service.ts and the cash ledger of CashSessions.       *)
(*                                                                         *)
(* Sales, purchases and their returns are their status and their value:    *)
(* Sales and Purchasing model how they get there.  Each operation is one   *)
(* serializable transaction and one action.                                *)
(***************************************************************************)
EXTENDS CashSessions

CONSTANTS
    SaleDocs, SaleReturnDocs, PurchaseDocs, PurchaseReturnDocs,
    Total,           \* Sale.total or Purchase.total
    DocumentOf,      \* the sale or purchase a return belongs to
    ReturnValue,     \* the value allocateValues gives to a posted return
    PaymentIds,
    CashMethods,        \* payment methods of kind CASH
    OtherMethods,       \* payment methods of any other kind
    NoSession, NoDocument

Documents == SaleDocs \cup PurchaseDocs
ReturnDocs == SaleReturnDocs \cup PurchaseReturnDocs
Methods == CashMethods \cup OtherMethods
PaymentTypes == {"SALE_PAYMENT", "SALE_REFUND", "PURCHASE_PAYMENT", "SUPPLIER_REFUND"}

Worth(returns) == SumFunctionOnSet(ReturnValue, returns)

\* Tables are finite, and no id names rows of two of them.  allocateValues
\* shares the value of a line between its returns, so that the returns of a
\* document are never worth more than the document.
ASSUME PaymentsAssumption ==
    /\ IsFiniteSet(PaymentIds) /\ IsFiniteSet(ReturnDocs)
    /\ SaleDocs \cap PurchaseDocs = {} /\ SaleReturnDocs \cap PurchaseReturnDocs = {}
    /\ Documents \cap ReturnDocs = {} /\ CashMethods \cap OtherMethods = {}
    /\ Entries \cap (PaymentIds \X MovementTypes) = {}
    /\ NoSession \notin Sessions
    /\ NoDocument \notin Documents \cup ReturnDocs
    /\ Total \in [Documents -> Nat]
    /\ ReturnValue \in [ReturnDocs -> Nat]
    /\ DocumentOf \in [ReturnDocs -> Documents]
    /\ \A t \in ReturnDocs : t \in SaleReturnDocs <=> DocumentOf[t] \in SaleDocs
    /\ \A d \in Documents :
           Worth({t \in ReturnDocs : DocumentOf[t] = d}) <= Total[d]

VARIABLES
    status,         \* status of every sale, purchase and return
    activeMethods,  \* PaymentMethod.active
    payments        \* Payment rows

paymentVars == <<activeRegisters, sessions, cashMovements,
                 status, activeMethods, payments>>

-----------------------------------------------------------------------------
(* Settlement amounts *)

NonNegative(n) == IF n > 0 THEN n ELSE 0

Amount(p) == payments[p].amount
Posted(type) ==
    {p \in PaymentIds : payments[p].status = "POSTED" /\ payments[p].type = type}
Of(type, d) == {p \in Posted(type) : payments[p].document = d}
ForReturn(type, t) == {p \in Posted(type) : payments[p].return = t}

\* total: the active payments of one type of a document, or of a return
AmountOf(ps) == SumFunctionOnSet([p \in PaymentIds |-> Amount(p)], ps)
Paid(type, d) == AmountOf(Of(type, d))
Refunded(type, t) == AmountOf(ForReturn(type, t))

PostedReturnDocs(d) ==
    {t \in ReturnDocs : DocumentOf[t] = d /\ status[t] = "POSTED"}
ReturnedValue(d) == Worth(PostedReturnDocs(d))

\* FinancialSummaryService.sale
SaleOutstanding(d) == NonNegative(Total[d] - Paid("SALE_PAYMENT", d))

\* FinancialSummaryService.saleReturn
SaleRefundable(t) ==
    Min({NonNegative(ReturnValue[t] - Refunded("SALE_REFUND", t)),
         NonNegative(Paid("SALE_PAYMENT", DocumentOf[t])
                     - Paid("SALE_REFUND", DocumentOf[t]))})

\* FinancialSummaryService.purchase
Obligation(d) == NonNegative(Total[d] - ReturnedValue(d))
NetPaid(d) == Paid("PURCHASE_PAYMENT", d) - Paid("SUPPLIER_REFUND", d)
PurchaseOutstanding(d) == NonNegative(Obligation(d) - NetPaid(d))
SupplierCredit(d) == NonNegative(NetPaid(d) - Obligation(d))

FaultySupplierRefundable(t) ==
    NonNegative(ReturnValue[t] - Refunded("SUPPLIER_REFUND", t))

\* FinancialSummaryService.purchaseReturn
SupplierRefundable(t) ==
    Min({NonNegative(ReturnValue[t] - Refunded("SUPPLIER_REFUND", t)),
         SupplierCredit(DocumentOf[t])})

-----------------------------------------------------------------------------
(* Taking a payment or a refund *)

\* activeMethod and resolveCash: a CASH method names an open session of an
\* active register, any other method names none
Tender(method, s) ==
    /\ method \in activeMethods
    /\ IF method \in CashMethods THEN s \in Sessions /\ OpenActive(s)
       ELSE s = NoSession

\* the payment row and, for cash, the movement that belongs to it
Record(p, type, d, t, method, s, amount) ==
    /\ payments[p].status = "NONE"
    /\ payments' = [payments EXCEPT ![p] =
                       [status |-> "POSTED", type |-> type, document |-> d,
                        return |-> t, method |-> method, session |-> s,
                        reversal |-> NoSession, amount |-> amount]]
    /\ cashMovements' = cashMovements \cup
           {CashMovement(<<p, type>>, s, type, amount) : c \in {s} \cap Sessions}
    /\ UNCHANGED <<activeRegisters, sessions, status, activeMethods>>

\* createSalePayment; tendered cash and change leave the ledger as it is
SalePayment(p, d, method, s, amount) ==
    /\ status[d] = "POSTED"
    /\ amount <= SaleOutstanding(d)
    /\ Tender(method, s)
    /\ Record(p, "SALE_PAYMENT", d, NoDocument, method, s, amount)

FaultySaleRefund(p, t, method, s, amount) ==
    /\ status[t] = "POSTED"
    /\ amount <= SaleRefundable(t)
    /\ Tender(method, s)
    /\ Record(p, "SALE_REFUND", DocumentOf[t], t, method, s, amount)

\* createSaleRefund
SaleRefund(p, t, method, s, amount) ==
    /\ status[t] = "POSTED"
    /\ status[DocumentOf[t]] = "POSTED"
    /\ amount <= SaleRefundable(t)
    /\ Tender(method, s)
    /\ s \in Sessions => CoversOutflow(s, amount)
    /\ Record(p, "SALE_REFUND", DocumentOf[t], t, method, s, amount)

\* createPurchasePayment
PurchasePayment(p, d, method, s, amount) ==
    /\ status[d] \in {"CONFIRMED", "RECEIVING"}
    /\ amount <= PurchaseOutstanding(d)
    /\ Tender(method, s)
    /\ s \in Sessions => CoversOutflow(s, amount)
    /\ Record(p, "PURCHASE_PAYMENT", d, NoDocument, method, s, amount)

\* createSupplierRefund
SupplierRefund(p, t, method, s, amount) ==
    /\ status[t] = "POSTED"
    /\ amount <= SupplierRefundable(t)
    /\ Tender(method, s)
    /\ Record(p, "SUPPLIER_REFUND", DocumentOf[t], t, method, s, amount)

-----------------------------------------------------------------------------
(* Reversing it *)

ReversalType ==
    [SALE_PAYMENT |-> "SALE_PAYMENT_REVERSAL",
     SALE_REFUND |-> "SALE_REFUND_REVERSAL",
     PURCHASE_PAYMENT |-> "PURCHASE_PAYMENT_REVERSAL",
     SUPPLIER_REFUND |-> "SUPPLIER_REFUND_REVERSAL"]

Reversed(row, s) == [row EXCEPT !.status = "REVERSED", !.reversal = s]

FaultyKeepsRefundsCovered(row) ==
    row.type = "PURCHASE_PAYMENT" =>
        Paid("PURCHASE_PAYMENT", row.document) - row.amount
            >= Paid("SUPPLIER_REFUND", row.document)

\* a payment may not leave the refunds of its document uncovered
KeepsRefundsCovered(row) ==
    /\ row.type = "SALE_PAYMENT" =>
           Paid("SALE_PAYMENT", row.document) - row.amount
               >= Paid("SALE_REFUND", row.document)
    /\ row.type = "PURCHASE_PAYMENT" =>
           Paid("PURCHASE_PAYMENT", row.document) - row.amount
               >= Paid("SUPPLIER_REFUND", row.document)

FaultyReverse(p, s) ==
    LET row == payments[p] IN
    /\ row.status \in {"POSTED", "REVERSED"}
    /\ KeepsRefundsCovered(row)
    /\ IF row.session = NoSession THEN s = NoSession
       ELSE s \in Sessions /\ OpenActive(s)
    /\ row.type \in {"SALE_PAYMENT", "SUPPLIER_REFUND"} /\ s \in Sessions =>
           CoversOutflow(s, row.amount)
    /\ payments' = [payments EXCEPT ![p] = Reversed(row, s)]
    /\ cashMovements' = cashMovements \cup
           {CashMovement(<<p, ReversalType[row.type]>>, s, ReversalType[row.type],
                         row.amount) : c \in {s} \cap Sessions}
    /\ UNCHANGED <<activeRegisters, sessions, status, activeMethods>>

\* reverse: cash comes back to, or leaves, any open session, not only the one
\* of the payment, which may be closed by now; the method is not looked at
Reverse(p, s) ==
    LET row == payments[p] IN
    /\ row.status = "POSTED"
    /\ KeepsRefundsCovered(row)
    /\ IF row.session = NoSession THEN s = NoSession
       ELSE s \in Sessions /\ OpenActive(s)
    /\ row.type \in {"SALE_PAYMENT", "SUPPLIER_REFUND"} /\ s \in Sessions =>
           CoversOutflow(s, row.amount)
    /\ payments' = [payments EXCEPT ![p] = Reversed(row, s)]
    /\ cashMovements' = cashMovements \cup
           {CashMovement(<<p, ReversalType[row.type]>>, s, ReversalType[row.type],
                         row.amount) : c \in {s} \cap Sessions}
    /\ UNCHANGED <<activeRegisters, sessions, status, activeMethods>>

-----------------------------------------------------------------------------
(* The documents around the payments *)

SetStatus(d, to) ==
    /\ status' = [status EXCEPT ![d] = to]
    /\ UNCHANGED <<activeRegisters, sessions, cashMovements, activeMethods, payments>>

PostSaleDoc(d) == status[d] = "DRAFT" /\ SetStatus(d, "POSTED")

ConfirmPurchaseDoc(d) == status[d] = "DRAFT" /\ SetStatus(d, "CONFIRMED")

\* posting a receipt: PARTIALLY_RECEIVED and RECEIVED are alike to the payments
ReceivePurchaseDoc(d) == status[d] = "CONFIRMED" /\ SetStatus(d, "RECEIVING")

FaultyCancelPurchaseDoc(d) ==
    status[d] \in {"DRAFT", "CONFIRMED"} /\ SetStatus(d, "CANCELLED")

\* cancel looks at POSTED payments of every type
CancelPurchaseDoc(d) ==
    /\ status[d] \in {"DRAFT", "CONFIRMED"}
    /\ \A p \in PaymentIds :
           payments[p].document = d => payments[p].status # "POSTED"
    /\ SetStatus(d, "CANCELLED")

\* posting a return does not look at the payments
PostReturnDoc(t) ==
    /\ status[t] = "DRAFT"
    /\ status[DocumentOf[t]] \in {"POSTED", "RECEIVING"}
    /\ SetStatus(t, "POSTED")

SetMethodActive(method) ==
    /\ activeMethods' = IF method \in activeMethods THEN activeMethods \ {method}
                        ELSE activeMethods \cup {method}
    /\ UNCHANGED <<activeRegisters, sessions, cashMovements, status, payments>>

PaymentsInit ==
    /\ CashInit
    /\ status = [d \in Documents \cup ReturnDocs |-> "DRAFT"]
    /\ activeMethods = Methods
    /\ payments = [p \in PaymentIds |->
                      [status |-> "NONE", type |-> "SALE_PAYMENT",
                       document |-> NoDocument, return |-> NoDocument,
                       method |-> NoDocument, session |-> NoSession,
                       reversal |-> NoSession, amount |-> 0]]

PaymentsNext ==
    \/ \E p \in PaymentIds, s \in Sessions \cup {NoSession} :
          \/ \E method \in Methods, amount \in Amounts :
                \/ \E d \in SaleDocs : SalePayment(p, d, method, s, amount)
                \/ \E t \in SaleReturnDocs : SaleRefund(p, t, method, s, amount)
                \/ \E d \in PurchaseDocs : PurchasePayment(p, d, method, s, amount)
                \/ \E t \in PurchaseReturnDocs :
                       SupplierRefund(p, t, method, s, amount)
          \/ Reverse(p, s)
    \/ \E d \in SaleDocs : PostSaleDoc(d)
    \/ \E d \in PurchaseDocs :
           ConfirmPurchaseDoc(d) \/ ReceivePurchaseDoc(d) \/ CancelPurchaseDoc(d)
    \/ \E t \in ReturnDocs : PostReturnDoc(t)
    \/ \E method \in Methods : SetMethodActive(method)
    \/ CashNext /\ UNCHANGED <<status, activeMethods, payments>>

PaymentsSpec == PaymentsInit /\ [][PaymentsNext]_paymentVars

-----------------------------------------------------------------------------
(* Properties *)

PaymentRows ==
    [status: {"NONE", "POSTED", "REVERSED"}, type: PaymentTypes,
     document: Documents \cup {NoDocument}, return: ReturnDocs \cup {NoDocument},
     method: Methods \cup {NoDocument}, session: Sessions \cup {NoSession},
     reversal: Sessions \cup {NoSession}, amount: Amounts \cup {0}]

\* The rows keep their shape and name the documents their type calls for.
PaymentsTypeOK ==
    /\ CashTypeOK
    /\ status \in [Documents \cup ReturnDocs ->
                      {"DRAFT", "CONFIRMED", "RECEIVING", "POSTED", "CANCELLED"}]
    /\ activeMethods \subseteq Methods
    /\ payments \in [PaymentIds -> PaymentRows]
    /\ \A p \in PaymentIds : payments[p].return # NoDocument =>
           payments[p].document = DocumentOf[payments[p].return]

\* Whatever payments, refunds and reversals come in whatever order, a sale never
\* collects more than its total, never gives back more than it has collected,
\* and never gives back more for a return than the return is worth.
SaleSettlementSound ==
    /\ \A d \in SaleDocs :
           /\ Paid("SALE_PAYMENT", d) <= Total[d]
           /\ Paid("SALE_REFUND", d) <= Paid("SALE_PAYMENT", d)
    /\ \A t \in SaleReturnDocs :
           Refunded("SALE_REFUND", t) <=
               IF status[t] = "POSTED" THEN ReturnValue[t] ELSE 0

\* A supplier is never paid more than the purchase was worth when it was made,
\* never gives back more than it was paid, and what it owes after returns can
\* always be asked back through those returns: no credit is out of reach.
PurchaseSettlementSound ==
    /\ \A d \in PurchaseDocs :
           /\ Paid("PURCHASE_PAYMENT", d) <= Total[d]
           /\ NetPaid(d) >= 0
           /\ SupplierCredit(d) <=
                  SumFunctionOnSet(
                      [t \in ReturnDocs |->
                          ReturnValue[t] - Refunded("SUPPLIER_REFUND", t)],
                      PostedReturnDocs(d))
    /\ \A t \in PurchaseReturnDocs :
           Refunded("SUPPLIER_REFUND", t) <=
               IF status[t] = "POSTED" THEN ReturnValue[t] ELSE 0

\* A cancelled purchase has no active payment, whether it was paid and reversed
\* before it was cancelled or not at all.
CancelledPurchaseUnpaid ==
    \A d \in PurchaseDocs : status[d] = "CANCELLED" =>
        \A p \in PaymentIds : payments[p].document = d => payments[p].status = "REVERSED"

\* The cash ledger and the payments tell one story: a cash payment has one
\* movement of its type and amount in its session, a second one in its reversal
\* session exactly when it is reversed, and no other movement names a payment.
CashMatchesPayments ==
    {m \in cashMovements : m.key \notin Entries} =
        {CashMovement(<<p, payments[p].type>>, payments[p].session,
                      payments[p].type, Amount(p)) :
         p \in {q \in PaymentIds : payments[q].session # NoSession}}
        \cup
        {CashMovement(<<p, ReversalType[payments[p].type]>>, payments[p].reversal,
                      ReversalType[payments[p].type], Amount(p)) :
         p \in {q \in PaymentIds : /\ payments[q].session # NoSession
                                   /\ payments[q].status = "REVERSED"}}

\* A payment is written once and reversed at most once: after that no step
\* changes it, and a reversal changes nothing but the reversal.
PaymentsAreFinal ==
    [][\A p \in PaymentIds : payments[p].status # "NONE" =>
          \/ payments'[p] = payments[p]
          \/ /\ payments[p].status = "POSTED"
             /\ \E s \in Sessions \cup {NoSession} :
                    payments'[p] = Reversed(payments[p], s)
      ]_paymentVars
-----------------------------------------------------------------------------
(* Payments over the documents that Warehouse moves *)

PostedSales == {d \in SaleDocs : status[d] = "POSTED"}
PostedSaleReturnDocs == {t \in SaleReturnDocs : status[t] = "POSTED"}
PostedPurchaseReturnDocs == {t \in PurchaseReturnDocs : status[t] = "POSTED"}
PurchaseStatuses == [d \in PurchaseDocs |-> status[d]]
SalesOfReturns == [t \in SaleReturnDocs |-> DocumentOf[t]]
PurchasesOfReturns == [t \in PurchaseReturnDocs |-> DocumentOf[t]]
PaidPurchases ==
    {d \in PurchaseDocs : \E p \in PaymentIds :
        payments[p].status = "POSTED" /\ payments[p].document = d}

PaymentsFlow == INSTANCE DocumentFlow WITH
    Sales <- SaleDocs, SaleReturns <- SaleReturnDocs,
    Purchases <- PurchaseDocs, PurchaseReturns <- PurchaseReturnDocs,
    NoSale <- NoDocument, NoPurchase <- NoDocument,
    sold <- PostedSales, broughtBack <- PostedSaleReturnDocs,
    sentBack <- PostedPurchaseReturnDocs, purchaseStatus <- PurchaseStatuses,
    saleOf <- SalesOfReturns, purchaseOf <- PurchasesOfReturns,
    paid <- PaidPurchases

\* Payments gives stock what it counts on: a purchase gets its first active
\* payment, of either direction, only once it is confirmed and not when it is
\* cancelled.  The steps by which documents move here are those of the contract.
PaymentsKeepFlow == PaymentsFlow!Spec
=============================================================================
