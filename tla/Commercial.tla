----------------------------- MODULE Commercial -----------------------------
(***************************************************************************)
(* What a purchase and a sale owe, computed twice: by                      *)
(* FinancialSummaryService (TypeScript, with the values of ReturnValues),  *)
(* which the payments are checked against, and by the queries of           *)
(* commercial.service.ts (SQL), which the receivables, the payables, the   *)
(* accounts and the dashboard show.  Money is in cents; filters, due       *)
(* dates and pages are left out.                                           *)
(***************************************************************************)
EXTENDS ReturnValues

\* The total of the document is that of its lines.
GrossValue == SumFunctionOnSet(total, Lines)

NonNegative(n) == IF n > 0 THEN n ELSE 0

\* settlementStatus
SettlementStatus(paid, outstanding) ==
    IF outstanding = 0 THEN "PAID" ELSE IF paid = 0 THEN "UNPAID" ELSE "PARTIALLY_PAID"

Settled(returned, obligation, netPaid) ==
    [returned |-> returned, obligation |-> obligation, netPaid |-> netPaid,
     outstanding |-> NonNegative(obligation - netPaid),
     credit |-> NonNegative(netPaid - obligation),
     status |-> SettlementStatus(netPaid, NonNegative(obligation - netPaid))]

-----------------------------------------------------------------------------
(* FinancialSummaryService *)

\* purchase: sumMoney over the values of the returns
PurchaseSummary(paid, refunded) ==
    LET returned == SumFunctionOnSet(values, DOMAIN values) IN
    Settled(returned, NonNegative(GrossValue - returned), paid - refunded)

\* sale: refunds are not taken off what was paid
SaleSummary(paid) ==
    LET outstanding == NonNegative(GrossValue - paid) IN
    [paid |-> paid, outstanding |-> outstanding, status |-> SettlementStatus(paid, outstanding)]

-----------------------------------------------------------------------------
(* CommercialService *)

FaultyReturnedLine(l) == Rounded(total[l], quantity[l], 1) * cumulative[l]

\* return_values: one rounding for all the units of a line that came back
ReturnedLine(l) == Rounded(total[l], quantity[l], cumulative[l])

\* payableQuery
PayableRow(paid, refunded) ==
    LET returned   == SumFunctionOnSet([l \in Lines |-> ReturnedLine(l)], Lines)
        obligation == Max({GrossValue - returned, 0})
        netPaid    == paid - refunded
        outstanding == Max({obligation - netPaid, 0})
    IN  [returned |-> Min({returned, GrossValue}), obligation |-> obligation,
         netPaid |-> netPaid, outstanding |-> outstanding,
         credit |-> Max({netPaid - obligation, 0}),
         status |-> CASE outstanding = 0 -> "PAID"
                      [] outstanding # 0 /\ netPaid = 0 -> "UNPAID"
                      [] OTHER -> "PARTIALLY_PAID"]

\* receivableQuery
ReceivableRow(paid) ==
    LET outstanding == Max({GrossValue - paid, 0}) IN
    [paid |-> paid, outstanding |-> outstanding,
     status |-> CASE outstanding = 0 -> "PAID"
                  [] outstanding # 0 /\ paid = 0 -> "UNPAID"
                  [] OTHER -> "PARTIALLY_PAID"]

-----------------------------------------------------------------------------
(* Properties *)

\* The units a line had back are worth the same whether they are rounded once,
\* as the payables do, or return by return, as the payments are checked: the
\* two roundings of the backend never drift apart.
LinesAgree == \A l \in Lines : share[l] = ReturnedLine(l)

\* Whatever was returned, paid and refunded, the lists show of a document what
\* the payments of it are checked against: the same value returned, obligation,
\* outstanding amount, supplier credit and settlement status, to the cent.
ListsAgreeWithSummaries ==
    \A paid, refunded \in 0..GrossValue :
        /\ PayableRow(paid, refunded) = PurchaseSummary(paid, refunded)
        /\ ReceivableRow(paid) = SaleSummary(paid)
=============================================================================
