--------------------------- MODULE PaymentsProofs ---------------------------
(***************************************************************************)
(* Proofs about CashSessions and Payments, for any number of registers,    *)
(* sessions, documents, returns, payments and amounts.                     *)
(*                                                                         *)
(* The first half is about the cash ledger: what CashSessions shows of it  *)
(* alone is shown of any operation that adds one movement to an open       *)
(* session, so that it carries over to the payments that write to it.  The *)
(* second half follows the amounts paid and refunded.                      *)
(***************************************************************************)
EXTENDS Payments, Sums

-----------------------------------------------------------------------------
(* The cash ledger *)

CashInv ==
    /\ CashTypeOK
    /\ IsFiniteSet(cashMovements)
    /\ OneOpenSession
    /\ ClosingSnapshotHolds
    /\ DrawerNeverNegative

\* The invariant holds before anything has happened.
LEMMA CashInvInit == CashInit => CashInv
<1> SUFFICES ASSUME CashInit PROVE CashInv
  OBVIOUS
<1>1. CashTypeOK
  BY CashAssumption DEF CashInit, CashTypeOK, SessionRows
<1>2. OneOpenSession /\ ClosingSnapshotHolds
  BY DEF CashInit, OneOpenSession, ClosingSnapshotHolds
<1>3. IsFiniteSet(cashMovements)
  BY FS_EmptySet DEF CashInit
<1>4. DrawerNeverNegative
  <2> SUFFICES ASSUME NEW s \in Sessions PROVE Expected(s) >= 0
    BY DEF DrawerNeverNegative
  <2>1. MovementsOf(s) = {} /\ sessions[s].opening = 0
    BY DEF CashInit, MovementsOf
  <2> QED BY <2>1, SumEmpty DEF Expected, NetCash
<1> QED BY <1>1, <1>2, <1>3, <1>4 DEF CashInv

LEMMA AmountsAreNatural ==
    /\ \A a \in Amounts : a \in Nat /\ a > 0
    /\ \A a \in CountedAmounts \cup {0} : a \in Nat
BY CashAssumption

\* The net of any part of a finite ledger of typed rows is an integer.
LEMMA NetCashInt ==
    ASSUME CashTypeOK, IsFiniteSet(cashMovements), NEW rows \in SUBSET cashMovements
    PROVE  /\ IsFiniteSet(rows)
           /\ Integral([m \in rows |-> MovementDelta(m)], rows)
           /\ NetCash(rows) \in Int
<1>1. IsFiniteSet(rows)
  BY FS_Subset DEF CashInv
<1>2. \A m \in rows : m.amount \in Int
  <2>1. \A m \in rows : m.amount \in Amounts
    BY DEF CashTypeOK
  <2>2. \A m \in rows : m.amount \in Nat
    BY <2>1, CashAssumption
  <2> QED BY <2>2
<1>3. Integral([m \in rows |-> MovementDelta(m)], rows)
  BY <1>2 DEF Integral, MovementDelta
<1> QED BY <1>1, <1>3, SumInt DEF NetCash

LEMMA ExpectedInt ==
    ASSUME CashTypeOK, IsFiniteSet(cashMovements), NEW s \in Sessions
    PROVE  Expected(s) \in Int
<1>1. NetCash(MovementsOf(s)) \in Int
  BY NetCashInt DEF MovementsOf
<1>2. sessions[s].opening \in Int
  <2>1. sessions[s].opening \in CountedAmounts \cup {0}
    BY DEF CashTypeOK, SessionRows
  <2>2. sessions[s].opening \in Nat
    BY <2>1, AmountsAreNatural
  <2> QED BY <2>2
<1> QED BY <1>1, <1>2 DEF Expected

\* When neither the opening amount nor the movements of a session change,
\* neither does what it expects in its drawer.
LEMMA ExpectedUnchanged ==
    ASSUME NEW s \in Sessions, sessions'[s].opening = sessions[s].opening,
           MovementsOf(s)' = MovementsOf(s)
    PROVE  Expected(s)' = Expected(s)
BY DEF Expected, NetCash, MovementDelta

\* A new movement changes what its session expects by its signed amount.
LEMMA ExpectedGrows ==
    ASSUME CashTypeOK, IsFiniteSet(cashMovements), NEW m, m \notin cashMovements,
           m.session \in Sessions, m.amount \in Int, UNCHANGED sessions,
           cashMovements' = cashMovements \cup {m}
    PROVE  Expected(m.session)' = Expected(m.session) + MovementDelta(m)
<1> DEFINE s == m.session
           rows == MovementsOf(s)
           f == [r \in rows |-> MovementDelta(r)]
           more == rows \cup {m}
           g == [r \in more |-> MovementDelta(r)]
<1>1. IsFiniteSet(rows) /\ Integral(f, rows) /\ NetCash(rows) \in Int
  BY NetCashInt DEF MovementsOf
<1>2. m \notin rows /\ g[m] = MovementDelta(m) /\ g[m] \in Int
  BY DEF MovementsOf, MovementDelta
<1>3. \A r \in rows : f[r] = g[r]
  OBVIOUS
<1>4. Integral(g, rows)
  BY <1>1, <1>3 DEF Integral
<1>5. MovementsOf(s)' = more
  BY DEF MovementsOf
<1>6. NetCash(MovementsOf(s))' = SumFunctionOnSet(g, more)
  BY <1>5 DEF NetCash, MovementDelta
<1>7. NetCash(rows) = SumFunctionOnSet(f, rows)
  BY DEF NetCash
<1>8. sessions[s].opening \in Int
  <2>1. sessions[s].opening \in CountedAmounts \cup {0}
    BY DEF CashTypeOK, SessionRows
  <2>2. sessions[s].opening \in Nat
    BY <2>1, AmountsAreNatural
  <2> QED BY <2>2
<1>9. /\ Expected(s)' = sessions[s].opening + SumFunctionOnSet(g, more)
      /\ Expected(s) = sessions[s].opening + NetCash(rows)
  BY <1>6 DEF Expected
<1> HIDE DEF rows, f, g, s
<1>10. SumFunctionOnSet(f, rows) = SumFunctionOnSet(g, rows)
  BY <1>1, <1>3, SumAgree
<1>11. SumFunctionOnSet(g, more) = SumFunctionOnSet(g, rows) + g[m]
  BY <1>1, <1>2, <1>4, SumAdd
<1> QED BY <1>1, <1>2, <1>7, <1>8, <1>9, <1>10, <1>11 DEF s

\* An operation that adds one movement to an open session, and takes no more out
\* than the session expects, keeps everything that is known of the cash ledger.
LEMMA LedgerGrows ==
    ASSUME CashInv, NEW m, UNCHANGED <<activeRegisters, sessions>>,
           cashMovements' = cashMovements \cup {m},
           m.session \in Sessions, OpenActive(m.session),
           m.type \in MovementTypes, m.amount \in Amounts,
           m.type \notin Inflows => CoversOutflow(m.session, m.amount)
    PROVE  CashInv'
<1>1. CashTypeOK'
  BY DEF CashInv, CashTypeOK, OpenActive
<1>2. IsFiniteSet(cashMovements')
  BY FS_AddElement DEF CashInv
<1>3. OneOpenSession'
  BY DEF CashInv, OneOpenSession
<1>4. ASSUME NEW s \in Sessions, s # m.session PROVE Expected(s)' = Expected(s)
  <2>1. MovementsOf(s)' = MovementsOf(s)
    BY <1>4 DEF MovementsOf
  <2> QED BY <2>1, ExpectedUnchanged
<1>5. ClosingSnapshotHolds'
  <2> SUFFICES ASSUME NEW s \in Sessions, (sessions[s].status = "CLOSED")'
               PROVE  (sessions[s].expected = Expected(s))'
    BY DEF ClosingSnapshotHolds
  <2>1. s # m.session
    BY DEF OpenActive
  <2> QED BY <1>4, <2>1 DEF CashInv, ClosingSnapshotHolds
<1>6. DrawerNeverNegative'
  <2> SUFFICES ASSUME NEW s \in Sessions PROVE Expected(s)' >= 0
    BY DEF DrawerNeverNegative
  <2>1. Expected(s) >= 0 /\ Expected(s) \in Int
    BY ExpectedInt DEF CashInv, DrawerNeverNegative
  <2>2. CASE s # m.session
    BY <1>4, <2>1, <2>2
  <2>3. CASE s = m.session /\ m \in cashMovements
    <3>1. cashMovements' = cashMovements
      BY <2>3
    <3>2. MovementsOf(s)' = MovementsOf(s)
      BY <3>1 DEF MovementsOf
    <3> QED BY <2>1, <3>2, ExpectedUnchanged
  <2>4. CASE s = m.session /\ m \notin cashMovements
    <3>1. m.amount \in Nat
      BY CashAssumption
    <3>2. Expected(s)' = Expected(s) + MovementDelta(m)
      BY <2>4, <3>1, ExpectedGrows DEF CashInv
    <3>3. \/ MovementDelta(m) = m.amount
          \/ Expected(s) - m.amount >= 0 /\ MovementDelta(m) = -m.amount
      BY <2>4 DEF MovementDelta, CoversOutflow
    <3> QED BY <2>1, <3>1, <3>2, <3>3
  <2> QED BY <2>2, <2>3, <2>4
<1> QED BY <1>1, <1>2, <1>3, <1>5, <1>6 DEF CashInv

\* Opening takes an unused row and a register whose other sessions are not open.
LEMMA OpenStep ==
    ASSUME CashInv, NEW s \in Sessions, NEW g \in Registers,
           NEW opening \in CountedAmounts, OpenSession(s, g, opening)
    PROVE  CashInv'
<1>1. sessions \in [Sessions -> SessionRows]
  BY DEF CashInv, CashTypeOK
<1>2. CashTypeOK'
  BY <1>1, CashAssumption DEF CashInv, CashTypeOK, SessionRows, OpenSession
<1>3. OneOpenSession'
  BY <1>1 DEF CashInv, OneOpenSession, OpenSession
<1>4. \A other \in Sessions : MovementsOf(other)' = MovementsOf(other)
  BY DEF OpenSession, MovementsOf
<1>5. ASSUME NEW other \in Sessions, other # s
      PROVE  sessions'[other] = sessions[other] /\ Expected(other)' = Expected(other)
  <2>1. sessions'[other] = sessions[other]
    BY <1>1, <1>5 DEF OpenSession
  <2> QED BY <1>4, <2>1, ExpectedUnchanged
<1>6. sessions[s].status = "NONE" /\ sessions'[s].status = "OPEN"
  BY <1>1 DEF OpenSession
<1>7. ClosingSnapshotHolds'
  <2> SUFFICES ASSUME NEW other \in Sessions, (sessions[other].status = "CLOSED")'
               PROVE  (sessions[other].expected = Expected(other))'
    BY DEF ClosingSnapshotHolds
  <2>1. other # s
    BY <1>6
  <2> QED BY <1>5, <2>1 DEF CashInv, ClosingSnapshotHolds
<1>8. Expected(s)' >= 0
  <2>1. MovementsOf(s) = {}
    BY <1>6 DEF CashInv, CashTypeOK, MovementsOf
  <2>2. sessions'[s].opening = opening /\ opening \in Nat
    BY <1>1, CashAssumption DEF OpenSession
  <2>3. Expected(s)' = opening + SumFunctionOnSet([m \in {} |-> MovementDelta(m)], {})
    BY <1>4, <2>1, <2>2 DEF Expected, NetCash, MovementDelta
  <2> QED BY <2>2, <2>3, SumEmpty
<1>9. DrawerNeverNegative'
  BY <1>5, <1>8 DEF CashInv, DrawerNeverNegative
<1>10. IsFiniteSet(cashMovements')
  BY DEF CashInv, OpenSession
<1> QED BY <1>2, <1>3, <1>7, <1>9, <1>10 DEF CashInv

\* A manual movement goes to an open session and is covered when it takes out.
LEMMA ManualStep ==
    ASSUME CashInv, NEW e \in Entries, NEW s \in Sessions,
           NEW type \in {"MANUAL_IN", "MANUAL_OUT"},
           NEW amount \in Amounts, ManualMovement(e, s, type, amount)
    PROVE  CashInv'
<1> DEFINE m == CashMovement(e, s, type, amount)
<1>1. m.session = s /\ m.type = type /\ m.amount = amount
  BY DEF CashMovement
<1>2. /\ UNCHANGED <<activeRegisters, sessions>>
      /\ cashMovements' = cashMovements \cup {m}
      /\ OpenActive(s)
      /\ type = "MANUAL_OUT" => CoversOutflow(s, amount)
  BY DEF ManualMovement
<1>3. type \in MovementTypes /\ (type \notin Inflows => type = "MANUAL_OUT")
  BY DEF MovementTypes, Inflows, Outflows
<1> HIDE DEF m
<1> QED BY <1>1, <1>2, <1>3, LedgerGrows

\* Closing writes what the ledger holds at that moment.
LEMMA CloseStep ==
    ASSUME CashInv, NEW s \in Sessions, NEW counted \in CountedAmounts, NEW hasNotes,
           CloseSession(s, counted, hasNotes)
    PROVE  CashInv'
<1>1. sessions \in [Sessions -> SessionRows] /\ Expected(s) \in Int
  BY ExpectedInt DEF CashInv, CashTypeOK
<1>2. CashTypeOK'
  <2>1. sessions' \in [Sessions -> SessionRows]
    BY <1>1 DEF SessionRows, CloseSession
  <2>2. \A other \in Sessions :
            /\ sessions'[other].register = sessions[other].register
            /\ sessions'[other].status = "NONE" <=> sessions[other].status = "NONE"
    BY <1>1 DEF SessionRows, CloseSession
  <2> QED BY <2>1, <2>2 DEF CashInv, CashTypeOK, CloseSession
<1>3. OneOpenSession'
  BY <1>1 DEF CashInv, OneOpenSession, CloseSession, SessionRows
<1>4. ASSUME NEW other \in Sessions PROVE Expected(other)' = Expected(other)
  <2>1. MovementsOf(other)' = MovementsOf(other)
    BY DEF CloseSession, MovementsOf
  <2>2. sessions'[other].opening = sessions[other].opening
    BY <1>1 DEF SessionRows, CloseSession
  <2> QED BY <2>1, <2>2, ExpectedUnchanged
<1>5. ClosingSnapshotHolds'
  <2> SUFFICES ASSUME NEW other \in Sessions, (sessions[other].status = "CLOSED")'
               PROVE  (sessions[other].expected = Expected(other))'
    BY DEF ClosingSnapshotHolds
  <2>1. CASE other = s
    BY <1>1, <1>4, <2>1 DEF CloseSession
  <2>2. CASE other # s
    BY <1>1, <1>4, <2>2 DEF CloseSession, CashInv, ClosingSnapshotHolds
  <2> QED BY <2>1, <2>2
<1>6. DrawerNeverNegative' /\ IsFiniteSet(cashMovements')
  BY <1>4 DEF CashInv, DrawerNeverNegative, CloseSession
<1> QED BY <1>2, <1>3, <1>5, <1>6 DEF CashInv

\* Activating registers, and steps that leave the cash alone.
LEMMA QuietStep ==
    ASSUME CashInv, activeRegisters' \subseteq Registers,
           UNCHANGED <<sessions, cashMovements>>
    PROVE  CashInv'
<1>1. CashTypeOK' /\ IsFiniteSet(cashMovements') /\ OneOpenSession'
  BY DEF CashInv, CashTypeOK, OneOpenSession
<1>2. ASSUME NEW s \in Sessions PROVE Expected(s)' = Expected(s)
  <2>1. MovementsOf(s)' = MovementsOf(s)
    BY DEF MovementsOf
  <2> QED BY <2>1, ExpectedUnchanged
<1>3. ClosingSnapshotHolds' /\ DrawerNeverNegative'
  BY <1>2 DEF CashInv, ClosingSnapshotHolds, DrawerNeverNegative
<1> QED BY <1>1, <1>3 DEF CashInv

LEMMA CashInvStep == CashInv /\ [CashNext]_cashVars => CashInv'
<1> SUFFICES ASSUME CashInv, [CashNext]_cashVars PROVE CashInv'
  OBVIOUS
<1>0. activeRegisters \subseteq Registers
  BY DEF CashInv, CashTypeOK
<1>1. ASSUME NEW s \in Sessions, NEW g \in Registers,
             NEW opening \in CountedAmounts, OpenSession(s, g, opening)
      PROVE  CashInv'
  BY <1>1, OpenStep
<1>2. ASSUME NEW s \in Sessions, NEW e \in Entries,
             NEW type \in {"MANUAL_IN", "MANUAL_OUT"}, NEW amount \in Amounts,
             ManualMovement(e, s, type, amount)
      PROVE  CashInv'
  BY <1>2, ManualStep
<1>3. ASSUME NEW s \in Sessions, NEW counted \in CountedAmounts,
             NEW hasNotes \in BOOLEAN, CloseSession(s, counted, hasNotes)
      PROVE  CashInv'
  BY <1>3, CloseStep
<1>4. ASSUME NEW g \in Registers, SetRegisterActive(g) PROVE CashInv'
  BY <1>0, <1>4, QuietStep DEF SetRegisterActive
<1>5. CASE UNCHANGED cashVars
  BY <1>0, <1>5, QuietStep DEF cashVars
<1> QED BY <1>1, <1>2, <1>3, <1>4, <1>5 DEF CashNext

LEMMA CashInvariant == CashSpec => []CashInv
<1> QED BY CashInvInit, CashInvStep, PTL DEF CashSpec

\* Two tills never count one drawer: open checks the sessions of the register it
\* has locked, and no other operation opens one.
THEOREM OneOpenSessionPerRegister == CashSpec => []OneOpenSession
<1>1. CashInv => OneOpenSession
  BY DEF CashInv
<1> QED BY <1>1, CashInvariant, PTL

\* The expected amount a closing stored stays the amount its movements add up
\* to: every operation that adds a movement wants its session OPEN.
THEOREM ClosingAmountsStayTrue == CashSpec => []ClosingSnapshotHolds
<1>1. CashInv => ClosingSnapshotHolds
  BY DEF CashInv
<1> QED BY <1>1, CashInvariant, PTL

\* The row and the movements of a closed session never change again, and the
\* ledger only grows.
THEOREM ClosedStaysClosed == CashSpec => ClosedSessionsAreFinal
<1> DEFINE Final ==
      /\ \A s \in Sessions : sessions[s].status = "CLOSED" =>
             sessions'[s] = sessions[s] /\ MovementsOf(s)' = MovementsOf(s)
      /\ cashMovements \subseteq cashMovements'
<1>1. CashInv /\ [CashNext]_cashVars => [Final]_cashVars
  <2> SUFFICES ASSUME CashInv, CashNext PROVE Final
    OBVIOUS
  <2>1. ASSUME NEW s \in Sessions, NEW g \in Registers,
               NEW opening \in CountedAmounts, OpenSession(s, g, opening)
        PROVE  Final
    BY <2>1 DEF CashInv, CashTypeOK, OpenSession, MovementsOf
  <2>2. ASSUME NEW s \in Sessions, NEW e \in Entries,
               NEW type \in {"MANUAL_IN", "MANUAL_OUT"}, NEW amount \in Amounts,
               ManualMovement(e, s, type, amount)
        PROVE  Final
    BY <2>2 DEF ManualMovement, OpenActive, MovementsOf, CashMovement
  <2>3. ASSUME NEW s \in Sessions, NEW counted \in CountedAmounts,
               NEW hasNotes \in BOOLEAN, CloseSession(s, counted, hasNotes)
        PROVE  Final
    BY <2>3 DEF CashInv, CashTypeOK, CloseSession, MovementsOf
  <2>4. ASSUME NEW g \in Registers, SetRegisterActive(g) PROVE Final
    BY <2>4 DEF SetRegisterActive, MovementsOf
  <2> QED BY <2>1, <2>2, <2>3, <2>4 DEF CashNext
<1>2. CashSpec => [][Final]_cashVars
  BY <1>1, CashInvariant, PTL DEF CashSpec
<1> QED BY <1>2 DEF ClosedSessionsAreFinal

-----------------------------------------------------------------------------
(* The rows of the payments *)

Collected == {"SALE_PAYMENT", "PURCHASE_PAYMENT"}
GivenBack == {"SALE_REFUND", "SUPPLIER_REFUND"}

\* A payment of a type goes to a document of that type's side, and a refund to a
\* posted return of the document.
Fits(type, d, t) ==
    /\ type \in {"SALE_PAYMENT", "SALE_REFUND"} => d \in SaleDocs
    /\ type \in {"PURCHASE_PAYMENT", "SUPPLIER_REFUND"} => d \in PurchaseDocs
    /\ type \in Collected => t = NoDocument
    /\ type \in GivenBack =>
           t \in ReturnDocs /\ d = DocumentOf[t] /\ status[t] = "POSTED"

RowsFit ==
    \A p \in PaymentIds :
        /\ payments[p].status = "NONE" =>
               payments[p].document = NoDocument /\ payments[p].session = NoSession
        /\ payments[p].status # "NONE" =>
               /\ payments[p].amount \in Amounts
               /\ Fits(payments[p].type, payments[p].document, payments[p].return)

\* The document of a posted return is posted or has received goods, and stays so.
ReturnsFit ==
    \A t \in ReturnDocs :
        status[t] = "POSTED" => status[DocumentOf[t]] \in {"POSTED", "RECEIVING"}

RowsInv ==
    /\ CashInv
    /\ PaymentsTypeOK
    /\ RowsFit
    /\ ReturnsFit
    /\ CancelledPurchaseUnpaid
    /\ CashMatchesPayments

LEMMA TypesAreApart ==
    /\ PaymentTypes = Collected \cup GivenBack
    /\ PaymentTypes \subseteq MovementTypes
    /\ \A type \in PaymentTypes : ReversalType[type] \in MovementTypes
    /\ \A type \in PaymentTypes :
           /\ type \notin Inflows => type \in {"SALE_REFUND", "PURCHASE_PAYMENT"}
           /\ ReversalType[type] \notin Inflows =>
                  type \in {"SALE_PAYMENT", "SUPPLIER_REFUND"}
BY DEF PaymentTypes, Collected, GivenBack, MovementTypes, Inflows, Outflows, ReversalType

\* Adding one movement of a payment leaves the manual movements as they are.
LEMMA PaymentMovements ==
    ASSUME NEW p \in PaymentIds, NEW type \in MovementTypes, NEW s, NEW amount,
           cashMovements' = cashMovements \cup {CashMovement(<<p, type>>, s, type, amount)}
    PROVE  {m \in cashMovements : m.key \notin Entries}' =
               {m \in cashMovements : m.key \notin Entries}
               \cup {CashMovement(<<p, type>>, s, type, amount)}
<1>1. <<p, type>> \notin Entries
  BY PaymentsAssumption
<1>2. CashMovement(<<p, type>>, s, type, amount).key = <<p, type>>
  BY DEF CashMovement
<1> QED BY <1>1, <1>2

\* the two halves of CashMatchesPayments: movements of payments and of reversals
Taken ==
    {CashMovement(<<p, payments[p].type>>, payments[p].session,
                  payments[p].type, Amount(p)) :
     p \in {q \in PaymentIds : payments[q].session # NoSession}}
TakenBack ==
    {CashMovement(<<p, ReversalType[payments[p].type]>>, payments[p].reversal,
                  ReversalType[payments[p].type], Amount(p)) :
     p \in {q \in PaymentIds : /\ payments[q].session # NoSession
                               /\ payments[q].status = "REVERSED"}}

\* Recording a payment adds its row and, for cash, its movement.
LEMMA RecordMatches ==
    ASSUME RowsInv, NEW p \in PaymentIds, NEW type \in PaymentTypes, NEW d, NEW t,
           NEW method, NEW s \in Sessions \cup {NoSession}, NEW amount \in Amounts,
           Record(p, type, d, t, method, s, amount)
    PROVE  CashMatchesPayments'
<1> DEFINE m == CashMovement(<<p, type>>, s, type, amount)
           New == IF s = NoSession THEN {} ELSE {m}
<1>1. NoSession \notin Sessions
  BY PaymentsAssumption
<1>2. payments \in [PaymentIds -> PaymentRows]
  BY DEF RowsInv, PaymentsTypeOK
<1>3. payments[p].status = "NONE" /\ payments[p].session = NoSession
  BY DEF RowsInv, RowsFit, Record
<1>4. /\ payments'[p].session = s /\ payments'[p].status = "POSTED"
      /\ payments'[p].type = type /\ payments'[p].amount = amount
      /\ \A q \in PaymentIds : q # p => payments'[q] = payments[q]
  BY <1>2 DEF Record
<1>5. Taken' = Taken \cup New
  BY <1>1, <1>3, <1>4 DEF Taken, Amount, CashMovement
<1>6. TakenBack' = TakenBack
  <2>1. \A q \in PaymentIds :
            /\ payments'[q].session # NoSession /\ payments'[q].status = "REVERSED" <=>
               payments[q].session # NoSession /\ payments[q].status = "REVERSED"
            /\ payments[q].status = "REVERSED" => payments'[q] = payments[q]
    BY <1>3, <1>4
  <2> QED BY <2>1 DEF TakenBack, Amount
<1>7. {x \in cashMovements : x.key \notin Entries}' =
          {x \in cashMovements : x.key \notin Entries} \cup New
  <2>1. cashMovements' = cashMovements \cup {m : c \in {s} \cap Sessions}
    BY DEF Record
  <2>2. CASE s = NoSession
    BY <1>1, <2>1, <2>2
  <2>3. CASE s # NoSession
    <3>1. cashMovements' = cashMovements \cup {m}
      BY <2>1, <2>3
    <3>2. type \in MovementTypes
      BY TypesAreApart
    <3> QED BY <2>3, <3>1, <3>2, PaymentMovements
  <2> QED BY <2>2, <2>3
<1>8. {x \in cashMovements : x.key \notin Entries} = Taken \cup TakenBack
  BY DEF RowsInv, CashMatchesPayments, Taken, TakenBack
<1>9. ({x \in cashMovements : x.key \notin Entries} = Taken \cup TakenBack)'
  BY <1>5, <1>6, <1>7, <1>8
<1> QED BY <1>9 DEF CashMatchesPayments, Taken, TakenBack

\* Reversing it adds a movement in the reversal session when it was cash.
LEMMA ReverseMatches ==
    ASSUME RowsInv, NEW p \in PaymentIds, NEW s \in Sessions \cup {NoSession},
           Reverse(p, s)
    PROVE  CashMatchesPayments'
<1> DEFINE type == ReversalType[payments[p].type]
           amount == payments[p].amount
           m == CashMovement(<<p, type>>, s, type, amount)
           New == IF payments[p].session = NoSession THEN {} ELSE {m}
<1>1. NoSession \notin Sessions
  BY PaymentsAssumption
<1>2. payments \in [PaymentIds -> PaymentRows] /\ payments[p] \in PaymentRows
  BY DEF RowsInv, PaymentsTypeOK
<1>3. /\ payments[p].status = "POSTED"
      /\ payments[p].session = NoSession => s = NoSession
      /\ payments[p].session # NoSession => s \in Sessions
  BY DEF Reverse
<1>4. /\ payments'[p].session = payments[p].session
      /\ payments'[p].status = "REVERSED" /\ payments'[p].reversal = s
      /\ payments'[p].type = payments[p].type /\ payments'[p].amount = amount
      /\ \A q \in PaymentIds : q # p => payments'[q] = payments[q]
  BY <1>2 DEF Reverse, Reversed, PaymentRows
<1>5. Taken' = Taken
  BY <1>4 DEF Taken, Amount
<1>6. TakenBack' = TakenBack \cup New
  <2> DEFINE Cash == {q \in PaymentIds : /\ payments[q].session # NoSession
                                         /\ payments[q].status = "REVERSED"}
             Row(q) == CashMovement(<<q, ReversalType[payments[q].type]>>,
                           payments[q].reversal, ReversalType[payments[q].type],
                           payments[q].amount)
             After == Cash \cup (IF payments[p].session = NoSession THEN {} ELSE {p})
             RowAfter(q) == IF q = p THEN m ELSE Row(q)
  <2>1. TakenBack = {Row(q) : q \in Cash}
    BY DEF TakenBack, Amount
  <2>2. p \notin Cash
    BY <1>3
  <2>3. TakenBack' = {RowAfter(q) : q \in After}
    <3> DEFINE CashAfter == {q \in PaymentIds : /\ payments'[q].session # NoSession
                                                /\ payments'[q].status = "REVERSED"}
               RowNow(q) == CashMovement(<<q, ReversalType[payments'[q].type]>>,
                                payments'[q].reversal, ReversalType[payments'[q].type],
                                payments'[q].amount)
    <3>1. CashAfter = After
      BY <1>3, <1>4
    <3>2. \A q \in After : RowNow(q) = RowAfter(q)
      BY <1>4
    <3>3. TakenBack' = {RowNow(q) : q \in CashAfter}
      BY DEF TakenBack, Amount
    <3> HIDE DEF RowNow, RowAfter, CashAfter, After
    <3> QED BY <3>1, <3>2, <3>3
  <2> HIDE DEF Row, m, Cash
  <2>4. {RowAfter(q) : q \in After} = {Row(q) : q \in Cash} \cup New
    BY <2>2
  <2> QED BY <2>1, <2>3, <2>4
<1>7. {x \in cashMovements : x.key \notin Entries}' =
          {x \in cashMovements : x.key \notin Entries} \cup New
  <2>1. cashMovements' = cashMovements \cup {m : c \in {s} \cap Sessions}
    BY DEF Reverse
  <2>2. CASE payments[p].session = NoSession
    BY <1>1, <1>3, <2>1, <2>2
  <2>3. CASE payments[p].session # NoSession
    <3>1. cashMovements' = cashMovements \cup {m}
      BY <1>3, <2>1, <2>3
    <3>2. type \in MovementTypes
      BY <1>2, TypesAreApart DEF PaymentRows
    <3> QED BY <2>3, <3>1, <3>2, PaymentMovements
  <2> QED BY <2>2, <2>3
<1>8. {x \in cashMovements : x.key \notin Entries} = Taken \cup TakenBack
  BY DEF RowsInv, CashMatchesPayments, Taken, TakenBack
<1>9. ({x \in cashMovements : x.key \notin Entries} = Taken \cup TakenBack)'
  BY <1>5, <1>6, <1>7, <1>8
<1> QED BY <1>9 DEF CashMatchesPayments, Taken, TakenBack

\* What the four operations that record a payment have in common.
Takes(p, type, d, t, method, s, amount) ==
    /\ Fits(type, d, t)
    /\ status[d] # "CANCELLED"
    /\ Tender(method, s)
    /\ type \notin Inflows /\ s \in Sessions => CoversOutflow(s, amount)
    /\ Record(p, type, d, t, method, s, amount)

LEMMA OperationsTake ==
    ASSUME RowsInv, NEW p \in PaymentIds, NEW s \in Sessions \cup {NoSession},
           NEW method \in Methods, NEW amount \in Amounts
    PROVE  /\ \A d \in SaleDocs : SalePayment(p, d, method, s, amount) =>
                  Takes(p, "SALE_PAYMENT", d, NoDocument, method, s, amount)
           /\ \A t \in SaleReturnDocs : SaleRefund(p, t, method, s, amount) =>
                  Takes(p, "SALE_REFUND", DocumentOf[t], t, method, s, amount)
           /\ \A d \in PurchaseDocs : PurchasePayment(p, d, method, s, amount) =>
                  Takes(p, "PURCHASE_PAYMENT", d, NoDocument, method, s, amount)
           /\ \A t \in PurchaseReturnDocs : SupplierRefund(p, t, method, s, amount) =>
                  Takes(p, "SUPPLIER_REFUND", DocumentOf[t], t, method, s, amount)
<1>1. /\ \A t \in SaleReturnDocs : t \in ReturnDocs /\ DocumentOf[t] \in SaleDocs
      /\ \A t \in PurchaseReturnDocs : t \in ReturnDocs /\ DocumentOf[t] \in PurchaseDocs
  BY PaymentsAssumption DEF Documents, ReturnDocs
<1>2. ASSUME NEW d \in SaleDocs, SalePayment(p, d, method, s, amount)
      PROVE  Takes(p, "SALE_PAYMENT", d, NoDocument, method, s, amount)
  BY <1>2 DEF SalePayment, Takes, Fits, Collected, GivenBack, Inflows
<1>3. ASSUME NEW t \in SaleReturnDocs, SaleRefund(p, t, method, s, amount)
      PROVE  Takes(p, "SALE_REFUND", DocumentOf[t], t, method, s, amount)
  BY <1>1, <1>3 DEF SaleRefund, Takes, Fits, Collected, GivenBack, Inflows
<1>4. ASSUME NEW d \in PurchaseDocs, PurchasePayment(p, d, method, s, amount)
      PROVE  Takes(p, "PURCHASE_PAYMENT", d, NoDocument, method, s, amount)
  BY <1>4 DEF PurchasePayment, Takes, Fits, Collected, GivenBack, Inflows
<1>5. ASSUME NEW t \in PurchaseReturnDocs, SupplierRefund(p, t, method, s, amount)
      PROVE  Takes(p, "SUPPLIER_REFUND", DocumentOf[t], t, method, s, amount)
  <2>1. status[t] = "POSTED"
    BY <1>5 DEF SupplierRefund
  <2>2. status[DocumentOf[t]] # "CANCELLED"
    BY <1>1, <2>1 DEF RowsInv, ReturnsFit
  <2> QED BY <1>1, <1>5, <2>2 DEF SupplierRefund, Takes, Fits, Collected, GivenBack, Inflows
<1> QED BY <1>2, <1>3, <1>4, <1>5

LEMMA RecordStep ==
    ASSUME RowsInv, NEW p \in PaymentIds, NEW type \in PaymentTypes, NEW d \in Documents,
           NEW t, NEW method \in Methods, NEW s \in Sessions \cup {NoSession},
           NEW amount \in Amounts, Takes(p, type, d, t, method, s, amount)
    PROVE  RowsInv'
<1> DEFINE m == CashMovement(<<p, type>>, s, type, amount)
<1>1. /\ Record(p, type, d, t, method, s, amount)
      /\ UNCHANGED <<activeRegisters, sessions, status, activeMethods>>
      /\ cashMovements' = cashMovements \cup {m : c \in {s} \cap Sessions}
  BY DEF Takes, Record
<1>2. payments \in [PaymentIds -> PaymentRows]
  BY DEF RowsInv, PaymentsTypeOK
<1>3. payments[p].status = "NONE"
  BY <1>1 DEF Record
<1>4. /\ payments'[p] = [status |-> "POSTED", type |-> type, document |-> d,
                         return |-> t, method |-> method, session |-> s,
                         reversal |-> NoSession, amount |-> amount]
      /\ \A q \in PaymentIds : q # p => payments'[q] = payments[q]
  BY <1>1, <1>2 DEF Record
<1>5. CashInv'
  <2>1. CASE s \in Sessions
    <3>1. cashMovements' = cashMovements \cup {m}
      BY <1>1, <2>1
    <3>2. m.session = s /\ m.type = type /\ m.amount = amount
      BY DEF CashMovement
    <3>3. OpenActive(s)
      BY <2>1, PaymentsAssumption DEF Takes, Tender
    <3>4. type \in MovementTypes /\ (type \notin Inflows => CoversOutflow(s, amount))
      BY <2>1, TypesAreApart DEF Takes
    <3> HIDE DEF m
    <3> QED BY <1>1, <2>1, <3>1, <3>2, <3>3, <3>4, LedgerGrows DEF RowsInv
  <2>2. CASE s \notin Sessions
    <3>1. cashMovements' = cashMovements
      BY <1>1, <2>2
    <3> QED BY <1>1, <3>1, QuietStep DEF RowsInv, CashInv, CashTypeOK
  <2> QED BY <2>1, <2>2
<1>6. PaymentsTypeOK'
  <2>1. t \in ReturnDocs \cup {NoDocument} /\ (t # NoDocument => d = DocumentOf[t])
    BY TypesAreApart DEF Takes, Fits
  <2>2. payments' \in [PaymentIds -> PaymentRows]
    BY <1>1, <1>2, <2>1 DEF Record, PaymentRows
  <2>3. \A q \in PaymentIds : payments'[q].return # NoDocument =>
            payments'[q].document = DocumentOf[payments'[q].return]
    BY <1>4, <2>1 DEF RowsInv, PaymentsTypeOK
  <2>4. CashTypeOK'
    BY <1>5 DEF CashInv
  <2> QED BY <1>1, <2>2, <2>3, <2>4 DEF RowsInv, PaymentsTypeOK
<1>7. RowsFit'
  BY <1>1, <1>4 DEF RowsInv, RowsFit, Fits, Takes
<1>8. ReturnsFit'
  BY <1>1 DEF RowsInv, ReturnsFit
<1>9. CancelledPurchaseUnpaid'
  BY <1>1, <1>4 DEF RowsInv, CancelledPurchaseUnpaid, Takes
<1>10. CashMatchesPayments'
  BY <1>1, RecordMatches
<1> QED BY <1>5, <1>6, <1>7, <1>8, <1>9, <1>10 DEF RowsInv

LEMMA ReverseStep ==
    ASSUME RowsInv, NEW p \in PaymentIds,
           NEW s \in Sessions \cup {NoSession}, Reverse(p, s)
    PROVE  RowsInv'
<1> DEFINE type == ReversalType[payments[p].type]
           amount == payments[p].amount
           m == CashMovement(<<p, type>>, s, type, amount)
<1>1. /\ UNCHANGED <<activeRegisters, sessions, status, activeMethods>>
      /\ cashMovements' = cashMovements \cup {m : c \in {s} \cap Sessions}
  BY DEF Reverse
<1>2. payments \in [PaymentIds -> PaymentRows] /\ payments[p] \in PaymentRows
  BY DEF RowsInv, PaymentsTypeOK
<1>3. payments[p].status = "POSTED"
  BY DEF Reverse
<1>4. /\ payments'[p] = Reversed(payments[p], s)
      /\ \A q \in PaymentIds : q # p => payments'[q] = payments[q]
  BY <1>2 DEF Reverse
<1>5. /\ payments'[p].status = "REVERSED"
      /\ payments'[p].type = payments[p].type
      /\ payments'[p].document = payments[p].document
      /\ payments'[p].return = payments[p].return
      /\ payments'[p].amount = payments[p].amount
  BY <1>2, <1>4 DEF Reversed, PaymentRows
<1>6. CashInv'
  <2>1. CASE s \in Sessions
    <3>1. cashMovements' = cashMovements \cup {m}
      BY <1>1, <2>1
    <3>2. m.session = s /\ m.type = type /\ m.amount = amount
      BY DEF CashMovement
    <3>3. OpenActive(s)
      BY <2>1, PaymentsAssumption DEF Reverse
    <3>4. type \in MovementTypes /\ (type \notin Inflows => CoversOutflow(s, amount))
      BY <1>2, <2>1, TypesAreApart DEF Reverse, PaymentRows
    <3>5. amount \in Amounts
      BY <1>3 DEF RowsInv, RowsFit
    <3> HIDE DEF m, type, amount
    <3> QED BY <1>1, <2>1, <3>1, <3>2, <3>3, <3>4, <3>5, LedgerGrows DEF RowsInv
  <2>2. CASE s \notin Sessions
    <3>1. cashMovements' = cashMovements
      BY <1>1, <2>2
    <3> QED BY <1>1, <3>1, QuietStep DEF RowsInv, CashInv, CashTypeOK
  <2> QED BY <2>1, <2>2
<1>7. PaymentsTypeOK'
  <2>1. payments' \in [PaymentIds -> PaymentRows]
    BY <1>2 DEF Reverse, Reversed, PaymentRows
  <2>2. \A q \in PaymentIds : payments'[q].return # NoDocument =>
            payments'[q].document = DocumentOf[payments'[q].return]
    BY <1>4, <1>5 DEF RowsInv, PaymentsTypeOK
  <2>3. CashTypeOK'
    BY <1>6 DEF CashInv
  <2> QED BY <1>1, <2>1, <2>2, <2>3 DEF RowsInv, PaymentsTypeOK
<1>8. RowsFit'
  BY <1>1, <1>3, <1>4, <1>5 DEF RowsInv, RowsFit, Fits
<1>9. ReturnsFit'
  BY <1>1 DEF RowsInv, ReturnsFit
<1>10. CancelledPurchaseUnpaid'
  BY <1>1, <1>4, <1>5 DEF RowsInv, CancelledPurchaseUnpaid
<1>11. CashMatchesPayments'
  BY ReverseMatches
<1> QED BY <1>6, <1>7, <1>8, <1>9, <1>10, <1>11 DEF RowsInv

\* Steps that leave cash and payments alone and move one document on.
LEMMA StatusStep ==
    ASSUME RowsInv, NEW d \in Documents \cup ReturnDocs,
           \/ d \in SaleDocs /\ PostSaleDoc(d)
           \/ d \in PurchaseDocs /\ (ConfirmPurchaseDoc(d) \/ ReceivePurchaseDoc(d)
                                     \/ CancelPurchaseDoc(d))
           \/ d \in ReturnDocs /\ PostReturnDoc(d)
    PROVE  RowsInv'
<1>1. PICK to \in {"CONFIRMED", "RECEIVING", "POSTED", "CANCELLED"} : SetStatus(d, to)
  BY DEF PostSaleDoc, ConfirmPurchaseDoc, ReceivePurchaseDoc, CancelPurchaseDoc, PostReturnDoc
<1>2. /\ UNCHANGED <<activeRegisters, sessions, cashMovements, activeMethods, payments>>
      /\ status' = [status EXCEPT ![d] = to]
  BY <1>1 DEF SetStatus
<1>3. status \in [Documents \cup ReturnDocs ->
                     {"DRAFT", "CONFIRMED", "RECEIVING", "POSTED", "CANCELLED"}]
  BY DEF RowsInv, PaymentsTypeOK
<1>4. \A e \in Documents \cup ReturnDocs : e # d => status'[e] = status[e]
  BY <1>2, <1>3
<1>5. status'[d] = to
  BY <1>2, <1>3
<1>6. status[d] \in {"DRAFT", "CONFIRMED"}
  BY DEF PostSaleDoc, ConfirmPurchaseDoc, ReceivePurchaseDoc, CancelPurchaseDoc, PostReturnDoc
<1>7. CashInv'
  BY <1>2, QuietStep DEF RowsInv, CashInv, CashTypeOK
<1>8. PaymentsTypeOK'
  BY <1>2, <1>3, <1>7 DEF RowsInv, PaymentsTypeOK, CashInv
<1>9. RowsFit'
  BY <1>2, <1>4, <1>6 DEF RowsInv, RowsFit, Fits
<1>10. ReturnsFit'
  <2> SUFFICES ASSUME NEW t \in ReturnDocs, status'[t] = "POSTED"
               PROVE  status'[DocumentOf[t]] \in {"POSTED", "RECEIVING"}
    BY DEF ReturnsFit
  <2>1. DocumentOf[t] \in Documents /\ DocumentOf[t] \notin ReturnDocs
    BY PaymentsAssumption
  <2>2. CASE t = d
    <3>1. d \notin Documents
      BY <2>2, PaymentsAssumption
    <3>2. PostReturnDoc(d)
      BY <3>1 DEF Documents
    <3>3. status[DocumentOf[t]] \in {"POSTED", "RECEIVING"}
      BY <2>2, <3>2 DEF PostReturnDoc
    <3> QED BY <1>4, <2>1, <2>2, <3>3
  <2>3. CASE t # d
    <3>1. status[DocumentOf[t]] \in {"POSTED", "RECEIVING"}
      BY <1>4, <2>3 DEF RowsInv, ReturnsFit
    <3> QED BY <1>4, <1>6, <2>1, <3>1
  <2> QED BY <2>2, <2>3
<1>11. CancelledPurchaseUnpaid'
  <2> SUFFICES ASSUME NEW e \in PurchaseDocs, status'[e] = "CANCELLED",
                      NEW p \in PaymentIds, payments[p].document = e
               PROVE  payments[p].status = "REVERSED"
    BY <1>2 DEF CancelledPurchaseUnpaid
  <2>1. e \in Documents /\ e \notin ReturnDocs /\ e \notin SaleDocs /\ e # NoDocument
    BY PaymentsAssumption DEF Documents
  <2>2. payments[p].status \in {"POSTED", "REVERSED"}
    BY <2>1 DEF RowsInv, RowsFit, PaymentsTypeOK, PaymentRows
  <2>3. CASE e # d
    BY <1>4, <2>1, <2>3 DEF RowsInv, CancelledPurchaseUnpaid
  <2>4. CASE e = d
    <3>1. to = "CANCELLED"
      BY <1>5, <2>4
    <3>2. CancelPurchaseDoc(d)
      BY <1>3, <1>5, <2>1, <2>4, <3>1
         DEF ConfirmPurchaseDoc, ReceivePurchaseDoc, PostReturnDoc, SetStatus
    <3> QED BY <2>2, <2>4, <3>2 DEF CancelPurchaseDoc
  <2> QED BY <2>3, <2>4
<1>12. CashMatchesPayments'
  BY <1>2 DEF RowsInv, CashMatchesPayments, Amount
<1> QED BY <1>7, <1>8, <1>9, <1>10, <1>11, <1>12 DEF RowsInv

\* Steps that leave documents and payments alone: cash operations, methods that
\* are activated or deactivated, and nothing at all.
LEMMA AroundStep ==
    ASSUME RowsInv, UNCHANGED <<status, payments>>, activeMethods' \subseteq Methods,
           [CashNext]_cashVars
    PROVE  RowsInv'
<1>1. CashInv'
  BY CashInvStep DEF RowsInv
<1>2. PaymentsTypeOK' /\ RowsFit' /\ ReturnsFit' /\ CancelledPurchaseUnpaid'
  BY <1>1 DEF RowsInv, CashInv, PaymentsTypeOK, RowsFit, Fits, ReturnsFit,
              CancelledPurchaseUnpaid
<1>3. {m \in cashMovements : m.key \notin Entries}' =
          {m \in cashMovements : m.key \notin Entries}
  <2>1. CASE UNCHANGED cashMovements
    BY <2>1
  <2>2. ASSUME NEW e \in Entries, NEW s, NEW type, NEW amount,
               ManualMovement(e, s, type, amount)
        PROVE  {m \in cashMovements : m.key \notin Entries}' =
                   {m \in cashMovements : m.key \notin Entries}
    BY <2>2 DEF ManualMovement, CashMovement
  <2> QED BY <2>1, <2>2 DEF CashNext, cashVars, OpenSession, CloseSession, SetRegisterActive
<1>4. CashMatchesPayments'
  BY <1>3 DEF RowsInv, CashMatchesPayments, Amount
<1> QED BY <1>1, <1>2, <1>4 DEF RowsInv

LEMMA RowsInvInit == PaymentsInit => RowsInv
<1> SUFFICES ASSUME PaymentsInit PROVE RowsInv
  OBVIOUS
<1>1. CashInv
  BY CashInvInit DEF PaymentsInit
<1>2. PaymentsTypeOK
  BY <1>1 DEF PaymentsInit, PaymentsTypeOK, CashInv, PaymentRows, PaymentTypes
<1>3. RowsFit
  BY DEF PaymentsInit, RowsFit
<1>4. ReturnsFit
  BY DEF PaymentsInit, ReturnsFit
<1>5. CancelledPurchaseUnpaid
  BY PaymentsAssumption DEF PaymentsInit, CancelledPurchaseUnpaid, Documents
<1>6. CashMatchesPayments
  BY DEF PaymentsInit, CashInit, CashMatchesPayments
<1> QED BY <1>1, <1>2, <1>3, <1>4, <1>5, <1>6 DEF RowsInv

\* The four kinds of steps: taking a payment, with what its check allows; reversing
\* one; moving a document on; and everything that leaves both alone.
PaymentStep ==
    \/ \E p \in PaymentIds, type \in PaymentTypes, d \in Documents,
          method \in Methods, s \in Sessions \cup {NoSession}, amount \in Amounts :
          \E t \in ReturnDocs \cup {NoDocument} :
              /\ Takes(p, type, d, t, method, s, amount)
              /\ type = "SALE_PAYMENT" => amount <= SaleOutstanding(d)
              /\ type = "SALE_REFUND" => amount <= SaleRefundable(t)
              /\ type = "PURCHASE_PAYMENT" => amount <= PurchaseOutstanding(d)
              /\ type = "SUPPLIER_REFUND" => amount <= SupplierRefundable(t)
    \/ \E p \in PaymentIds, s \in Sessions \cup {NoSession} : Reverse(p, s)
    \/ \E d \in Documents \cup ReturnDocs :
          \/ d \in SaleDocs /\ PostSaleDoc(d)
          \/ d \in PurchaseDocs /\ (ConfirmPurchaseDoc(d) \/ ReceivePurchaseDoc(d)
                                    \/ CancelPurchaseDoc(d))
          \/ d \in ReturnDocs /\ PostReturnDoc(d)
    \/ /\ UNCHANGED <<status, payments>>
       /\ activeMethods' \subseteq Methods
       /\ [CashNext]_cashVars

\* Every step is one of the four kinds.
LEMMA StepKinds ==
    ASSUME RowsInv, [PaymentsNext]_paymentVars PROVE PaymentStep
<1>0. activeMethods \subseteq Methods
  BY DEF RowsInv, PaymentsTypeOK
<1>1. ASSUME NEW p \in PaymentIds, NEW s \in Sessions \cup {NoSession},
             NEW method \in Methods, NEW amount \in Amounts,
             \/ \E d \in SaleDocs : SalePayment(p, d, method, s, amount)
             \/ \E t \in SaleReturnDocs : SaleRefund(p, t, method, s, amount)
             \/ \E d \in PurchaseDocs : PurchasePayment(p, d, method, s, amount)
             \/ \E t \in PurchaseReturnDocs : SupplierRefund(p, t, method, s, amount)
      PROVE  PaymentStep
  <2>1. \A t \in ReturnDocs : DocumentOf[t] \in Documents
    BY PaymentsAssumption
  <2>2. ASSUME NEW d \in SaleDocs, SalePayment(p, d, method, s, amount) PROVE PaymentStep
    <3>1. Takes(p, "SALE_PAYMENT", d, NoDocument, method, s, amount)
      BY <2>2, OperationsTake
    <3>2. d \in Documents /\ "SALE_PAYMENT" \in PaymentTypes /\ amount <= SaleOutstanding(d)
      BY <2>2 DEF Documents, PaymentTypes, SalePayment
    <3> QED BY <3>1, <3>2 DEF PaymentStep
  <2>3. ASSUME NEW t \in SaleReturnDocs, SaleRefund(p, t, method, s, amount) PROVE PaymentStep
    <3>1. Takes(p, "SALE_REFUND", DocumentOf[t], t, method, s, amount)
      BY <2>3, OperationsTake
    <3>2. t \in ReturnDocs /\ "SALE_REFUND" \in PaymentTypes /\ amount <= SaleRefundable(t)
      BY <2>3 DEF ReturnDocs, PaymentTypes, SaleRefund
    <3> QED BY <2>1, <3>1, <3>2 DEF PaymentStep
  <2>4. ASSUME NEW d \in PurchaseDocs, PurchasePayment(p, d, method, s, amount) PROVE PaymentStep
    <3>1. Takes(p, "PURCHASE_PAYMENT", d, NoDocument, method, s, amount)
      BY <2>4, OperationsTake
    <3>2. d \in Documents /\ "PURCHASE_PAYMENT" \in PaymentTypes
          /\ amount <= PurchaseOutstanding(d)
      BY <2>4 DEF Documents, PaymentTypes, PurchasePayment
    <3> QED BY <3>1, <3>2 DEF PaymentStep
  <2>5. ASSUME NEW t \in PurchaseReturnDocs, SupplierRefund(p, t, method, s, amount)
        PROVE  PaymentStep
    <3>1. Takes(p, "SUPPLIER_REFUND", DocumentOf[t], t, method, s, amount)
      BY <2>5, OperationsTake
    <3>2. t \in ReturnDocs /\ "SUPPLIER_REFUND" \in PaymentTypes
          /\ amount <= SupplierRefundable(t)
      BY <2>5 DEF ReturnDocs, PaymentTypes, SupplierRefund
    <3> QED BY <2>1, <3>1, <3>2 DEF PaymentStep
  <2> QED BY <1>1, <2>2, <2>3, <2>4, <2>5
<1>2. ASSUME NEW p \in PaymentIds, NEW s \in Sessions \cup {NoSession}, Reverse(p, s)
      PROVE  PaymentStep
  BY <1>2 DEF PaymentStep
<1>3. ASSUME NEW d,
             \/ d \in SaleDocs /\ PostSaleDoc(d)
             \/ d \in PurchaseDocs /\ (ConfirmPurchaseDoc(d) \/ ReceivePurchaseDoc(d)
                                       \/ CancelPurchaseDoc(d))
             \/ d \in ReturnDocs /\ PostReturnDoc(d)
      PROVE  PaymentStep
  BY <1>3 DEF PaymentStep, Documents
<1>4. ASSUME NEW method \in Methods, SetMethodActive(method) PROVE PaymentStep
  BY <1>0, <1>4 DEF PaymentStep, SetMethodActive, cashVars
<1>5. CASE CashNext /\ UNCHANGED <<status, activeMethods, payments>>
  BY <1>0, <1>5 DEF PaymentStep
<1>6. CASE UNCHANGED paymentVars
  BY <1>0, <1>6 DEF PaymentStep, paymentVars, cashVars
<1> QED
  <2>1. CASE \E p \in PaymentIds, s \in Sessions \cup {NoSession} :
                \/ \E method \in Methods, amount \in Amounts :
                      \/ \E d \in SaleDocs : SalePayment(p, d, method, s, amount)
                      \/ \E t \in SaleReturnDocs : SaleRefund(p, t, method, s, amount)
                      \/ \E d \in PurchaseDocs : PurchasePayment(p, d, method, s, amount)
                      \/ \E t \in PurchaseReturnDocs :
                             SupplierRefund(p, t, method, s, amount)
                \/ Reverse(p, s)
    <3>1. PICK p \in PaymentIds, s \in Sessions \cup {NoSession} :
            \/ \E method \in Methods, amount \in Amounts :
                  \/ \E d \in SaleDocs : SalePayment(p, d, method, s, amount)
                  \/ \E t \in SaleReturnDocs : SaleRefund(p, t, method, s, amount)
                  \/ \E d \in PurchaseDocs : PurchasePayment(p, d, method, s, amount)
                  \/ \E t \in PurchaseReturnDocs :
                         SupplierRefund(p, t, method, s, amount)
            \/ Reverse(p, s)
      BY <2>1
    <3> QED BY <3>1, <1>1, <1>2
  <2>2. CASE \/ \E d \in SaleDocs : PostSaleDoc(d)
             \/ \E d \in PurchaseDocs :
                    ConfirmPurchaseDoc(d) \/ ReceivePurchaseDoc(d) \/ CancelPurchaseDoc(d)
             \/ \E t \in ReturnDocs : PostReturnDoc(t)
    BY <2>2, <1>3
  <2>3. CASE \E method \in Methods : SetMethodActive(method)
    BY <2>3, <1>4
  <2>4. PaymentsNext => PaymentStep
    BY <1>5, <2>1, <2>2, <2>3 DEF PaymentsNext
  <2> QED BY <2>4, <1>6

LEMMA RowsInvStep == RowsInv /\ [PaymentsNext]_paymentVars => RowsInv'
BY StepKinds, RecordStep, ReverseStep, StatusStep, AroundStep DEF PaymentStep

LEMMA RowsInvariant == PaymentsSpec => []RowsInv
<1> QED BY RowsInvInit, RowsInvStep, PTL DEF PaymentsSpec

\* Payments, refunds and reversals keep the shape of every row, and a refund
\* names the document of its return.
THEOREM PaymentsTyped == PaymentsSpec => []PaymentsTypeOK
<1>1. RowsInv => PaymentsTypeOK
  BY DEF RowsInv
<1> QED BY <1>1, RowsInvariant, PTL

\* No payment, refund or reversal reaches a session after its closing computed
\* the expected amount, whichever session the payment was first taken in.
THEOREM ClosingSurvivesPayments == PaymentsSpec => []ClosingSnapshotHolds
<1>1. RowsInv => ClosingSnapshotHolds
  BY DEF RowsInv, CashInv
<1> QED BY <1>1, RowsInvariant, PTL

\* No session ever owes more cash than it has, whichever payments, refunds,
\* reversals and manual movements draw on it: each operation that takes cash out
\* checks the whole ledger of the session first.
THEOREM DrawersNeverNegative == PaymentsSpec => []DrawerNeverNegative
<1>1. RowsInv => DrawerNeverNegative
  BY DEF RowsInv, CashInv
<1> QED BY <1>1, RowsInvariant, PTL

\* The cash ledger can be rebuilt from the payments: each cash payment has its
\* movement, each reversal its own, and nothing else names a payment.
THEOREM LedgerMatchesPayments == PaymentsSpec => []CashMatchesPayments
<1>1. RowsInv => CashMatchesPayments
  BY DEF RowsInv
<1> QED BY <1>1, RowsInvariant, PTL

\* Cancelling looks at the payments once; nothing can add one later, not even a
\* refund of a return, because a purchase with returns cannot be cancelled.
THEOREM CancelledPurchasesStayUnpaid == PaymentsSpec => []CancelledPurchaseUnpaid
<1>1. RowsInv => CancelledPurchaseUnpaid
  BY DEF RowsInv
<1> QED BY <1>1, RowsInvariant, PTL

\* A payment is never rewritten: the only thing that ever happens to it is one
\* reversal, which keeps its type, document, method, session and amount.
THEOREM PaymentsWrittenOnce == PaymentsSpec => PaymentsAreFinal
<1> DEFINE Final ==
      \A p \in PaymentIds : payments[p].status # "NONE" =>
          \/ payments'[p] = payments[p]
          \/ /\ payments[p].status = "POSTED"
             /\ \E s \in Sessions \cup {NoSession} :
                    payments'[p] = Reversed(payments[p], s)
<1>1. RowsInv /\ [PaymentsNext]_paymentVars => [Final]_paymentVars
  <2> SUFFICES ASSUME RowsInv, [PaymentsNext]_paymentVars PROVE Final
    OBVIOUS
  <2>0. payments \in [PaymentIds -> PaymentRows]
    BY DEF RowsInv, PaymentsTypeOK
  <2>1. ASSUME NEW q \in PaymentIds, NEW type, NEW d, NEW t, NEW method, NEW s,
               NEW amount, Takes(q, type, d, t, method, s, amount)
        PROVE  Final
    BY <2>0, <2>1 DEF Takes, Record
  <2>2. ASSUME NEW q \in PaymentIds, NEW s \in Sessions \cup {NoSession}, Reverse(q, s)
        PROVE  Final
    <3>1. payments' = [payments EXCEPT ![q] = Reversed(payments[q], s)]
      BY <2>2 DEF Reverse
    <3>2. payments[q].status = "POSTED"
      BY <2>2 DEF Reverse
    <3> QED BY <2>0, <3>1, <3>2
  <2>3. CASE UNCHANGED payments
    BY <2>3
  <2>4. ASSUME NEW d, \/ PostSaleDoc(d) \/ ConfirmPurchaseDoc(d)
                      \/ ReceivePurchaseDoc(d) \/ CancelPurchaseDoc(d) \/ PostReturnDoc(d)
        PROVE  Final
    BY <2>4 DEF PostSaleDoc, ConfirmPurchaseDoc, ReceivePurchaseDoc, CancelPurchaseDoc,
                PostReturnDoc, SetStatus
  <2>5. PaymentStep
    BY StepKinds
  <2> QED BY <2>1, <2>2, <2>3, <2>4, <2>5 DEF PaymentStep
<1>2. PaymentsSpec => [][Final]_paymentVars
  BY <1>1, RowsInvariant, PTL DEF PaymentsSpec
<1> QED BY <1>2 DEF PaymentsAreFinal

-----------------------------------------------------------------------------
(* The amounts paid and refunded *)

LEMMA SmallerOfTwo ==
    ASSUME NEW a \in Int, NEW b \in Int
    PROVE  Min({a, b}) <= a /\ Min({a, b}) <= b /\ Min({a, b}) \in Int
<1>1. CASE a <= b
  <2>1. \E x \in {a, b} : \A y \in {a, b} : x <= y
    BY <1>1
  <2> QED BY <2>1 DEF Min
<1>2. CASE b <= a
  <2>1. \E x \in {a, b} : \A y \in {a, b} : x <= y
    BY <1>2
  <2> QED BY <2>1 DEF Min
<1> QED BY <1>1, <1>2

\* Amounts of payment rows are natural numbers, and so are their sums.
LEMMA AmountsAdd ==
    ASSUME RowsInv, NEW ps \in SUBSET PaymentIds
    PROVE  /\ IsFiniteSet(ps)
           /\ Integral([p \in PaymentIds |-> Amount(p)], ps)
           /\ AmountOf(ps) \in Nat
<1>1. IsFiniteSet(ps)
  BY PaymentsAssumption, FS_Subset
<1>2. \A p \in ps : Amount(p) \in Nat
  <2>1. \A p \in ps : Amount(p) \in Amounts \cup {0}
    BY DEF RowsInv, PaymentsTypeOK, PaymentRows, Amount
  <2> QED BY <2>1, AmountsAreNatural
<1>3. Integral([p \in PaymentIds |-> Amount(p)], ps)
  BY <1>2 DEF Integral
<1>4. SumFunctionOnSet([p \in PaymentIds |-> Amount(p)], ps) \in Nat
  BY <1>1, <1>2, SumNatural
<1> QED BY <1>1, <1>3, <1>4 DEF AmountOf

\* the same sum over the rows a step leaves
AmountNext(ps) == SumFunctionOnSet([p \in PaymentIds |-> payments'[p].amount], ps)

LEMMA OtherAmountsStay ==
    ASSUME RowsInv, NEW p \in PaymentIds, NEW ps \in SUBSET PaymentIds, p \notin ps,
           \A q \in PaymentIds : q # p => payments'[q] = payments[q]
    PROVE  AmountNext(ps) = AmountOf(ps)
<1> DEFINE f == [q \in PaymentIds |-> Amount(q)]
           g == [q \in PaymentIds |-> payments'[q].amount]
<1>1. IsFiniteSet(ps) /\ Integral(f, ps)
  BY AmountsAdd
<1>2. \A q \in ps : f[q] = g[q]
  BY DEF Amount
<1>3. AmountNext(ps) = SumFunctionOnSet(g, ps) /\ AmountOf(ps) = SumFunctionOnSet(f, ps)
  BY DEF AmountNext, AmountOf
<1> HIDE DEF f, g
<1> QED BY <1>1, <1>2, <1>3, SumAgree

LEMMA OneAmountJoins ==
    ASSUME RowsInv, NEW p \in PaymentIds, NEW ps \in SUBSET PaymentIds, p \notin ps,
           \A q \in PaymentIds : q # p => payments'[q] = payments[q],
           payments'[p].amount \in Nat
    PROVE  AmountNext(ps \cup {p}) = AmountOf(ps) + payments'[p].amount
<1> DEFINE f == [q \in PaymentIds |-> Amount(q)]
           g == [q \in PaymentIds |-> payments'[q].amount]
<1>1. IsFiniteSet(ps) /\ Integral(f, ps)
  BY AmountsAdd
<1>2. \A q \in ps : f[q] = g[q]
  BY DEF Amount
<1>3. g[p] = payments'[p].amount
  OBVIOUS
<1>4. /\ AmountNext(ps \cup {p}) = SumFunctionOnSet(g, ps \cup {p})
      /\ AmountNext(ps) = SumFunctionOnSet(g, ps)
  BY DEF AmountNext
<1>5. AmountNext(ps) = AmountOf(ps)
  BY OtherAmountsStay
<1> HIDE DEF f, g
<1>6. Integral(g, ps) /\ g[p] \in Int
  BY <1>1, <1>2, <1>3 DEF Integral
<1>7. SumFunctionOnSet(g, ps \cup {p}) = SumFunctionOnSet(g, ps) + g[p]
  BY <1>1, <1>6, SumAdd
<1> QED BY <1>3, <1>4, <1>5, <1>7

\* A payment that is taken adds to what its document, and its return, has of its
\* type, and to nothing else.
LEMMA TakingAdds ==
    ASSUME RowsInv, NEW p \in PaymentIds, NEW type \in PaymentTypes, NEW d, NEW t,
           NEW method, NEW s, NEW amount \in Amounts, Takes(p, type, d, t, method, s, amount)
    PROVE  /\ \A ty, e : Paid(ty, e)' = Paid(ty, e) + IF ty = type /\ e = d THEN amount ELSE 0
           /\ \A ty, r : Refunded(ty, r)' =
                  Refunded(ty, r) + IF ty = type /\ r = t THEN amount ELSE 0
<1>1. payments \in [PaymentIds -> PaymentRows] /\ payments[p].status = "NONE"
  BY DEF RowsInv, PaymentsTypeOK, Takes, Record
<1>2. /\ payments'[p].status = "POSTED" /\ payments'[p].type = type
      /\ payments'[p].document = d /\ payments'[p].return = t
      /\ payments'[p].amount = amount
      /\ \A q \in PaymentIds : q # p => payments'[q] = payments[q]
  BY <1>1 DEF Takes, Record
<1>3. amount \in Nat
  BY AmountsAreNatural
<1>4. \A ps \in SUBSET PaymentIds : p \notin ps =>
          /\ AmountNext(ps) = AmountOf(ps) /\ AmountOf(ps) \in Nat
          /\ AmountNext(ps \cup {p}) = AmountOf(ps) + amount
  BY <1>2, <1>3, OtherAmountsStay, OneAmountJoins, AmountsAdd
<1>5. ASSUME NEW ty, NEW e
      PROVE  Paid(ty, e)' = Paid(ty, e) + IF ty = type /\ e = d THEN amount ELSE 0
  <2>1. Paid(ty, e)' = AmountNext(Of(ty, e)') /\ Paid(ty, e) = AmountOf(Of(ty, e))
    BY DEF Paid, AmountOf, AmountNext, Amount
  <2>2. Of(ty, e) \in SUBSET PaymentIds /\ p \notin Of(ty, e)
    BY <1>1 DEF Of, Posted
  <2>3. Of(ty, e)' = IF ty = type /\ e = d THEN Of(ty, e) \cup {p} ELSE Of(ty, e)
    BY <1>1, <1>2 DEF Of, Posted
  <2> QED BY <1>4, <2>1, <2>2, <2>3
<1>6. ASSUME NEW ty, NEW r
      PROVE  Refunded(ty, r)' = Refunded(ty, r) + IF ty = type /\ r = t THEN amount ELSE 0
  <2>1. /\ Refunded(ty, r)' = AmountNext(ForReturn(ty, r)')
        /\ Refunded(ty, r) = AmountOf(ForReturn(ty, r))
    BY DEF Refunded, AmountOf, AmountNext, Amount
  <2>2. ForReturn(ty, r) \in SUBSET PaymentIds /\ p \notin ForReturn(ty, r)
    BY <1>1 DEF ForReturn, Posted
  <2>3. ForReturn(ty, r)' =
            IF ty = type /\ r = t THEN ForReturn(ty, r) \cup {p} ELSE ForReturn(ty, r)
    BY <1>1, <1>2 DEF ForReturn, Posted
  <2> QED BY <1>4, <2>1, <2>2, <2>3
<1> QED BY <1>5, <1>6

\* A reversal takes away as much.
LEMMA ReversingTakesAway ==
    ASSUME RowsInv, NEW p \in PaymentIds, NEW s, Reverse(p, s)
    PROVE  LET row == payments[p] IN
           /\ row.amount \in Nat
           /\ \A ty, e : Paid(ty, e)' = Paid(ty, e) -
                  IF ty = row.type /\ e = row.document THEN row.amount ELSE 0
           /\ \A ty, r : Refunded(ty, r)' = Refunded(ty, r) -
                  IF ty = row.type /\ r = row.return THEN row.amount ELSE 0
<1> DEFINE row == payments[p]
<1>1. payments \in [PaymentIds -> PaymentRows] /\ row \in PaymentRows
  BY DEF RowsInv, PaymentsTypeOK
<1>2. row.status = "POSTED"
  BY DEF Reverse
<1>3. /\ payments'[p].status = "REVERSED"
      /\ \A q \in PaymentIds : q # p => payments'[q] = payments[q]
  BY <1>1 DEF Reverse, Reversed, PaymentRows
<1>4. row.amount \in Nat
  <2>1. row.amount \in Amounts \cup {0}
    BY <1>1 DEF PaymentRows
  <2> QED BY <2>1, AmountsAreNatural
<1>5. \A ps \in SUBSET PaymentIds : p \notin ps =>
          /\ AmountNext(ps) = AmountOf(ps) /\ AmountOf(ps) \in Nat
          /\ AmountOf(ps \cup {p}) = AmountOf(ps) + row.amount
  <2> SUFFICES ASSUME NEW ps \in SUBSET PaymentIds, p \notin ps
               PROVE  /\ AmountNext(ps) = AmountOf(ps) /\ AmountOf(ps) \in Nat
                      /\ AmountOf(ps \cup {p}) = AmountOf(ps) + row.amount
    OBVIOUS
  <2>1. AmountNext(ps) = AmountOf(ps) /\ AmountOf(ps) \in Nat
    BY <1>3, OtherAmountsStay, AmountsAdd
  <2> DEFINE f == [q \in PaymentIds |-> Amount(q)]
  <2>2. IsFiniteSet(ps) /\ Integral(f, ps)
    BY AmountsAdd
  <2>3. f[p] = row.amount /\ f[p] \in Int
    BY <1>4 DEF Amount
  <2>4. /\ AmountOf(ps \cup {p}) = SumFunctionOnSet(f, ps \cup {p})
        /\ AmountOf(ps) = SumFunctionOnSet(f, ps)
    BY DEF AmountOf
  <2> HIDE DEF f, row
  <2>5. SumFunctionOnSet(f, ps \cup {p}) = SumFunctionOnSet(f, ps) + f[p]
    BY <2>2, <2>3, SumAdd
  <2> QED BY <2>1, <2>3, <2>4, <2>5
<1>6. ASSUME NEW ty, NEW e
      PROVE  Paid(ty, e)' = Paid(ty, e) -
                 IF ty = row.type /\ e = row.document THEN row.amount ELSE 0
  <2>1. Paid(ty, e)' = AmountNext(Of(ty, e)') /\ Paid(ty, e) = AmountOf(Of(ty, e))
    BY DEF Paid, AmountOf, AmountNext, Amount
  <2>2. Of(ty, e)' \in SUBSET PaymentIds /\ p \notin Of(ty, e)'
    BY <1>3 DEF Of, Posted
  <2>3. Of(ty, e) = IF ty = row.type /\ e = row.document
                    THEN Of(ty, e)' \cup {p} ELSE Of(ty, e)'
    BY <1>2, <1>3 DEF Of, Posted
  <2> HIDE DEF row
  <2> QED BY <1>4, <1>5, <2>1, <2>2, <2>3
<1>7. ASSUME NEW ty, NEW r
      PROVE  Refunded(ty, r)' = Refunded(ty, r) -
                 IF ty = row.type /\ r = row.return THEN row.amount ELSE 0
  <2>1. /\ Refunded(ty, r)' = AmountNext(ForReturn(ty, r)')
        /\ Refunded(ty, r) = AmountOf(ForReturn(ty, r))
    BY DEF Refunded, AmountOf, AmountNext, Amount
  <2>2. ForReturn(ty, r)' \in SUBSET PaymentIds /\ p \notin ForReturn(ty, r)'
    BY <1>3 DEF ForReturn, Posted
  <2>3. ForReturn(ty, r) = IF ty = row.type /\ r = row.return
                           THEN ForReturn(ty, r)' \cup {p} ELSE ForReturn(ty, r)'
    BY <1>2, <1>3 DEF ForReturn, Posted
  <2> HIDE DEF row
  <2> QED BY <1>4, <1>5, <2>1, <2>2, <2>3
<1> QED BY <1>4, <1>6, <1>7

LEMMA PaidIsNatural ==
    ASSUME RowsInv
    PROVE  /\ \A type, d : Paid(type, d) \in Nat
           /\ \A type, t : Refunded(type, t) \in Nat
BY AmountsAdd DEF Paid, Refunded, Of, ForReturn, Posted

LEMMA ReturnsAreWorthLess ==
    ASSUME NEW d \in Documents
    PROVE  /\ ReturnedValue(d) \in Nat /\ ReturnedValue(d) <= Total[d]
           /\ IsFiniteSet(PostedReturnDocs(d))
<1> DEFINE all == {t \in ReturnDocs : DocumentOf[t] = d}
<1>1. /\ PostedReturnDocs(d) \in SUBSET all
      /\ IsFiniteSet(all) /\ IsFiniteSet(PostedReturnDocs(d))
  BY PaymentsAssumption, FS_Subset DEF PostedReturnDocs
<1>2. \A t \in all : ReturnValue[t] \in Nat
  BY PaymentsAssumption
<1>3. Integral(ReturnValue, all)
  BY <1>2 DEF Integral
<1>4. \A t \in PostedReturnDocs(d) : ReturnValue[t] \in Nat
  BY <1>2 DEF PostedReturnDocs
<1>5. SumFunctionOnSet(ReturnValue, all) <= Total[d]
  BY PaymentsAssumption DEF Worth
<1>6. Total[d] \in Nat
  BY PaymentsAssumption
<1> HIDE DEF all
<1>7. SumFunctionOnSet(ReturnValue, PostedReturnDocs(d)) \in Nat
  BY <1>1, <1>4, SumNatural
<1>8. SumFunctionOnSet(ReturnValue, PostedReturnDocs(d)) <= SumFunctionOnSet(ReturnValue, all)
  BY <1>1, <1>2, <1>3, SumSubset
<1>9. SumFunctionOnSet(ReturnValue, all) \in Int
  BY <1>1, <1>3, SumInt
<1> QED BY <1>1, <1>5, <1>6, <1>7, <1>8, <1>9 DEF ReturnedValue, Worth

\* What a supplier gave back for a purchase is what it gave back for the posted
\* returns of the purchase.
LEMMA RefundsAreOfPostedReturns ==
    ASSUME RowsInv, NEW d \in PurchaseDocs
    PROVE  Paid("SUPPLIER_REFUND", d) =
               SumFunctionOnSet([t \in ReturnDocs |-> Refunded("SUPPLIER_REFUND", t)],
                                PostedReturnDocs(d))
<1> DEFINE S == Of("SUPPLIER_REFUND", d)
           T == PostedReturnDocs(d)
           f == [p \in PaymentIds |-> Amount(p)]
           k == [p \in PaymentIds |-> payments[p].return]
           g == [t \in T |-> SumFunctionOnSet(f, {x \in S : k[x] = t})]
           h == [t \in ReturnDocs |-> Refunded("SUPPLIER_REFUND", t)]
<1>1. S \in SUBSET PaymentIds
  BY DEF Of, Posted
<1>2. IsFiniteSet(S) /\ Integral(f, S) /\ SumFunctionOnSet(f, S) \in Int
  BY <1>1, AmountsAdd, SumInt
<1>3. d \in Documents /\ IsFiniteSet(T)
  BY ReturnsAreWorthLess DEF Documents
<1>4. \A p \in PaymentIds :
          payments[p].status = "POSTED" /\ payments[p].type = "SUPPLIER_REFUND" =>
              /\ payments[p].return \in ReturnDocs
              /\ payments[p].document = DocumentOf[payments[p].return]
              /\ status[payments[p].return] = "POSTED"
  BY DEF RowsInv, RowsFit, Fits, GivenBack
<1>5. \A x \in S : k[x] \in T
  BY <1>4 DEF Of, Posted, PostedReturnDocs
<1>6. \A t \in T : t \in ReturnDocs /\ DocumentOf[t] = d
  BY DEF PostedReturnDocs
<1>7. \A t \in T : {x \in S : k[x] = t} = ForReturn("SUPPLIER_REFUND", t)
  BY <1>4, <1>6 DEF Of, Posted, ForReturn
<1>8. \A t \in T : g[t] = h[t]
  BY <1>6, <1>7 DEF Refunded, AmountOf
<1>9. SumFunctionOnSet(f, S) = SumFunctionOnSet(g, T)
  <2> HIDE DEF S, T, f, k
  <2> QED BY <1>2, <1>3, <1>5, SumByGroups
<1>10. \A t \in T : h[t] \in Int
  BY <1>6, PaidIsNatural
<1>11. SumFunctionOnSet(h, T) = SumFunctionOnSet(g, T)
  <2> HIDE DEF T, g, h
  <2>1. Integral(h, T)
    BY <1>10 DEF Integral
  <2> QED BY <1>3, <1>8, <2>1, SumAgree
<1> QED BY <1>9, <1>11 DEF Paid, AmountOf

\* Neither side of the business collects too much or gives too much back.
SettledInv ==
    /\ RowsInv
    /\ SaleSettlementSound
    /\ \A d \in PurchaseDocs : Paid("PURCHASE_PAYMENT", d) <= Total[d] /\ NetPaid(d) >= 0
    /\ \A t \in PurchaseReturnDocs :
           Refunded("SUPPLIER_REFUND", t) <= IF status[t] = "POSTED" THEN ReturnValue[t] ELSE 0

\* The credit of a purchase is within what its returns can still be asked for:
\* returns lower the obligation by their value, refunds use up both alike.
LEMMA CreditWithinReach ==
    ASSUME SettledInv, NEW d \in PurchaseDocs
    PROVE  LET rest == SumFunctionOnSet(
                           [t \in ReturnDocs |->
                               ReturnValue[t] - Refunded("SUPPLIER_REFUND", t)],
                           PostedReturnDocs(d))
           IN  /\ SupplierCredit(d) <= rest
               /\ Paid("SUPPLIER_REFUND", d) <= ReturnedValue(d)
               /\ Obligation(d) = Total[d] - ReturnedValue(d)
<1> DEFINE T == PostedReturnDocs(d)
           f == [t \in ReturnDocs |-> ReturnValue[t] - Refunded("SUPPLIER_REFUND", t)]
           h == [t \in ReturnDocs |-> Refunded("SUPPLIER_REFUND", t)]
           R == Paid("SUPPLIER_REFUND", d)
           P == Paid("PURCHASE_PAYMENT", d)
           V == ReturnedValue(d)
<1>0. RowsInv /\ d \in Documents
  BY DEF SettledInv, Documents
<1>1. IsFiniteSet(T) /\ V \in Nat /\ V <= Total[d] /\ Total[d] \in Nat
  BY <1>0, ReturnsAreWorthLess, PaymentsAssumption
<1>2. R \in Nat /\ P \in Nat /\ P <= Total[d]
  BY <1>0, PaidIsNatural DEF SettledInv
<1>3. \A t \in T : t \in PurchaseReturnDocs /\ t \in ReturnDocs /\ status[t] = "POSTED"
  BY PaymentsAssumption DEF PostedReturnDocs, ReturnDocs
<1>4. \A t \in T : h[t] \in Nat /\ ReturnValue[t] \in Nat
  BY <1>0, <1>3, PaidIsNatural, PaymentsAssumption
<1>5. \A t \in T : h[t] <= ReturnValue[t] /\ f[t] = ReturnValue[t] - h[t]
  BY <1>3 DEF SettledInv
<1>6. \A t \in T : f[t] \in Nat /\ ReturnValue[t] = f[t] + h[t]
  <2> HIDE DEF T, f, h
  <2> QED BY <1>4, <1>5
<1>7. R = SumFunctionOnSet(h, T)
  BY <1>0, RefundsAreOfPostedReturns
<1>8. V = SumFunctionOnSet(ReturnValue, T)
  BY DEF ReturnedValue, Worth
<1>9. V = SumFunctionOnSet(f, T) + R /\ SumFunctionOnSet(f, T) \in Nat
  <2> HIDE DEF T, f, h, R, V
  <2>1. Integral(f, T) /\ Integral(h, T)
    BY <1>4, <1>6 DEF Integral
  <2>2. SumFunctionOnSet(ReturnValue, T) = SumFunctionOnSet(f, T) + SumFunctionOnSet(h, T)
    BY <1>1, <1>6, <2>1, SumOfSums
  <2>3. SumFunctionOnSet(f, T) \in Nat
    BY <1>1, <1>6, SumNatural
  <2> QED BY <1>7, <1>8, <2>2, <2>3
<1>10. Obligation(d) = Total[d] - V
  BY <1>1 DEF Obligation, NonNegative
<1>11. SupplierCredit(d) = NonNegative((P - R) - (Total[d] - V))
  BY <1>10 DEF SupplierCredit, NetPaid
<1>12. SupplierCredit(d) <= SumFunctionOnSet(f, T)
  <2> DEFINE F == SumFunctionOnSet(f, T)
  <2> HIDE DEF R, P, V, F
  <2>1. (P - R) - (Total[d] - V) <= F /\ F >= 0
    BY <1>1, <1>2, <1>9 DEF F
  <2> QED BY <1>1, <1>2, <1>11, <2>1 DEF NonNegative, F
<1>13. R <= V
  <2> HIDE DEF R, V
  <2> QED BY <1>2, <1>9
<1> QED BY <1>10, <1>12, <1>13

LEMMA SettledMeansSound ==
    ASSUME SettledInv PROVE SaleSettlementSound /\ PurchaseSettlementSound
<1>1. \A d \in PurchaseDocs :
          SupplierCredit(d) <=
              SumFunctionOnSet(
                  [t \in ReturnDocs |-> ReturnValue[t] - Refunded("SUPPLIER_REFUND", t)],
                  PostedReturnDocs(d))
  BY CreditWithinReach
<1> QED BY <1>1 DEF SettledInv, PurchaseSettlementSound

LEMMA TakeSettled ==
    ASSUME SettledInv, NEW p \in PaymentIds, NEW type \in PaymentTypes,
           NEW d \in Documents, NEW t, NEW method \in Methods,
           NEW s \in Sessions \cup {NoSession}, NEW amount \in Amounts,
           Takes(p, type, d, t, method, s, amount),
           type = "SALE_PAYMENT" => amount <= SaleOutstanding(d),
           type = "SALE_REFUND" => amount <= SaleRefundable(t),
           type = "PURCHASE_PAYMENT" => amount <= PurchaseOutstanding(d),
           type = "SUPPLIER_REFUND" => amount <= SupplierRefundable(t)
    PROVE  SettledInv'
<1>1. RowsInv'
  BY RecordStep DEF SettledInv
<1>2. amount \in Nat /\ amount > 0
  BY AmountsAreNatural
<1>3. RowsInv /\ status' = status
  BY DEF SettledInv, Takes, Record
<1>4. /\ \A ty, e : Paid(ty, e)' = Paid(ty, e) + IF ty = type /\ e = d THEN amount ELSE 0
      /\ \A ty, r : Refunded(ty, r)' =
             Refunded(ty, r) + IF ty = type /\ r = t THEN amount ELSE 0
      /\ \A ty, e : Paid(ty, e) \in Nat
      /\ \A ty, r : Refunded(ty, r) \in Nat
  BY <1>3, TakingAdds, PaidIsNatural
<1>5. /\ \A e \in Documents : Total[e] \in Nat
      /\ \A r \in ReturnDocs : ReturnValue[r] \in Nat
  BY PaymentsAssumption
<1>6. CASE type = "SALE_PAYMENT"
  <2>1. d \in SaleDocs
    BY <1>6 DEF Takes, Fits
  <2>2. Paid("SALE_PAYMENT", d) + amount <= Total[d]
    <3>1. amount <= NonNegative(Total[d] - Paid("SALE_PAYMENT", d))
      BY <1>6 DEF SaleOutstanding
    <3> QED BY <1>2, <1>4, <1>5, <3>1 DEF NonNegative
  <2>3. SaleSettlementSound'
    BY <1>2, <1>3, <1>4, <1>6, <2>2 DEF SettledInv, SaleSettlementSound
  <2>4. /\ \A e : Paid("PURCHASE_PAYMENT", e)' = Paid("PURCHASE_PAYMENT", e)
        /\ \A e : Paid("SUPPLIER_REFUND", e)' = Paid("SUPPLIER_REFUND", e)
        /\ \A r : Refunded("SUPPLIER_REFUND", r)' = Refunded("SUPPLIER_REFUND", r)
    BY <1>4, <1>6
  <2> QED BY <1>1, <1>3, <2>3, <2>4 DEF SettledInv, NetPaid
<1>7. CASE type = "SALE_REFUND"
  <2>1. d \in SaleDocs /\ t \in ReturnDocs /\ d = DocumentOf[t] /\ status[t] = "POSTED"
    BY <1>7 DEF Takes, Fits, GivenBack
  <2>2. /\ Refunded("SALE_REFUND", t) + amount <= ReturnValue[t]
        /\ Paid("SALE_REFUND", d) + amount <= Paid("SALE_PAYMENT", d)
    <3> DEFINE a == NonNegative(ReturnValue[t] - Refunded("SALE_REFUND", t))
               b == NonNegative(Paid("SALE_PAYMENT", d) - Paid("SALE_REFUND", d))
    <3>1. amount <= Min({a, b})
      BY <1>7, <2>1 DEF SaleRefundable
    <3>2. a \in Int /\ b \in Int
      BY <1>4, <1>5, <2>1 DEF NonNegative
    <3>3. amount <= a /\ amount <= b
      <4> HIDE DEF a, b
      <4>1. Min({a, b}) <= a /\ Min({a, b}) <= b /\ Min({a, b}) \in Int
        BY <3>2, SmallerOfTwo
      <4> QED BY <1>2, <3>1, <3>2, <4>1
    <3> QED BY <1>2, <1>4, <1>5, <2>1, <3>3 DEF NonNegative
  <2>3. SaleSettlementSound'
    <3>1. ASSUME NEW e \in SaleDocs
          PROVE  /\ Paid("SALE_PAYMENT", e)' <= Total[e]
                 /\ Paid("SALE_REFUND", e)' <= Paid("SALE_PAYMENT", e)'
      BY <1>4, <1>7, <2>2 DEF SettledInv, SaleSettlementSound
    <3>2. ASSUME NEW r \in SaleReturnDocs
          PROVE  Refunded("SALE_REFUND", r)' <=
                     IF status'[r] = "POSTED" THEN ReturnValue[r] ELSE 0
      BY <1>3, <1>4, <1>7, <2>1, <2>2 DEF SettledInv, SaleSettlementSound
    <3> QED BY <3>1, <3>2 DEF SaleSettlementSound
  <2>4. /\ \A e : Paid("PURCHASE_PAYMENT", e)' = Paid("PURCHASE_PAYMENT", e)
        /\ \A e : Paid("SUPPLIER_REFUND", e)' = Paid("SUPPLIER_REFUND", e)
        /\ \A r : Refunded("SUPPLIER_REFUND", r)' = Refunded("SUPPLIER_REFUND", r)
    BY <1>4, <1>7
  <2> QED BY <1>1, <1>3, <2>3, <2>4 DEF SettledInv, NetPaid
<1>8. CASE type = "PURCHASE_PAYMENT"
  <2>1. d \in PurchaseDocs
    BY <1>8 DEF Takes, Fits
  <2>2. SaleSettlementSound'
    <3>1. /\ \A e : Paid("SALE_PAYMENT", e)' = Paid("SALE_PAYMENT", e)
          /\ \A e : Paid("SALE_REFUND", e)' = Paid("SALE_REFUND", e)
          /\ \A r : Refunded("SALE_REFUND", r)' = Refunded("SALE_REFUND", r)
      BY <1>4, <1>8
    <3> QED BY <1>3, <3>1 DEF SettledInv, SaleSettlementSound
  <2>3. Paid("PURCHASE_PAYMENT", d) + amount <= Total[d]
    <3> DEFINE P == Paid("PURCHASE_PAYMENT", d)
               R == Paid("SUPPLIER_REFUND", d)
               V == ReturnedValue(d)
    <3>1. R <= V /\ Obligation(d) = Total[d] - V
      BY <2>1, CreditWithinReach
    <3>2. V \in Nat
      BY ReturnsAreWorthLess
    <3>3. amount <= NonNegative((Total[d] - V) - (P - R))
      BY <1>8, <3>1 DEF PurchaseOutstanding, NetPaid
    <3>4. P \in Nat /\ R \in Nat /\ Total[d] \in Nat
      BY <1>4, <1>5
    <3> HIDE DEF P, R, V
    <3>5. P + amount <= Total[d]
      BY <1>2, <3>1, <3>2, <3>3, <3>4 DEF NonNegative
    <3> QED BY <3>5 DEF P
  <2>4. ASSUME NEW e \in PurchaseDocs
        PROVE  Paid("PURCHASE_PAYMENT", e)' <= Total[e] /\ NetPaid(e)' >= 0
    <3>1. Paid("SUPPLIER_REFUND", e)' = Paid("SUPPLIER_REFUND", e)
      BY <1>4, <1>8
    <3>2. /\ Paid("PURCHASE_PAYMENT", e)' >= Paid("PURCHASE_PAYMENT", e)
          /\ Paid("PURCHASE_PAYMENT", e)' <= Total[e]
          /\ Paid("PURCHASE_PAYMENT", e)' \in Nat
      BY <1>2, <1>4, <1>8, <2>3 DEF SettledInv
    <3>3. Paid("PURCHASE_PAYMENT", e) - Paid("SUPPLIER_REFUND", e) >= 0
      BY DEF SettledInv, NetPaid
    <3>4. Paid("PURCHASE_PAYMENT", e)' - Paid("SUPPLIER_REFUND", e)' >= 0
      BY <1>4, <3>1, <3>2, <3>3
    <3> QED BY <3>2, <3>4 DEF NetPaid
  <2>5. \A r : Refunded("SUPPLIER_REFUND", r)' = Refunded("SUPPLIER_REFUND", r)
    BY <1>4, <1>8
  <2> QED BY <1>1, <1>3, <2>2, <2>4, <2>5 DEF SettledInv
<1>9. CASE type = "SUPPLIER_REFUND"
  <2>1. /\ d \in PurchaseDocs /\ t \in ReturnDocs /\ d = DocumentOf[t]
        /\ status[t] = "POSTED"
    BY <1>9 DEF Takes, Fits, GivenBack
  <2>2. SaleSettlementSound'
    <3>1. /\ \A e : Paid("SALE_PAYMENT", e)' = Paid("SALE_PAYMENT", e)
          /\ \A e : Paid("SALE_REFUND", e)' = Paid("SALE_REFUND", e)
          /\ \A r : Refunded("SALE_REFUND", r)' = Refunded("SALE_REFUND", r)
      BY <1>4, <1>9
    <3> QED BY <1>3, <3>1 DEF SettledInv, SaleSettlementSound
  <2>3. /\ Refunded("SUPPLIER_REFUND", t) + amount <= ReturnValue[t]
        /\ Paid("SUPPLIER_REFUND", d) + amount <= Paid("PURCHASE_PAYMENT", d)
    <3> DEFINE P == Paid("PURCHASE_PAYMENT", d)
               R == Paid("SUPPLIER_REFUND", d)
               O == Obligation(d)
               a == NonNegative(ReturnValue[t] - Refunded("SUPPLIER_REFUND", t))
               b == NonNegative((P - R) - O)
    <3>1. amount <= Min({a, b})
      BY <1>9, <2>1 DEF SupplierRefundable, SupplierCredit, NetPaid
    <3>2. O \in Nat
      <4>1. O = Total[d] - ReturnedValue(d)
        BY <2>1, CreditWithinReach
      <4> HIDE DEF O
      <4> QED BY <1>5, <4>1, ReturnsAreWorthLess
    <3>3. P \in Nat /\ R \in Nat
      BY <1>4
    <3>4. a \in Int /\ b \in Int
      <4> HIDE DEF P, R, O
      <4> QED BY <1>4, <1>5, <2>1, <3>2, <3>3 DEF NonNegative
    <3>5. amount <= a /\ amount <= b
      <4> HIDE DEF a, b
      <4>1. Min({a, b}) <= a /\ Min({a, b}) <= b /\ Min({a, b}) \in Int
        BY <3>4, SmallerOfTwo
      <4> QED BY <1>2, <3>1, <3>4, <4>1
    <3>6. Refunded("SUPPLIER_REFUND", t) + amount <= ReturnValue[t]
      BY <1>2, <1>4, <1>5, <2>1, <3>5 DEF NonNegative
    <3>7. R + amount <= P
      <4> HIDE DEF P, R, O
      <4> QED BY <1>2, <3>2, <3>3, <3>5 DEF NonNegative
    <3> QED BY <3>6, <3>7
  <2>4. ASSUME NEW e \in PurchaseDocs
        PROVE  Paid("PURCHASE_PAYMENT", e)' <= Total[e] /\ NetPaid(e)' >= 0
    <3>1. Paid("PURCHASE_PAYMENT", e)' = Paid("PURCHASE_PAYMENT", e)
      BY <1>4, <1>9
    <3>2. Paid("PURCHASE_PAYMENT", e) - Paid("SUPPLIER_REFUND", e)' >= 0
      BY <1>2, <1>4, <1>9, <2>3 DEF SettledInv, NetPaid
    <3> QED BY <3>1, <3>2 DEF SettledInv, NetPaid
  <2>5. ASSUME NEW r \in PurchaseReturnDocs
        PROVE  Refunded("SUPPLIER_REFUND", r)' <=
                   IF status'[r] = "POSTED" THEN ReturnValue[r] ELSE 0
    BY <1>3, <1>4, <1>9, <2>1, <2>3 DEF SettledInv
  <2> QED BY <1>1, <2>2, <2>4, <2>5 DEF SettledInv
<1> QED BY <1>6, <1>7, <1>8, <1>9 DEF PaymentTypes

\* Reversing a payment keeps the refunds of its document covered; reversing a
\* refund only lowers what was given back.
LEMMA ReverseSettled ==
    ASSUME SettledInv, NEW p \in PaymentIds, NEW s \in Sessions \cup {NoSession},
           Reverse(p, s)
    PROVE  SettledInv'
<1> DEFINE row == payments[p]
<1>1. RowsInv /\ RowsInv'
  BY ReverseStep DEF SettledInv
<1>2. /\ row.amount \in Nat
      /\ \A ty, e : Paid(ty, e)' = Paid(ty, e) -
             IF ty = row.type /\ e = row.document THEN row.amount ELSE 0
      /\ \A ty, r : Refunded(ty, r)' = Refunded(ty, r) -
             IF ty = row.type /\ r = row.return THEN row.amount ELSE 0
  BY <1>1, ReversingTakesAway
<1>3. /\ \A ty, e : Paid(ty, e) \in Nat
      /\ \A ty, r : Refunded(ty, r) \in Nat
  BY <1>1, PaidIsNatural
<1>4. KeepsRefundsCovered(row) /\ status' = status
  BY DEF Reverse
<1>5. \A r \in ReturnDocs : ReturnValue[r] \in Nat
  BY PaymentsAssumption
<1>6. /\ \A d \in Documents : Total[d] \in Nat
      /\ SaleDocs \subseteq Documents /\ PurchaseDocs \subseteq Documents
      /\ SaleReturnDocs \subseteq ReturnDocs /\ PurchaseReturnDocs \subseteq ReturnDocs
  BY PaymentsAssumption DEF Documents, ReturnDocs
<1> HIDE DEF row
<1>7. SaleSettlementSound'
  <2>1. ASSUME NEW d \in SaleDocs
        PROVE  /\ Paid("SALE_PAYMENT", d)' <= Total[d]
               /\ Paid("SALE_REFUND", d)' <= Paid("SALE_PAYMENT", d)'
    <3>1. /\ Paid("SALE_PAYMENT", d) <= Total[d]
          /\ Paid("SALE_REFUND", d) <= Paid("SALE_PAYMENT", d)
      BY DEF SettledInv, SaleSettlementSound
    <3>2. Total[d] \in Nat
      BY <1>6
    <3>3. CASE row.type = "SALE_PAYMENT" /\ d = row.document
      <4>1. Paid("SALE_PAYMENT", d) - row.amount >= Paid("SALE_REFUND", d)
        BY <1>4, <3>3 DEF KeepsRefundsCovered
      <4>2. /\ Paid("SALE_PAYMENT", d)' = Paid("SALE_PAYMENT", d) - row.amount
            /\ Paid("SALE_REFUND", d)' = Paid("SALE_REFUND", d)
        BY <1>2, <1>3, <3>3
      <4> QED BY <1>2, <1>3, <3>1, <3>2, <4>1, <4>2
    <3>4. CASE ~(row.type = "SALE_PAYMENT" /\ d = row.document)
      <4>1. /\ Paid("SALE_PAYMENT", d)' = Paid("SALE_PAYMENT", d)
            /\ Paid("SALE_REFUND", d)' <= Paid("SALE_REFUND", d)
            /\ Paid("SALE_REFUND", d)' \in Int
        BY <1>2, <1>3, <3>4
      <4> QED BY <1>3, <3>1, <4>1
    <3> QED BY <3>3, <3>4
  <2>2. ASSUME NEW r \in SaleReturnDocs
        PROVE  Refunded("SALE_REFUND", r)' <=
                   IF status'[r] = "POSTED" THEN ReturnValue[r] ELSE 0
    <3>1. Refunded("SALE_REFUND", r) <= IF status[r] = "POSTED" THEN ReturnValue[r] ELSE 0
      BY DEF SettledInv, SaleSettlementSound
    <3>2. ReturnValue[r] \in Nat
      BY <1>5, <1>6
    <3> QED BY <1>2, <1>3, <1>4, <3>1, <3>2
  <2> QED BY <2>1, <2>2 DEF SaleSettlementSound
<1>8. ASSUME NEW d \in PurchaseDocs
      PROVE  Paid("PURCHASE_PAYMENT", d)' <= Total[d] /\ NetPaid(d)' >= 0
  <2> DEFINE P == Paid("PURCHASE_PAYMENT", d)
             R == Paid("SUPPLIER_REFUND", d)
             P2 == Paid("PURCHASE_PAYMENT", d)'
             R2 == Paid("SUPPLIER_REFUND", d)'
  <2>1. P <= Total[d] /\ P - R >= 0 /\ P \in Nat /\ R \in Nat /\ Total[d] \in Nat
    BY <1>3, <1>6 DEF SettledInv, NetPaid
  <2>2. P2 <= Total[d] /\ P2 - R2 >= 0
    <3>1. CASE row.type = "PURCHASE_PAYMENT" /\ d = row.document
      <4>1. P - row.amount >= R
        BY <1>4, <3>1 DEF KeepsRefundsCovered
      <4>2. P2 = P - row.amount /\ R2 = R
        BY <1>2, <1>3, <3>1
      <4> HIDE DEF P, R, P2, R2
      <4> QED BY <1>2, <2>1, <4>1, <4>2
    <3>2. CASE ~(row.type = "PURCHASE_PAYMENT" /\ d = row.document)
      <4>1. P2 = P /\ R2 <= R /\ R2 \in Int
        BY <1>2, <1>3, <3>2
      <4> HIDE DEF P, R, P2, R2
      <4> QED BY <2>1, <4>1
    <3> QED BY <3>1, <3>2
  <2> QED BY <2>2 DEF NetPaid
<1>9. ASSUME NEW r \in PurchaseReturnDocs
      PROVE  Refunded("SUPPLIER_REFUND", r)' <=
                 IF status'[r] = "POSTED" THEN ReturnValue[r] ELSE 0
  <2>1. Refunded("SUPPLIER_REFUND", r) <= IF status[r] = "POSTED" THEN ReturnValue[r] ELSE 0
    BY DEF SettledInv
  <2>2. ReturnValue[r] \in Nat
    BY <1>5, <1>6
  <2> QED BY <1>2, <1>3, <1>4, <2>1, <2>2
<1> QED BY <1>1, <1>7, <1>8, <1>9 DEF SettledInv

\* Steps that leave the payments alone, and never take a return back.
LEMMA OtherSettled ==
    ASSUME SettledInv, RowsInv', UNCHANGED payments,
           \A t \in ReturnDocs : status[t] = "POSTED" => status'[t] = "POSTED"
    PROVE  SettledInv'
<1>1. /\ \A ty, e : Paid(ty, e)' = Paid(ty, e)
      /\ \A ty, r : Refunded(ty, r)' = Refunded(ty, r)
  BY DEF Paid, Refunded, AmountOf, Amount, Of, ForReturn, Posted
<1>2. \A t \in ReturnDocs : ReturnValue[t] \in Nat
  BY PaymentsAssumption
<1>3. \A ty, r : Refunded(ty, r) \in Nat
  BY PaidIsNatural DEF SettledInv
<1>4. ASSUME NEW t \in ReturnDocs, NEW ty,
             Refunded(ty, t) <= IF status[t] = "POSTED" THEN ReturnValue[t] ELSE 0
      PROVE  Refunded(ty, t)' <= IF status'[t] = "POSTED" THEN ReturnValue[t] ELSE 0
  <2>1. Refunded(ty, t)' = Refunded(ty, t) /\ Refunded(ty, t) \in Nat
        /\ ReturnValue[t] \in Nat
    BY <1>1, <1>2, <1>3
  <2>2. CASE status[t] = "POSTED"
    BY <1>4, <2>1, <2>2
  <2>3. CASE status[t] # "POSTED"
    BY <1>4, <2>1, <2>3
  <2> QED BY <2>2, <2>3
<1>5. SaleSettlementSound'
  BY <1>1, <1>4 DEF SettledInv, SaleSettlementSound, ReturnDocs
<1>6. \A d \in PurchaseDocs : Paid("PURCHASE_PAYMENT", d)' <= Total[d] /\ NetPaid(d)' >= 0
  BY <1>1 DEF SettledInv, NetPaid
<1>7. \A t \in PurchaseReturnDocs :
          Refunded("SUPPLIER_REFUND", t)' <= IF status'[t] = "POSTED" THEN ReturnValue[t] ELSE 0
  BY <1>4 DEF SettledInv, ReturnDocs
<1> QED BY <1>5, <1>6, <1>7 DEF SettledInv

LEMMA SettledInit == PaymentsInit => SettledInv
<1> SUFFICES ASSUME PaymentsInit PROVE SettledInv
  OBVIOUS
<1>1. RowsInv
  BY RowsInvInit
<1>2. \A type, x : Of(type, x) = {} /\ ForReturn(type, x) = {}
  BY DEF PaymentsInit, Of, ForReturn, Posted
<1>3. AmountOf({}) = 0
  BY SumEmpty DEF AmountOf
<1>4. \A type, x : Paid(type, x) = 0 /\ Refunded(type, x) = 0
  BY <1>2, <1>3 DEF Paid, Refunded
<1>5. /\ \A d \in SaleDocs \cup PurchaseDocs : Total[d] >= 0
      /\ \A t \in SaleReturnDocs \cup PurchaseReturnDocs : ReturnValue[t] >= 0
  BY PaymentsAssumption DEF Documents, ReturnDocs
<1> QED BY <1>1, <1>4, <1>5 DEF SettledInv, SaleSettlementSound, NetPaid

LEMMA SettledStep == SettledInv /\ [PaymentsNext]_paymentVars => SettledInv'
<1> SUFFICES ASSUME SettledInv, [PaymentsNext]_paymentVars PROVE SettledInv'
  OBVIOUS
<1>1. RowsInv /\ RowsInv' /\ PaymentStep
  BY RowsInvStep, StepKinds DEF SettledInv
<1>2. ASSUME NEW d \in Documents \cup ReturnDocs,
             \/ PostSaleDoc(d) \/ ConfirmPurchaseDoc(d) \/ ReceivePurchaseDoc(d)
             \/ CancelPurchaseDoc(d) \/ PostReturnDoc(d)
      PROVE  SettledInv'
  <2>1. UNCHANGED payments
    BY <1>2 DEF PostSaleDoc, ConfirmPurchaseDoc, ReceivePurchaseDoc, CancelPurchaseDoc,
                PostReturnDoc, SetStatus
  <2>2. \A t \in ReturnDocs : status[t] = "POSTED" => status'[t] = "POSTED"
    BY <1>1, <1>2 DEF RowsInv, PaymentsTypeOK, PostSaleDoc, ConfirmPurchaseDoc,
                ReceivePurchaseDoc, CancelPurchaseDoc, PostReturnDoc, SetStatus
  <2> QED BY <1>1, <2>1, <2>2, OtherSettled
<1>3. CASE UNCHANGED <<status, payments>>
  BY <1>1, <1>3, OtherSettled
<1>4. CASE \E p \in PaymentIds, type \in PaymentTypes, d \in Documents,
              method \in Methods, s \in Sessions \cup {NoSession}, amount \in Amounts :
              \E t \in ReturnDocs \cup {NoDocument} :
                  /\ Takes(p, type, d, t, method, s, amount)
                  /\ type = "SALE_PAYMENT" => amount <= SaleOutstanding(d)
                  /\ type = "SALE_REFUND" => amount <= SaleRefundable(t)
                  /\ type = "PURCHASE_PAYMENT" => amount <= PurchaseOutstanding(d)
                  /\ type = "SUPPLIER_REFUND" => amount <= SupplierRefundable(t)
  BY <1>4, TakeSettled
<1>5. CASE \E p \in PaymentIds, s \in Sessions \cup {NoSession} : Reverse(p, s)
  BY <1>5, ReverseSettled
<1> QED BY <1>1, <1>2, <1>3, <1>4, <1>5 DEF PaymentStep

LEMMA SettledInvariant == PaymentsSpec => []SettledInv
<1> QED BY SettledInit, SettledStep, PTL DEF PaymentsSpec

\* Whatever order payments, refunds and reversals come in, a sale never collects
\* more than its total nor gives back more than it collected, and a return never
\* gives back more than its value.
THEOREM SalesSettle == PaymentsSpec => []SaleSettlementSound
<1>1. SettledInv => SaleSettlementSound
  BY DEF SettledInv
<1> QED BY <1>1, SettledInvariant, PTL

\* A supplier is never paid more than the purchase, never gives back more than it
\* was paid, and its credit can always be asked back through the returns.
THEOREM PurchasesSettle == PaymentsSpec => []PurchaseSettlementSound
<1>1. SettledInv => PurchaseSettlementSound
  BY SettledMeansSound
<1> QED BY <1>1, SettledInvariant, PTL

-----------------------------------------------------------------------------
(* What money promises stock *)

\* The statuses that a sale, a purchase and a return can have.
DocumentKinds ==
    /\ \A d \in SaleDocs : status[d] \in {"DRAFT", "POSTED"}
    /\ \A d \in PurchaseDocs : status[d] \in {"DRAFT", "CONFIRMED", "RECEIVING", "CANCELLED"}
    /\ \A t \in ReturnDocs : status[t] \in {"DRAFT", "POSTED"}

\* One document moves on, and no payment.
LEMMA DocumentKindsStep ==
    ASSUME RowsInv, DocumentKinds, [PaymentsNext]_paymentVars
    PROVE  DocumentKinds'
<1>1. PaymentStep
  BY StepKinds
<1>2. CASE UNCHANGED status
  BY <1>2 DEF DocumentKinds
<1>3. ASSUME NEW d \in Documents \cup ReturnDocs,
             \/ d \in SaleDocs /\ PostSaleDoc(d)
             \/ d \in PurchaseDocs /\ (ConfirmPurchaseDoc(d) \/ ReceivePurchaseDoc(d)
                                       \/ CancelPurchaseDoc(d))
             \/ d \in ReturnDocs /\ PostReturnDoc(d)
      PROVE  DocumentKinds'
  <2>1. /\ status \in [Documents \cup ReturnDocs ->
                          {"DRAFT", "CONFIRMED", "RECEIVING", "POSTED", "CANCELLED"}]
        /\ SaleDocs \cap PurchaseDocs = {} /\ SaleDocs \cap ReturnDocs = {}
        /\ PurchaseDocs \cap ReturnDocs = {}
        /\ SaleDocs \subseteq Documents /\ PurchaseDocs \subseteq Documents
    BY PaymentsAssumption DEF RowsInv, PaymentsTypeOK, Documents
  <2>2. CASE d \in SaleDocs /\ PostSaleDoc(d)
    BY <2>1, <2>2 DEF DocumentKinds, PostSaleDoc, SetStatus
  <2>3. CASE d \in PurchaseDocs /\ ConfirmPurchaseDoc(d)
    BY <2>1, <2>3 DEF DocumentKinds, ConfirmPurchaseDoc, SetStatus
  <2>4. CASE d \in PurchaseDocs /\ ReceivePurchaseDoc(d)
    BY <2>1, <2>4 DEF DocumentKinds, ReceivePurchaseDoc, SetStatus
  <2>5. CASE d \in PurchaseDocs /\ CancelPurchaseDoc(d)
    BY <2>1, <2>5 DEF DocumentKinds, CancelPurchaseDoc, SetStatus
  <2>6. CASE d \in ReturnDocs /\ PostReturnDoc(d)
    BY <2>1, <2>6 DEF DocumentKinds, PostReturnDoc, SetStatus
  <2> QED BY <1>3, <2>2, <2>3, <2>4, <2>5, <2>6
<1>4. CASE UNCHANGED <<status, payments>>
  BY <1>2, <1>4
<1>5. ASSUME NEW p, NEW type, NEW d, NEW t, NEW method, NEW s, NEW amount,
             Takes(p, type, d, t, method, s, amount)
      PROVE  UNCHANGED status
  BY <1>5 DEF Takes, Record
<1>6. ASSUME NEW p, NEW s, Reverse(p, s) PROVE UNCHANGED status
  BY <1>6 DEF Reverse
<1> QED BY <1>1, <1>2, <1>3, <1>4, <1>5, <1>6 DEF PaymentStep

\* Together with RowsInv this is inductive.
LEMMA DocumentKindsInvariant == PaymentsSpec => [](RowsInv /\ DocumentKinds)
<1>1. PaymentsInit => DocumentKinds
  BY DEF PaymentsInit, DocumentKinds, Documents, ReturnDocs
<1>2. RowsInv /\ DocumentKinds /\ [PaymentsNext]_paymentVars => DocumentKinds'
  BY DocumentKindsStep
<1> QED BY <1>1, <1>2, RowsInvariant, PTL DEF PaymentsSpec

\* What the contract sees of the documents are their statuses.
LEMMA FlowDocumentsStay ==
    ASSUME UNCHANGED status
    PROVE  UNCHANGED <<PostedSales, PostedSaleReturnDocs, PostedPurchaseReturnDocs,
                       PurchaseStatuses, SalesOfReturns, PurchasesOfReturns>>
BY DEF PostedSales, PostedSaleReturnDocs, PostedPurchaseReturnDocs,
       PurchaseStatuses, SalesOfReturns, PurchasesOfReturns

\* A payment that is taken or reversed concerns the purchase it names, if any.
LEMMA MoneyFlows ==
    ASSUME UNCHANGED status, NEW p \in PaymentIds,
           \A q \in PaymentIds \ {p} : payments'[q] = payments[q],
           NEW d, payments'[p].document = d,
           payments[p].status = "POSTED" => payments[p].document = d,
           d \in PurchaseDocs /\ payments'[p].status = "POSTED" =>
               status[d] \in {"CONFIRMED", "RECEIVING"}
    PROVE  [PaymentsFlow!Next]_(PaymentsFlow!flowVars)
<1>1. UNCHANGED <<PostedSales, PostedSaleReturnDocs, PostedPurchaseReturnDocs,
                  PurchaseStatuses, SalesOfReturns, PurchasesOfReturns>>
  BY FlowDocumentsStay
<1>2. \A e \in PurchaseDocs : e # d => (e \in PaidPurchases' <=> e \in PaidPurchases)
  BY DEF PaidPurchases
<1>3. PaidPurchases \subseteq PurchaseDocs /\ PaidPurchases' \subseteq PurchaseDocs
  BY DEF PaidPurchases
<1>4. CASE d \notin PurchaseDocs
  <2>1. PaidPurchases' = PaidPurchases
    BY <1>2, <1>3, <1>4
  <2> QED BY <1>1, <2>1 DEF PaymentsFlow!flowVars
<1>5. CASE d \in PurchaseDocs /\ payments'[p].status = "POSTED"
  <2>1. d \in PaidPurchases'
    BY <1>5 DEF PaidPurchases
  <2>2. PaidPurchases' = PaidPurchases \cup {d}
    BY <1>2, <1>3, <2>1
  <2>3. PurchaseStatuses[d] \in {"CONFIRMED", "RECEIVING"}
    BY <1>5 DEF PurchaseStatuses
  <2>4. PaymentsFlow!Pay(d)
    BY <1>1, <2>2, <2>3 DEF PaymentsFlow!Pay
  <2> QED BY <1>5, <2>4 DEF PaymentsFlow!Next
<1>6. CASE d \in PurchaseDocs /\ payments'[p].status # "POSTED"
  <2>1. d \in PaidPurchases' => d \in PaidPurchases
    BY <1>6 DEF PaidPurchases
  <2>2. CASE d \in PaidPurchases <=> d \in PaidPurchases'
    <3>1. PaidPurchases' = PaidPurchases
      BY <1>2, <1>3, <2>2
    <3> QED BY <1>1, <3>1 DEF PaymentsFlow!flowVars
  <2>3. CASE d \notin PaidPurchases'
    <3>1. PaidPurchases' = PaidPurchases \ {d}
      BY <1>2, <1>3, <2>3
    <3>2. PaymentsFlow!Unpay(d)
      BY <1>1, <3>1 DEF PaymentsFlow!Unpay
    <3> QED BY <1>6, <3>2 DEF PaymentsFlow!Next
  <2> QED BY <2>1, <2>2, <2>3
<1> QED BY <1>4, <1>5, <1>6

\* Moving one document on is the step of the contract of the same name.
LEMMA DocumentsFlow ==
    ASSUME RowsInv, DocumentKinds, NEW d \in Documents \cup ReturnDocs,
           \/ d \in SaleDocs /\ PostSaleDoc(d)
           \/ d \in PurchaseDocs /\ (ConfirmPurchaseDoc(d) \/ ReceivePurchaseDoc(d)
                                     \/ CancelPurchaseDoc(d))
           \/ d \in ReturnDocs /\ PostReturnDoc(d)
    PROVE  PaymentsFlow!Next
<1>1. /\ status \in [Documents \cup ReturnDocs ->
                        {"DRAFT", "CONFIRMED", "RECEIVING", "POSTED", "CANCELLED"}]
      /\ SaleDocs \cap PurchaseDocs = {} /\ SaleDocs \cap ReturnDocs = {}
      /\ PurchaseDocs \cap ReturnDocs = {} /\ ReturnDocs = SaleReturnDocs \cup PurchaseReturnDocs
      /\ SaleReturnDocs \cap PurchaseReturnDocs = {}
      /\ SaleDocs \subseteq Documents /\ PurchaseDocs \subseteq Documents
  BY PaymentsAssumption DEF RowsInv, PaymentsTypeOK, Documents, ReturnDocs
<1>2. ASSUME NEW to, SetStatus(d, to)
      PROVE  /\ status'[d] = to /\ payments' = payments
             /\ \A e \in Documents \cup ReturnDocs : e # d => status'[e] = status[e]
             /\ PaidPurchases' = PaidPurchases
             /\ UNCHANGED <<SalesOfReturns, PurchasesOfReturns>>
  BY <1>1, <1>2 DEF SetStatus, PaidPurchases, SalesOfReturns, PurchasesOfReturns
<1>3. ASSUME NEW to, SetStatus(d, to), d \notin PurchaseDocs
      PROVE  PurchaseStatuses' = PurchaseStatuses
  BY <1>1, <1>2, <1>3 DEF PurchaseStatuses
<1>4. ASSUME NEW to, SetStatus(d, to), d \notin SaleDocs
      PROVE  PostedSales' = PostedSales
  BY <1>1, <1>2, <1>4 DEF PostedSales
<1>5. ASSUME NEW to, SetStatus(d, to), d \notin SaleReturnDocs
      PROVE  PostedSaleReturnDocs' = PostedSaleReturnDocs
  BY <1>1, <1>2, <1>5 DEF PostedSaleReturnDocs
<1>6. ASSUME NEW to, SetStatus(d, to), d \notin PurchaseReturnDocs
      PROVE  PostedPurchaseReturnDocs' = PostedPurchaseReturnDocs
  BY <1>1, <1>2, <1>6 DEF PostedPurchaseReturnDocs
<1>7. CASE d \in SaleDocs /\ PostSaleDoc(d)
  <2>1. SetStatus(d, "POSTED")
    BY <1>7 DEF PostSaleDoc
  <2>2. PostedSales' = PostedSales \cup {d}
    BY <1>1, <1>2, <1>7, <2>1 DEF PostedSales
  <2>3. PaymentsFlow!PostSale(d)
    BY <1>1, <1>2, <1>3, <1>5, <1>6, <1>7, <2>1, <2>2 DEF PaymentsFlow!PostSale
  <2> QED BY <1>7, <2>3 DEF PaymentsFlow!Next
<1>8. ASSUME d \in PurchaseDocs, NEW to, SetStatus(d, to)
      PROVE  PaymentsFlow!Becomes(d, to)
  <2>1. PurchaseStatuses' = [PurchaseStatuses EXCEPT ![d] = to]
    BY <1>1, <1>2, <1>8 DEF PurchaseStatuses
  <2> QED BY <1>1, <1>2, <1>4, <1>5, <1>6, <1>8, <2>1 DEF PaymentsFlow!Becomes
<1>9. CASE d \in PurchaseDocs /\ ConfirmPurchaseDoc(d)
  <2>1. PurchaseStatuses[d] = "DRAFT" /\ SetStatus(d, "CONFIRMED")
    BY <1>9 DEF ConfirmPurchaseDoc, PurchaseStatuses
  <2>2. PaymentsFlow!Confirm(d)
    BY <1>8, <1>9, <2>1 DEF PaymentsFlow!Confirm
  <2> QED BY <1>9, <2>2 DEF PaymentsFlow!Next
<1>10. CASE d \in PurchaseDocs /\ ReceivePurchaseDoc(d)
  <2>1. PurchaseStatuses[d] = "CONFIRMED" /\ SetStatus(d, "RECEIVING")
    BY <1>10 DEF ReceivePurchaseDoc, PurchaseStatuses
  <2>2. PaymentsFlow!Receive(d)
    BY <1>8, <1>10, <2>1 DEF PaymentsFlow!Receive
  <2> QED BY <1>10, <2>2 DEF PaymentsFlow!Next
<1>11. CASE d \in PurchaseDocs /\ CancelPurchaseDoc(d)
  <2>1. PurchaseStatuses[d] \in {"DRAFT", "CONFIRMED"} /\ SetStatus(d, "CANCELLED")
    BY <1>11 DEF CancelPurchaseDoc, PurchaseStatuses
  <2>2. d \notin PaidPurchases
    BY <1>11 DEF CancelPurchaseDoc, PaidPurchases
  <2>3. PaymentsFlow!Cancel(d)
    BY <1>8, <1>11, <2>1, <2>2 DEF PaymentsFlow!Cancel
  <2> QED BY <1>11, <2>3 DEF PaymentsFlow!Next
<1>12. ASSUME d \in ReturnDocs, PostReturnDoc(d)
       PROVE  /\ SetStatus(d, "POSTED") /\ d \notin SaleDocs /\ d \notin PurchaseDocs
              /\ DocumentOf[d] \in SaleDocs => status[DocumentOf[d]] = "POSTED"
              /\ DocumentOf[d] \in PurchaseDocs => status[DocumentOf[d]] = "RECEIVING"
              /\ DocumentOf[d] \in Documents
              /\ d \in SaleReturnDocs <=> DocumentOf[d] \in SaleDocs
  BY <1>1, <1>12, PaymentsAssumption DEF PostReturnDoc, DocumentKinds
<1>13. CASE d \in SaleReturnDocs /\ PostReturnDoc(d)
  <2>1. SalesOfReturns[d] \in PostedSales
    BY <1>1, <1>12, <1>13 DEF SalesOfReturns, PostedSales
  <2>2. PostedSaleReturnDocs' = PostedSaleReturnDocs \cup {d}
    BY <1>1, <1>2, <1>12, <1>13 DEF PostedSaleReturnDocs
  <2>3. /\ SetStatus(d, "POSTED") /\ d \notin SaleDocs /\ d \notin PurchaseDocs
        /\ d \notin PurchaseReturnDocs
    BY <1>1, <1>12, <1>13
  <2>4. PaymentsFlow!PostSaleReturn(d)
    BY <1>2, <1>3, <1>4, <1>6, <2>1, <2>2, <2>3 DEF PaymentsFlow!PostSaleReturn
  <2> QED BY <1>13, <2>4 DEF PaymentsFlow!Next
<1>14. CASE d \in PurchaseReturnDocs /\ PostReturnDoc(d)
  <2>1. DocumentOf[d] \in PurchaseDocs /\ status[DocumentOf[d]] = "RECEIVING"
    BY <1>1, <1>12, <1>14 DEF Documents
  <2>2. /\ PurchasesOfReturns[d] \in PurchaseDocs
        /\ PurchaseStatuses[PurchasesOfReturns[d]] = "RECEIVING"
    BY <1>14, <2>1 DEF PurchasesOfReturns, PurchaseStatuses
  <2>3. PostedPurchaseReturnDocs' = PostedPurchaseReturnDocs \cup {d}
    BY <1>1, <1>2, <1>12, <1>14 DEF PostedPurchaseReturnDocs
  <2>4. /\ SetStatus(d, "POSTED") /\ d \notin SaleDocs /\ d \notin PurchaseDocs
        /\ d \notin SaleReturnDocs
    BY <1>1, <1>12, <1>14
  <2>5. PaymentsFlow!PostPurchaseReturn(d)
    BY <1>2, <1>3, <1>4, <1>5, <2>2, <2>3, <2>4 DEF PaymentsFlow!PostPurchaseReturn
  <2> QED BY <1>14, <2>5 DEF PaymentsFlow!Next
<1> QED BY <1>1, <1>7, <1>9, <1>10, <1>11, <1>13, <1>14

\* Every step of Payments is one of the contract or leaves it alone.
LEMMA PaymentsStepsFlow ==
    ASSUME RowsInv, DocumentKinds, [PaymentsNext]_paymentVars
    PROVE  [PaymentsFlow!Next]_(PaymentsFlow!flowVars)
<1> DEFINE Step == [PaymentsFlow!Next]_(PaymentsFlow!flowVars)
<1>0. PaymentsFlow!Next => Step
  OBVIOUS
<1>1. ASSUME NEW p \in PaymentIds, UNCHANGED status,
             \A q \in PaymentIds \ {p} : payments'[q] = payments[q],
             NEW d, payments'[p].document = d,
             payments[p].status = "POSTED" => payments[p].document = d,
             d \in PurchaseDocs /\ payments'[p].status = "POSTED" =>
                 status[d] \in {"CONFIRMED", "RECEIVING"}
      PROVE  Step
  BY <1>1, MoneyFlows
<1>2. ASSUME UNCHANGED <<status, payments>> PROVE Step
  <2>1. PaidPurchases' = PaidPurchases
    BY <1>2 DEF PaidPurchases
  <2> QED BY <1>2, <2>1, FlowDocumentsStay DEF PaymentsFlow!flowVars
<1> HIDE DEF Step
<1>3. payments \in [PaymentIds -> PaymentRows]
  BY DEF RowsInv, PaymentsTypeOK
<1>4. /\ SaleDocs \cap PurchaseDocs = {} /\ SaleReturnDocs \subseteq ReturnDocs
      /\ PurchaseReturnDocs \subseteq ReturnDocs
      /\ \A t \in SaleReturnDocs : DocumentOf[t] \in SaleDocs
      /\ \A t \in PurchaseReturnDocs : DocumentOf[t] \in PurchaseDocs
  BY PaymentsAssumption DEF Documents, ReturnDocs
<1>5. ASSUME NEW p \in PaymentIds, NEW type, NEW d, NEW t, NEW method, NEW s, NEW amount,
             Record(p, type, d, t, method, s, amount),
             d \in PurchaseDocs => status[d] \in {"CONFIRMED", "RECEIVING"}
      PROVE  Step
  <2>1. /\ payments[p].status = "NONE" /\ payments'[p].document = d /\ UNCHANGED status
        /\ \A q \in PaymentIds \ {p} : payments'[q] = payments[q]
    BY <1>3, <1>5 DEF Record
  <2> QED BY <1>1, <1>5, <2>1
<1>6. ASSUME NEW p \in PaymentIds, NEW s \in Sessions \cup {NoSession},
             NEW method \in Methods, NEW amount \in Amounts,
             \/ \E d \in SaleDocs : SalePayment(p, d, method, s, amount)
             \/ \E t \in SaleReturnDocs : SaleRefund(p, t, method, s, amount)
             \/ \E d \in PurchaseDocs : PurchasePayment(p, d, method, s, amount)
             \/ \E t \in PurchaseReturnDocs : SupplierRefund(p, t, method, s, amount)
      PROVE  Step
  <2>1. ASSUME NEW d \in SaleDocs, SalePayment(p, d, method, s, amount) PROVE Step
    BY <1>4, <1>5, <2>1 DEF SalePayment
  <2>2. ASSUME NEW t \in SaleReturnDocs, SaleRefund(p, t, method, s, amount) PROVE Step
    BY <1>4, <1>5, <2>2 DEF SaleRefund
  <2>3. ASSUME NEW d \in PurchaseDocs, PurchasePayment(p, d, method, s, amount) PROVE Step
    BY <1>5, <2>3 DEF PurchasePayment
  <2>4. ASSUME NEW t \in PurchaseReturnDocs, SupplierRefund(p, t, method, s, amount)
        PROVE  Step
    <3>1. DocumentOf[t] \in PurchaseDocs /\ status[DocumentOf[t]] = "RECEIVING"
      BY <1>4, <2>4 DEF SupplierRefund, RowsInv, ReturnsFit, DocumentKinds
    <3> QED BY <1>5, <2>4, <3>1 DEF SupplierRefund
  <2> QED BY <1>6, <2>1, <2>2, <2>3, <2>4
<1>7. ASSUME NEW p \in PaymentIds, NEW s, Reverse(p, s) PROVE Step
  <2>1. /\ payments'[p].status = "REVERSED" /\ UNCHANGED status
        /\ payments'[p].document = payments[p].document
        /\ \A q \in PaymentIds \ {p} : payments'[q] = payments[q]
    BY <1>3, <1>7 DEF Reverse, Reversed, PaymentRows
  <2> QED BY <1>1, <2>1
<1>8. ASSUME NEW d,
             \/ d \in SaleDocs /\ PostSaleDoc(d)
             \/ d \in PurchaseDocs /\ (ConfirmPurchaseDoc(d) \/ ReceivePurchaseDoc(d)
                                       \/ CancelPurchaseDoc(d))
             \/ d \in ReturnDocs /\ PostReturnDoc(d)
      PROVE  Step
  <2>1. d \in Documents \cup ReturnDocs
    BY <1>8 DEF Documents
  <2>2. PaymentsFlow!Next
    BY <1>8, <2>1, DocumentsFlow
  <2> QED BY <1>0, <2>2
<1>9. ASSUME \/ \E method \in Methods : SetMethodActive(method)
             \/ CashNext /\ UNCHANGED <<status, activeMethods, payments>>
             \/ UNCHANGED paymentVars
      PROVE  Step
  <2>1. UNCHANGED <<status, payments>>
    BY <1>9 DEF SetMethodActive, paymentVars
  <2> QED BY <1>2, <2>1
<1>10. PaymentsNext => Step
  BY <1>6, <1>7, <1>8, <1>9 DEF PaymentsNext
<1>11. Step
  BY <1>9, <1>10
<1> QED BY <1>11 DEF Step

\* At first nothing is posted, confirmed or paid.
LEMMA PaymentsFlowInit == PaymentsInit => PaymentsFlow!Init
<1> SUFFICES ASSUME PaymentsInit PROVE PaymentsFlow!Init
  OBVIOUS
<1>1. \A d \in Documents \cup ReturnDocs : status[d] = "DRAFT"
  BY DEF PaymentsInit
<1>2. PostedSales = {} /\ PostedSaleReturnDocs = {} /\ PostedPurchaseReturnDocs = {}
  BY <1>1 DEF PostedSales, PostedSaleReturnDocs, PostedPurchaseReturnDocs,
              Documents, ReturnDocs
<1>3. PurchaseStatuses = [d \in PurchaseDocs |-> "DRAFT"]
  BY <1>1 DEF PurchaseStatuses, Documents
<1>4. PaidPurchases = {}
  BY DEF PaymentsInit, PaidPurchases
<1>5. /\ \A t \in SaleReturnDocs : DocumentOf[t] \in SaleDocs
      /\ \A t \in PurchaseReturnDocs : DocumentOf[t] \in PurchaseDocs
  BY PaymentsAssumption DEF Documents, ReturnDocs
<1>6. /\ SalesOfReturns \in [SaleReturnDocs -> SaleDocs \cup {NoDocument}]
      /\ PurchasesOfReturns \in [PurchaseReturnDocs -> PurchaseDocs \cup {NoDocument}]
  BY <1>5 DEF SalesOfReturns, PurchasesOfReturns
<1> QED BY <1>2, <1>3, <1>4, <1>6 DEF PaymentsFlow!Init

\* Money keeps its side of what stock and money promise each other: a purchase
\* gets an active payment only from its confirmation on, and the documents move
\* by no other steps than those of the contract.
THEOREM MoneyKeepsFlow == PaymentsSpec => PaymentsKeepFlow
<1>1. RowsInv /\ DocumentKinds /\ [PaymentsNext]_paymentVars
          => [PaymentsFlow!Next]_(PaymentsFlow!flowVars)
  BY PaymentsStepsFlow
<1> QED BY <1>1, PaymentsFlowInit, DocumentKindsInvariant, PTL
        DEF PaymentsSpec, PaymentsKeepFlow, PaymentsFlow!Spec

\* Nor does money hold stock up: whenever the contract lets a document move, the
\* step by which it moves in Payments is one that Payments takes.  So what Payments
\* shows of its documents it shows of those of Warehouse.
THEOREM MoneyAllowsFlow ==
    ASSUME DocumentKinds
    PROVE  /\ \A d \in SaleDocs : d \notin PostedSales /\ SetStatus(d, "POSTED")
                  => PostSaleDoc(d)
           /\ \A d \in PurchaseDocs :
                  /\ PaymentsFlow!Confirm(d) /\ SetStatus(d, "CONFIRMED")
                         => ConfirmPurchaseDoc(d)
                  /\ PaymentsFlow!Receive(d) /\ SetStatus(d, "RECEIVING")
                         => ReceivePurchaseDoc(d)
                  /\ PaymentsFlow!Cancel(d) /\ SetStatus(d, "CANCELLED")
                         => CancelPurchaseDoc(d)
           /\ \A t \in SaleReturnDocs : t \notin PostedSaleReturnDocs =>
                  (PaymentsFlow!PostSaleReturn(t) /\ SetStatus(t, "POSTED")
                         => PostReturnDoc(t))
           /\ \A t \in PurchaseReturnDocs : t \notin PostedPurchaseReturnDocs =>
                  (PaymentsFlow!PostPurchaseReturn(t) /\ SetStatus(t, "POSTED")
                         => PostReturnDoc(t))
<1>1. ASSUME NEW d \in SaleDocs, d \notin PostedSales, SetStatus(d, "POSTED")
      PROVE  PostSaleDoc(d)
  BY <1>1 DEF DocumentKinds, PostedSales, PostSaleDoc
<1>2. \A d \in PurchaseDocs : PurchaseStatuses[d] = status[d]
  BY DEF PurchaseStatuses
<1>3. ASSUME NEW d \in PurchaseDocs, PaymentsFlow!Confirm(d), SetStatus(d, "CONFIRMED")
      PROVE  ConfirmPurchaseDoc(d)
  BY <1>2, <1>3 DEF PaymentsFlow!Confirm, ConfirmPurchaseDoc
<1>4. ASSUME NEW d \in PurchaseDocs, PaymentsFlow!Receive(d), SetStatus(d, "RECEIVING")
      PROVE  ReceivePurchaseDoc(d)
  BY <1>2, <1>4 DEF PaymentsFlow!Receive, ReceivePurchaseDoc
<1>5. ASSUME NEW d \in PurchaseDocs, PaymentsFlow!Cancel(d), SetStatus(d, "CANCELLED")
      PROVE  CancelPurchaseDoc(d)
  BY <1>2, <1>5 DEF PaymentsFlow!Cancel, CancelPurchaseDoc, PaidPurchases
<1>6. ASSUME NEW t \in SaleReturnDocs, t \notin PostedSaleReturnDocs,
             PaymentsFlow!PostSaleReturn(t), SetStatus(t, "POSTED")
      PROVE  PostReturnDoc(t)
  <2>1. status[DocumentOf[t]] = "POSTED"
    BY <1>6 DEF PaymentsFlow!PostSaleReturn, SalesOfReturns, PostedSales
  <2>2. status[t] = "DRAFT"
    BY <1>6 DEF DocumentKinds, PostedSaleReturnDocs, ReturnDocs
  <2> QED BY <1>6, <2>1, <2>2 DEF PostReturnDoc
<1>7. ASSUME NEW t \in PurchaseReturnDocs, t \notin PostedPurchaseReturnDocs,
             PaymentsFlow!PostPurchaseReturn(t), SetStatus(t, "POSTED")
      PROVE  PostReturnDoc(t)
  <2>1. status[DocumentOf[t]] = "RECEIVING"
    BY <1>2, <1>7 DEF PaymentsFlow!PostPurchaseReturn, PurchasesOfReturns
  <2>2. status[t] = "DRAFT"
    BY <1>7 DEF DocumentKinds, PostedPurchaseReturnDocs, ReturnDocs
  <2> QED BY <1>7, <2>1, <2>2 DEF PostReturnDoc
<1> QED BY <1>1, <1>3, <1>4, <1>5, <1>6, <1>7
=============================================================================
