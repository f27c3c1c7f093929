---------------------------- MODULE CashSessions ----------------------------
(***************************************************************************)
(* Cash registers, their sessions and the cash ledger of ms-autorepuesto   *)
(* (finance/cash-*.service.ts).  A session counts the cash of one register *)
(* from opening to closing; every cash operation is one movement of one    *)
(* session.  Each operation is one serializable transaction and one action *)
(* here; SettlementTx models what runs inside.                           *)
(***************************************************************************)
EXTENDS Integers, FiniteSets, FiniteSetsExt

CONSTANTS
    Registers,
    Sessions,           \* ids of the sessions
    Amounts,            \* positive amounts of money
    CountedAmounts,     \* opening amounts and amounts counted at closing
    Entries,            \* ids of the manual movements
    NoRegister

ASSUME CashAssumption ==
    /\ Amounts \subseteq Nat \ {0}
    /\ CountedAmounts \subseteq Nat
    /\ NoRegister \notin Registers

VARIABLES
    activeRegisters,    \* CashRegister.active
    sessions,           \* CashSession rows
    cashMovements       \* CashMovement rows

cashVars == <<activeRegisters, sessions, cashMovements>>

Inflows == {"SALE_PAYMENT", "SALE_REFUND_REVERSAL", "PURCHASE_PAYMENT_REVERSAL",
            "SUPPLIER_REFUND", "MANUAL_IN"}
Outflows == {"SALE_REFUND", "SALE_PAYMENT_REVERSAL", "PURCHASE_PAYMENT",
             "SUPPLIER_REFUND_REVERSAL", "MANUAL_OUT"}
MovementTypes == Inflows \cup Outflows

-----------------------------------------------------------------------------
(* The cash ledger *)

\* a row: key is the manual entry, or the payment and the movement type
CashMovement(key, session, type, amount) ==
    [key |-> key, session |-> session, type |-> type, amount |-> amount]

\* movementDelta
MovementDelta(m) == IF m.type \in Inflows THEN m.amount ELSE -m.amount

MovementsOf(s) == {m \in cashMovements : m.session = s}
NetCash(rows) == SumFunctionOnSet([m \in rows |-> MovementDelta(m)], rows)

\* CashLedgerService.expected
Expected(s) == sessions[s].opening + NetCash(MovementsOf(s))

FaultyOpenActive(s) == sessions[s].register \in activeRegisters

\* lockOpenActiveSession
OpenActive(s) ==
    /\ sessions[s].status = "OPEN"
    /\ sessions[s].register \in activeRegisters

FaultyCoversOutflow(s, amount) == sessions[s].opening >= amount

\* ensureOutflowAvailable
CoversOutflow(s, amount) == Expected(s) - amount >= 0

-----------------------------------------------------------------------------
(* Operations *)

FaultyOpenSession(s, g, opening) ==
    /\ sessions[s].status = "NONE"
    /\ g \in activeRegisters
    /\ sessions' = [sessions EXCEPT ![s] =
                       [status |-> "OPEN", register |-> g, opening |-> opening,
                        expected |-> 0, counted |-> 0]]
    /\ UNCHANGED <<activeRegisters, cashMovements>>

\* open
OpenSession(s, g, opening) ==
    /\ sessions[s].status = "NONE"
    /\ g \in activeRegisters
    /\ \A other \in Sessions :
           sessions[other].register = g => sessions[other].status # "OPEN"
    /\ sessions' = [sessions EXCEPT ![s] =
                       [status |-> "OPEN", register |-> g, opening |-> opening,
                        expected |-> 0, counted |-> 0]]
    /\ UNCHANGED <<activeRegisters, cashMovements>>

\* createMovement: cash put in or taken out by hand
ManualMovement(e, s, type, amount) ==
    /\ \A m \in cashMovements : m.key # e
    /\ OpenActive(s)
    /\ type = "MANUAL_OUT" => CoversOutflow(s, amount)
    /\ cashMovements' = cashMovements \cup {CashMovement(e, s, type, amount)}
    /\ UNCHANGED <<activeRegisters, sessions>>

FaultyCloseSession(s, counted, hasNotes) ==
    /\ sessions[s].status = "OPEN"
    /\ counted # Expected(s) => hasNotes
    /\ sessions' = [sessions EXCEPT ![s] =
                       [status |-> "CLOSED", register |-> sessions[s].register,
                        opening |-> sessions[s].opening,
                        expected |-> Expected(s), counted |-> counted - Expected(s)]]
    /\ UNCHANGED <<activeRegisters, cashMovements>>

\* close: the register may have been deactivated since; a difference between
\* the cash counted and the cash expected needs notes
CloseSession(s, counted, hasNotes) ==
    /\ sessions[s].status = "OPEN"
    /\ counted # Expected(s) => hasNotes
    /\ sessions' = [sessions EXCEPT ![s] =
                       [status |-> "CLOSED", register |-> sessions[s].register,
                        opening |-> sessions[s].opening,
                        expected |-> Expected(s), counted |-> counted]]
    /\ UNCHANGED <<activeRegisters, cashMovements>>

\* setActive and update: no look at the open session
SetRegisterActive(g) ==
    /\ activeRegisters' = IF g \in activeRegisters THEN activeRegisters \ {g}
                          ELSE activeRegisters \cup {g}
    /\ UNCHANGED <<sessions, cashMovements>>

CashInit ==
    /\ activeRegisters = Registers
    /\ sessions = [s \in Sessions |->
                      [status |-> "NONE", register |-> NoRegister,
                       opening |-> 0, expected |-> 0, counted |-> 0]]
    /\ cashMovements = {}

CashNext ==
    \/ \E s \in Sessions :
          \/ \E g \in Registers, opening \in CountedAmounts :
                 OpenSession(s, g, opening)
          \/ \E e \in Entries, type \in {"MANUAL_IN", "MANUAL_OUT"},
                amount \in Amounts : ManualMovement(e, s, type, amount)
          \/ \E counted \in CountedAmounts, hasNotes \in BOOLEAN :
                 CloseSession(s, counted, hasNotes)
    \/ \E g \in Registers : SetRegisterActive(g)

CashSpec == CashInit /\ [][CashNext]_cashVars

-----------------------------------------------------------------------------
(* Properties *)

SessionRows ==
    [status: {"NONE", "OPEN", "CLOSED"}, register: Registers \cup {NoRegister},
     opening: CountedAmounts \cup {0}, expected: Int, counted: CountedAmounts \cup {0}]

\* The rows keep their shape, and each movement belongs to a session that was
\* opened on a register.
CashTypeOK ==
    /\ activeRegisters \subseteq Registers
    /\ sessions \in [Sessions -> SessionRows]
    /\ \A s \in Sessions :
           sessions[s].status # "NONE" <=> sessions[s].register \in Registers
    /\ \A m \in cashMovements :
           /\ m.session \in Sessions
           /\ m.type \in MovementTypes
           /\ m.amount \in Amounts
           /\ sessions[m.session].status # "NONE"

\* A register has at most one OPEN session, whatever was deactivated, activated
\* and closed in between: two tills never count the same drawer.
OneOpenSession ==
    \A s1, s2 \in Sessions :
        /\ sessions[s1].status = "OPEN"
        /\ sessions[s2].status = "OPEN"
        /\ sessions[s1].register = sessions[s2].register
        => s1 = s2

\* The cash a session expects in its drawer is never negative, at any moment of
\* its life, whichever operations draw on it.
DrawerNeverNegative ==
    \A s \in Sessions : Expected(s) >= 0

\* The amount stored at closing stays the truth of the ledger: no movement
\* reaches a session after close computed its expected amount.
ClosingSnapshotHolds ==
    \A s \in Sessions :
        sessions[s].status = "CLOSED" => sessions[s].expected = Expected(s)

\* A closed session is final: later steps change neither its row nor the set of
\* its movements, and no movement of any session is ever changed or removed.
ClosedSessionsAreFinal ==
    [][/\ \A s \in Sessions : sessions[s].status = "CLOSED" =>
              sessions'[s] = sessions[s] /\ MovementsOf(s)' = MovementsOf(s)
       /\ cashMovements \subseteq cashMovements'
      ]_cashVars
=============================================================================
