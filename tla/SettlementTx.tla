---------------------------- MODULE SettlementTx ----------------------------
(***************************************************************************)
(* What runs inside one serializable transaction: PrismaService            *)
(* .runSerializable around the payments, refunds, reversals and closings   *)
(* that share sales and one cash session.                                  *)
(*                                                                         *)
(* A transaction locks rows with SELECT ... FOR UPDATE, reads, checks and  *)
(* writes.  PostgreSQL takes its snapshot at its first statement, which is *)
(* the first of those locks: a transaction that waits for a row reads, once *)
(* it has the row, the data from before the wait.  What keeps the checks   *)
(* right is that the database refuses such a transaction when it commits   *)
(* and that runSerializable tries it again, three times in all.            *)
(*                                                                         *)
(* The data is the set of requests that have committed; View(S) is the     *)
(* state of Payments after the requests in S, and the checks are those of  *)
(* Payments.                                                               *)
(***************************************************************************)
EXTENDS Integers, Sequences, FiniteSets, FiniteSetsExt, Functions

CONSTANTS
    SaleDocs, SaleReturnDocs, Total, DocumentOf, ReturnValue,
    Requests,       \* ids of the requests, and of the payments they create
    Asks,           \* the request: its kind, what it is on, amount, cash
    Drawer,         \* the cash session
    Opening,        \* its opening amount
    Before,         \* the requests that were served before the others came
    MaxAttempts,    \* 3 in the code
    Cash, Card,     \* the two payment methods
    Register, NoRegister, NoSession, NoDocument

\* Ids name rows of one table only, requests are for documents of the client's
\* choice, and a reversal names a payment or a refund.  The returns of a sale are
\* never worth more than the sale, as in Payments; what was reversed before was
\* paid before.
ASSUME TxAssumption ==
    /\ IsFiniteSet(Requests) /\ IsFiniteSet(SaleReturnDocs)
    /\ SaleDocs \cap SaleReturnDocs = {}
    /\ Requests \cap (SaleDocs \cup SaleReturnDocs) = {}
    /\ Drawer \notin SaleDocs \cup SaleReturnDocs \cup Requests
    /\ Cash # Card /\ NoSession # Drawer /\ NoRegister # Register
    /\ NoDocument \notin SaleDocs \cup SaleReturnDocs
    /\ Total \in [SaleDocs -> Nat]
    /\ DocumentOf \in [SaleReturnDocs -> SaleDocs]
    /\ ReturnValue \in [SaleReturnDocs -> Nat]
    /\ Opening \in Nat /\ MaxAttempts \in Nat \ {0}
    /\ \A r \in Requests :
           \/ /\ Asks[r].kind = "SALE_PAYMENT" /\ Asks[r].on \in SaleDocs
              /\ Asks[r].amount \in Nat \ {0} /\ Asks[r].cash \in BOOLEAN
           \/ /\ Asks[r].kind = "SALE_REFUND" /\ Asks[r].on \in SaleReturnDocs
              /\ Asks[r].amount \in Nat \ {0} /\ Asks[r].cash \in BOOLEAN
           \/ /\ Asks[r].kind = "REVERSE" /\ Asks[r].on \in Requests
              /\ Asks[Asks[r].on].kind \in {"SALE_PAYMENT", "SALE_REFUND"}
           \/ Asks[r].kind = "CLOSE"
    /\ \A d \in SaleDocs :
           SumFunctionOnSet(ReturnValue, {t \in SaleReturnDocs : DocumentOf[t] = d})
               <= Total[d]
    /\ Before \subseteq Requests
    /\ \A r \in Before : Asks[r].kind = "REVERSE" => Asks[r].on \in Before

VARIABLES
    committed,      \* requests whose transaction has committed
    expectedAmount, \* CashSession.expectedAmount as the closing wrote it
    phase,          \* where each request is
    attempt,        \* how often its transaction was started
    snapshot,       \* what its current transaction sees
    held,           \* how many of its rows its transaction has locked
    passedOver      \* committed requests that missed an earlier commit they read

txVars == <<committed, expectedAmount, phase, attempt, snapshot, held, passedOver>>

-----------------------------------------------------------------------------
(* The data after a set of requests *)

Kind(r) == Asks[r].kind
Payers == {r \in Requests : Kind(r) \in {"SALE_PAYMENT", "SALE_REFUND"}}
Closings == {r \in Requests : Kind(r) = "CLOSE"}
ReversedIn(S, p) == \E v \in S : Kind(v) = "REVERSE" /\ Asks[v].on = p

\* the payment a request creates or reverses
PaymentOf(r) == IF Kind(r) = "REVERSE" THEN Asks[r].on ELSE r
SaleOf(r) ==
    LET p == PaymentOf(r) IN
    IF Kind(p) = "SALE_REFUND" THEN DocumentOf[Asks[p].on] ELSE Asks[p].on
UsesCash(r) == Kind(r) # "CLOSE" /\ Asks[PaymentOf(r)].cash

Row(S, p) ==
    IF p \notin S
    THEN [status |-> "NONE", type |-> "SALE_PAYMENT", document |-> NoDocument,
          return |-> NoDocument, method |-> NoDocument, session |-> NoSession,
          reversal |-> NoSession, amount |-> 0]
    ELSE [status |-> IF ReversedIn(S, p) THEN "REVERSED" ELSE "POSTED",
          type |-> Kind(p), document |-> SaleOf(p),
          return |-> IF Kind(p) = "SALE_REFUND" THEN Asks[p].on ELSE NoDocument,
          method |-> IF UsesCash(p) THEN Cash ELSE Card,
          session |-> IF UsesCash(p) THEN Drawer ELSE NoSession,
          reversal |-> IF UsesCash(p) /\ ReversedIn(S, p) THEN Drawer ELSE NoSession,
          amount |-> Asks[p].amount]

ReversalName == [SALE_PAYMENT |-> "SALE_PAYMENT_REVERSAL",
                 SALE_REFUND |-> "SALE_REFUND_REVERSAL"]

RowsOfCash(S) ==
    {LET type == IF Kind(r) = "REVERSE" THEN ReversalName[Kind(Asks[r].on)]
                 ELSE Kind(r)
     IN  [key |-> <<PaymentOf(r), type>>, session |-> Drawer, type |-> type,
          amount |-> Asks[PaymentOf(r)].amount] : r \in {q \in S : UsesCash(q)}}

SessionIn(S) ==
    [status |-> IF S \cap Closings = {} THEN "OPEN" ELSE "CLOSED",
     register |-> Register, opening |-> Opening, expected |-> expectedAmount,
     counted |-> 0]

View(S) ==
    INSTANCE Payments WITH
        PurchaseDocs <- {}, PurchaseReturnDocs <- {}, PaymentIds <- Payers,
        CashMethods <- {Cash}, OtherMethods <- {Card}, Registers <- {Register},
        Sessions <- {Drawer}, Entries <- {}, CountedAmounts <- {0, Opening},
        Amounts <- {Asks[p].amount : p \in Payers},
        activeRegisters <- {Register}, activeMethods <- {Cash, Card},
        status <- [d \in SaleDocs \cup SaleReturnDocs |-> "POSTED"],
        sessions <- [s \in {Drawer} |-> SessionIn(S)],
        payments <- [p \in Payers |-> Row(S, p)],
        cashMovements <- RowsOfCash(S)

-----------------------------------------------------------------------------
(* What a request locks, checks, reads and writes *)

OnlyIf(condition, x) == IF condition THEN <<x>> ELSE <<>>

FaultyLocks(r) ==
    IF Kind(r) = "CLOSE" THEN <<Drawer>>
    ELSE LET p == PaymentOf(r) IN
         OnlyIf(UsesCash(r) /\ Kind(r) = "REVERSE", Drawer)
         \o <<SaleOf(r)>>
         \o OnlyIf(Kind(p) = "SALE_REFUND", Asks[p].on)
         \o OnlyIf(Kind(r) = "REVERSE", p)
         \o OnlyIf(UsesCash(r) /\ Kind(r) # "REVERSE", Drawer)

\* the rows SELECT ... FOR UPDATE names, in the order of the statements
Locks(r) ==
    IF Kind(r) = "CLOSE" THEN <<Drawer>>
    ELSE LET p == PaymentOf(r) IN
         <<SaleOf(r)>>
         \o OnlyIf(Kind(p) = "SALE_REFUND", Asks[p].on)
         \o OnlyIf(Kind(r) = "REVERSE", p)
         \o OnlyIf(UsesCash(r), Drawer)

\* made on the snapshot once the document rows are locked
DocumentCheck(r) ==
    LET S == snapshot[r] IN
    CASE Kind(r) = "SALE_PAYMENT" ->
             Asks[r].amount <= View(S)!SaleOutstanding(Asks[r].on)
      [] Kind(r) = "SALE_REFUND" ->
             Asks[r].amount <= View(S)!SaleRefundable(Asks[r].on)
      [] Kind(r) = "REVERSE" ->
             /\ Row(S, Asks[r].on).status = "POSTED"
             /\ View(S)!KeepsRefundsCovered(Row(S, Asks[r].on))
      [] Kind(r) = "CLOSE" -> TRUE

TakesCash(r) ==
    /\ UsesCash(r)
    /\ (Kind(r) = "REVERSE") # (Kind(PaymentOf(r)) = "SALE_REFUND")

\* made on the same snapshot once the session is locked too
CashCheck(r) ==
    LET S == snapshot[r] IN
    /\ UsesCash(r) \/ Kind(r) = "CLOSE" => View(S)!OpenActive(Drawer)
    /\ TakesCash(r) => View(S)!CoversOutflow(Drawer, Asks[PaymentOf(r)].amount)

Payments(d) == <<"Payment", d>>
SessionRow == <<"CashSession">>
Movements == <<"CashMovement">>

\* the rows and ranges a transaction reads ...
Reads(r) ==
    (IF Kind(r) = "CLOSE" THEN {} ELSE {Payments(SaleOf(r))})
    \cup (IF UsesCash(r) \/ Kind(r) = "CLOSE" THEN {SessionRow} ELSE {})
    \cup (IF TakesCash(r) \/ Kind(r) = "CLOSE" THEN {Movements} ELSE {})

\* ... and writes into
Writes(r) ==
    (IF Kind(r) = "CLOSE" THEN {SessionRow} ELSE {Payments(SaleOf(r))})
    \cup (IF UsesCash(r) THEN {Movements} ELSE {})

\* locked rows that it also updates: a reversed payment, a closed session
Updates(r) ==
    CASE Kind(r) = "REVERSE" -> {Asks[r].on}
      [] Kind(r) = "CLOSE" -> {Drawer}
      [] OTHER -> {}

-----------------------------------------------------------------------------
(* PostgreSQL: locks and serializability *)

Running(r) == phase[r] = "running"
HeldRows(r) == {Locks(r)[i] : i \in 1..held[r]}
Free(x) == \A r \in Requests : Running(r) => x \notin HeldRows(r)
AllLocked(r) == held[r] = Len(Locks(r))
NextRow(r) == Locks(r)[held[r] + 1]

Missed(r) == committed \ snapshot[r]
UpdatedBehind(r, x) == \E c \in Missed(r) : x \in Updates(c)

\* a did not see what b wrote
Overlooks(a, b) == Reads(a) \cap Writes(b) # {}

\* r overlooks a request that committed meanwhile
LooksBack(r) == \E c \in Missed(r) : Overlooks(r, c)

FaultyUnserializable(r) == FALSE

\* committing r would leave three transactions, or two, where the first overlooks
\* the second and the second the third, and the third committed first
Unserializable(r) ==
    \/ LooksBack(r) /\ \E c \in Missed(r) : Overlooks(c, r)
    \/ \E c \in Missed(r) \cap passedOver : Overlooks(r, c)

-----------------------------------------------------------------------------
(* Steps of a request *)

\* an attempt starts; a reversal names a payment that exists
Begin(r) ==
    /\ phase[r] = "waiting"
    /\ Kind(r) = "REVERSE" => Asks[r].on \in committed
    /\ phase' = [phase EXCEPT ![r] = "running"]
    /\ attempt' = [attempt EXCEPT ![r] = @ + 1]
    /\ snapshot' = [snapshot EXCEPT ![r] = committed]
    /\ held' = [held EXCEPT ![r] = 0]
    /\ UNCHANGED <<committed, expectedAmount, passedOver>>

\* the next SELECT ... FOR UPDATE gets its row; the document checks come before
\* the cash session is asked for
Lock(r) ==
    /\ Running(r)
    /\ ~AllLocked(r)
    /\ NextRow(r) = Drawer => DocumentCheck(r)
    /\ Free(NextRow(r))
    /\ ~UpdatedBehind(r, NextRow(r))
    /\ held' = [held EXCEPT ![r] = @ + 1]
    /\ UNCHANGED <<committed, expectedAmount, phase, attempt, snapshot, passedOver>>

End(r, answer) ==
    /\ phase' = [phase EXCEPT ![r] = answer]
    /\ held' = [held EXCEPT ![r] = 0]
    /\ UNCHANGED <<committed, expectedAmount, attempt, snapshot, passedOver>>

\* a check throws and the transaction rolls back: 4xx
Refuse(r) ==
    /\ Running(r)
    /\ \/ AllLocked(r) /\ ~(DocumentCheck(r) /\ CashCheck(r))
       \/ ~AllLocked(r) /\ NextRow(r) = Drawer /\ ~DocumentCheck(r)
    /\ End(r, "refused")

FaultyRetry(r) == End(r, "waiting")

\* P2034, or P2010 with 40001 or 40P01: again, or 409 after the last attempt
Retry(r) ==
    End(r, IF attempt[r] < MaxAttempts THEN "waiting" ELSE "conflict")

\* the row was updated by a transaction this one does not see
LockFails(r) ==
    /\ Running(r)
    /\ ~AllLocked(r)
    /\ Free(NextRow(r))
    /\ UpdatedBehind(r, NextRow(r))
    /\ Retry(r)

\* The database refuses to serialize.  It may do so without need, when it tracks
\* reads by page, but only among concurrent transactions.
SerializationFails(r) ==
    /\ Running(r)
    /\ AllLocked(r)
    /\ Missed(r) # {} \/ \E other \in Requests \ {r} : Running(other)
    /\ Retry(r)

\* the transaction commits; the answer may still be lost on its way
Commit(r, answer) ==
    /\ Running(r)
    /\ AllLocked(r)
    /\ DocumentCheck(r)
    /\ CashCheck(r)
    /\ ~Unserializable(r)
    /\ committed' = committed \cup {r}
    /\ expectedAmount' = IF Kind(r) = "CLOSE" THEN View(snapshot[r])!Expected(Drawer)
                         ELSE expectedAmount
    /\ passedOver' = IF LooksBack(r) THEN passedOver \cup {r} ELSE passedOver
    /\ phase' = [phase EXCEPT ![r] = answer]
    /\ held' = [held EXCEPT ![r] = 0]
    /\ UNCHANGED <<attempt, snapshot>>

\* the transaction exceeds its time or the process dies: rolled back, no retry
Abort(r) == Running(r) /\ End(r, "failed")

TxInit ==
    /\ committed = Before
    /\ expectedAmount = 0
    /\ phase = [r \in Requests |-> IF r \in Before THEN "accepted" ELSE "waiting"]
    /\ attempt = [r \in Requests |-> 0]
    /\ snapshot = [r \in Requests |-> {}]
    /\ held = [r \in Requests |-> 0]
    /\ passedOver = {}

\* what the server and the database do of themselves for a request
Proceed(r) ==
    \/ Begin(r)
    \/ Lock(r)
    \/ Refuse(r)
    \/ LockFails(r)
    \/ SerializationFails(r)
    \/ Commit(r, "accepted")

TxNext ==
    \E r \in Requests : Proceed(r) \/ Commit(r, "failed") \/ Abort(r)

TxSpec == TxInit /\ [][TxNext]_txVars

FairTxSpec == TxSpec /\ \A r \in Requests : WF_txVars(Proceed(r))

-----------------------------------------------------------------------------
(* Properties *)

Answers == {"accepted", "refused", "conflict", "failed"}

\* Every request is in one phase, tried at most MaxAttempts times, and an
\* accepted or committed request has exactly one transaction behind it.
TxTypeOK ==
    /\ committed \subseteq Requests
    /\ expectedAmount \in Int
    /\ phase \in [Requests -> {"waiting", "running"} \cup Answers]
    /\ attempt \in [Requests -> 0..MaxAttempts]
    /\ snapshot \in [Requests -> SUBSET Requests]
    /\ \A r \in Requests : held[r] \in 0..Len(Locks(r))
    /\ passedOver \subseteq committed
    /\ \A r \in Requests : phase[r] = "accepted" => r \in committed

Now == INSTANCE Payments WITH
        PurchaseDocs <- {}, PurchaseReturnDocs <- {}, PaymentIds <- Payers,
        CashMethods <- {Cash}, OtherMethods <- {Card}, Registers <- {Register},
        Sessions <- {Drawer}, Entries <- {}, CountedAmounts <- {0, Opening},
        Amounts <- {Asks[p].amount : p \in Payers},
        activeRegisters <- {Register}, activeMethods <- {Cash, Card},
        status <- [d \in SaleDocs \cup SaleReturnDocs |-> "POSTED"],
        sessions <- [s \in {Drawer} |-> SessionIn(committed)],
        payments <- [p \in Payers |-> Row(committed, p)],
        cashMovements <- RowsOfCash(committed)

\* Every step of the interleaved transactions is, on the committed data, one
\* operation of Payments made at once, or no change at all: the checks hold on
\* the data the commit meets, although they were made on an older snapshot.
\* The data of Payments is a function of committed and expectedAmount.
ImplementsPayments ==
    [][<<committed, expectedAmount>>' # <<committed, expectedAmount>>
           => Now!PaymentsNext]_txVars

\* The committed data satisfies what Payments promises.
CommittedIsSound ==
    /\ Now!SaleSettlementSound
    /\ Now!DrawerNeverNegative
    /\ Now!ClosingSnapshotHolds
    /\ Now!CashMatchesPayments

WaitsFor(a, b) ==
    /\ Running(a) /\ Running(b)
    /\ ~AllLocked(a)
    /\ NextRow(a) \in HeldRows(b)

\* No transactions wait for each other in a circle, of two or more: every
\* operation locks document, return, payment and cash session in this order.
NoLockCycle ==
    \A circle \in SUBSET Requests : circle # {} =>
        \E a \in circle : \A b \in circle : ~WaitsFor(a, b)

\* A request whose transaction was started gets an answer: whatever the others
\* do, it ends accepted, refused, in conflict after three attempts, or failed.
EveryRequestAnswered ==
    \A r \in Requests : Running(r) ~> phase[r] \in Answers
=============================================================================
