------------------------- MODULE SettlementTxProofs -------------------------
(***************************************************************************)
(* What the interleaved transactions promise for any requests. Their state *)
(* is well formed, and no transactions ever wait for each other in a       *)
(* circle, because every operation locks rows of growing rank.             *)
(*                                                                         *)
(* What a transaction that may commit has missed since its snapshot is too *)
(* little to change its checks: nothing on its sale, no closing of the     *)
(* session it uses, no other cash taken out. So every commit is one        *)
(* operation of Payments made at once, and what PaymentsProofs shows of    *)
(* those operations holds of the committed data.                           *)
(***************************************************************************)
EXTENDS SettlementTx, Sums

-----------------------------------------------------------------------------
(* The order of the locks *)

\* document < return < payment < cash session
Rank(x) ==
    IF x = Drawer THEN 4
    ELSE IF x \in Requests THEN 3
    ELSE IF x \in SaleReturnDocs THEN 2
    ELSE 1

\* a sequence of rows of growing rank, all of ranks in low..high
Ascends(rows, low, high) ==
    /\ rows \in Seq(SaleDocs \cup SaleReturnDocs \cup Requests \cup {Drawer})
    /\ \A i \in 1..Len(rows) : low <= Rank(rows[i]) /\ Rank(rows[i]) <= high
    /\ \A i, j \in 1..Len(rows) : i < j => Rank(rows[i]) < Rank(rows[j])

LEMMA OneRowAscends ==
    ASSUME NEW x \in SaleDocs \cup SaleReturnDocs \cup Requests \cup {Drawer},
           NEW condition
    PROVE  Ascends(OnlyIf(condition, x), Rank(x), Rank(x))
<1>1. Rank(x) \in 1..4
  BY DEF Rank
<1>2. CASE condition
  <2>1. OnlyIf(condition, x) = <<x>>
    BY <1>2 DEF OnlyIf
  <2> QED BY <1>1, <2>1 DEF Ascends
<1>3. CASE ~condition
  <2>1. OnlyIf(condition, x) = <<>>
    BY <1>3 DEF OnlyIf
  <2> QED BY <2>1 DEF Ascends
<1> QED BY <1>2, <1>3

LEMMA AscendsOn ==
    ASSUME NEW a, NEW b, NEW low \in Nat, NEW mid \in Nat, NEW next \in Nat,
           NEW high \in Nat,
           Ascends(a, low, mid), Ascends(b, next, high),
           low <= mid, mid < next, next <= high
    PROVE  Ascends(a \o b, low, high)
<1> DEFINE Rows == SaleDocs \cup SaleReturnDocs \cup Requests \cup {Drawer}
<1>1. a \in Seq(Rows) /\ b \in Seq(Rows) /\ a \o b \in Seq(Rows)
  BY DEF Ascends
<1>2. /\ Len(a) \in Nat /\ Len(b) \in Nat /\ Len(a \o b) = Len(a) + Len(b)
      /\ \A i \in 1..Len(a) : (a \o b)[i] = a[i]
      /\ \A i \in Len(a)+1..Len(a)+Len(b) : (a \o b)[i] = b[i - Len(a)]
  BY <1>1
<1>3. \A x : Rank(x) \in 1..4
  BY DEF Rank
<1>4. /\ \A i \in 1..Len(a) : low <= Rank(a[i]) /\ Rank(a[i]) <= mid
      /\ \A i \in 1..Len(b) : next <= Rank(b[i]) /\ Rank(b[i]) <= high
      /\ \A i, j \in 1..Len(a) : i < j => Rank(a[i]) < Rank(a[j])
      /\ \A i, j \in 1..Len(b) : i < j => Rank(b[i]) < Rank(b[j])
  BY DEF Ascends
<1>5. ASSUME NEW i \in 1..Len(a \o b)
      PROVE  low <= Rank((a \o b)[i]) /\ Rank((a \o b)[i]) <= high
  <2>1. CASE i \in 1..Len(a)
    <3>1. (a \o b)[i] = a[i]
      BY <1>2, <2>1
    <3>2. low <= Rank(a[i]) /\ Rank(a[i]) <= mid /\ Rank(a[i]) \in Int
      BY <1>3, <1>4, <2>1
    <3>3. low <= Rank(a[i]) /\ Rank(a[i]) <= high
      BY <3>2
    <3> QED BY <3>1, <3>3
  <2>2. CASE i \in Len(a)+1..Len(a)+Len(b)
    <3>1. (a \o b)[i] = b[i - Len(a)] /\ i - Len(a) \in 1..Len(b)
      BY <1>2, <2>2
    <3>2. /\ next <= Rank(b[i - Len(a)]) /\ Rank(b[i - Len(a)]) <= high
          /\ Rank(b[i - Len(a)]) \in Int
      BY <1>3, <1>4, <3>1
    <3>3. low <= Rank(b[i - Len(a)]) /\ Rank(b[i - Len(a)]) <= high
      BY <3>2
    <3> QED BY <3>1, <3>3
  <2> QED BY <1>2, <2>1, <2>2
<1>6. ASSUME NEW i \in 1..Len(a \o b), NEW j \in 1..Len(a \o b), i < j
      PROVE  Rank((a \o b)[i]) < Rank((a \o b)[j])
  <2>1. CASE i \in 1..Len(a) /\ j \in 1..Len(a)
    <3>1. (a \o b)[i] = a[i] /\ (a \o b)[j] = a[j]
      BY <1>2, <2>1
    <3> QED BY <1>4, <1>6, <2>1, <3>1
  <2>2. CASE i \in 1..Len(a) /\ j \in Len(a)+1..Len(a)+Len(b)
    <3>1. /\ (a \o b)[i] = a[i] /\ (a \o b)[j] = b[j - Len(a)]
          /\ j - Len(a) \in 1..Len(b)
      BY <1>2, <2>2
    <3>2. Rank(a[i]) <= mid /\ next <= Rank(b[j - Len(a)])
      BY <1>4, <2>2, <3>1
    <3> QED BY <1>3, <3>1, <3>2
  <2>3. CASE i \in Len(a)+1..Len(a)+Len(b) /\ j \in Len(a)+1..Len(a)+Len(b)
    <3>1. /\ (a \o b)[i] = b[i - Len(a)] /\ (a \o b)[j] = b[j - Len(a)]
          /\ i - Len(a) \in 1..Len(b) /\ j - Len(a) \in 1..Len(b)
          /\ i - Len(a) < j - Len(a)
      BY <1>2, <1>6, <2>3
    <3> QED BY <1>4, <3>1
  <2> QED BY <1>2, <1>6, <2>1, <2>2, <2>3
<1> QED BY <1>1, <1>5, <1>6 DEF Ascends

\* What a request is on, whatever its kind.
LEMMA RequestRows ==
    ASSUME NEW r \in Requests, Kind(r) # "CLOSE"
    PROVE  /\ PaymentOf(r) \in Requests
           /\ Kind(PaymentOf(r)) \in {"SALE_PAYMENT", "SALE_REFUND"}
           /\ SaleOf(r) \in SaleDocs
           /\ Kind(PaymentOf(r)) = "SALE_REFUND" =>
                  Asks[PaymentOf(r)].on \in SaleReturnDocs
BY TxAssumption DEF PaymentOf, SaleOf, Kind

\* Every operation asks for rows of growing rank.
LEMMA LocksAscend ==
    ASSUME NEW r \in Requests
    PROVE  Ascends(Locks(r), 1, 4)
<1>1. CASE Kind(r) = "CLOSE"
  <2>1. Locks(r) = OnlyIf(TRUE, Drawer)
    BY <1>1 DEF Locks, OnlyIf
  <2>2. Rank(Drawer) = 4
    BY DEF Rank
  <2>3. Ascends(OnlyIf(TRUE, Drawer), 4, 4)
    BY <2>2, OneRowAscends
  <2>4. \A x : Rank(x) \in 1..4
    BY DEF Rank
  <2>5. Ascends(OnlyIf(TRUE, Drawer), 1, 4)
    <3> DEFINE rows == OnlyIf(TRUE, Drawer)
    <3> HIDE DEF rows
    <3>1. Ascends(rows, 4, 4) => Ascends(rows, 1, 4)
      BY <2>4 DEF Ascends
    <3> QED BY <2>3, <3>1 DEF rows
  <2> QED BY <2>1, <2>5
<1>2. CASE Kind(r) # "CLOSE"
  <2> DEFINE p == PaymentOf(r)
             A == OnlyIf(TRUE, SaleOf(r))
             B == OnlyIf(Kind(p) = "SALE_REFUND", Asks[p].on)
             C == OnlyIf(Kind(r) = "REVERSE", p)
             D == OnlyIf(UsesCash(r), Drawer)
  <2>1. Locks(r) = A \o B \o C \o D
    BY <1>2 DEF Locks, OnlyIf
  <2>2. Ascends(A, 1, 1)
    <3>1. SaleOf(r) \in SaleDocs
      BY <1>2, RequestRows
    <3>2. Rank(SaleOf(r)) = 1
      BY <3>1, TxAssumption DEF Rank
    <3> QED BY <3>1, <3>2, OneRowAscends
  <2>3. Ascends(B, 2, 2)
    <3>1. CASE Kind(p) = "SALE_REFUND"
      <4>1. Asks[p].on \in SaleReturnDocs
        BY <1>2, <3>1, RequestRows
      <4>2. Rank(Asks[p].on) = 2
        BY <4>1, TxAssumption DEF Rank
      <4> QED BY <4>1, <4>2, OneRowAscends
    <3>2. CASE Kind(p) # "SALE_REFUND"
      BY <3>2 DEF OnlyIf, Ascends
    <3> QED BY <3>1, <3>2
  <2>4. Ascends(C, 3, 3)
    <3>1. p \in Requests
      BY <1>2, RequestRows
    <3>2. Rank(p) = 3
      BY <3>1, TxAssumption DEF Rank
    <3> QED BY <3>1, <3>2, OneRowAscends
  <2>5. Ascends(D, 4, 4)
    <3>1. Rank(Drawer) = 4
      BY DEF Rank
    <3> QED BY <3>1, OneRowAscends
  <2> HIDE DEF A, B, C, D
  <2>6. Ascends(A \o B, 1, 2)
    BY <2>2, <2>3, AscendsOn
  <2>7. Ascends((A \o B) \o C, 1, 3)
    BY <2>4, <2>6, AscendsOn
  <2>8. Ascends(((A \o B) \o C) \o D, 1, 4)
    BY <2>5, <2>7, AscendsOn
  <2> QED BY <2>1, <2>8
<1> QED BY <1>1, <1>2

LEMMA LocksCount ==
    ASSUME NEW r \in Requests PROVE Len(Locks(r)) \in Nat
BY LocksAscend DEF Ascends

-----------------------------------------------------------------------------
(* The state of the transactions *)

LEMMA CashRowsAreMoney ==
    ASSUME NEW S \in SUBSET Requests
    PROVE  /\ IsFiniteSet(RowsOfCash(S))
           /\ \A m \in RowsOfCash(S) : m.session = Drawer /\ m.amount \in Nat
<1> DEFINE Row2(r) ==
        LET type == IF Kind(r) = "REVERSE" THEN ReversalName[Kind(Asks[r].on)]
                    ELSE Kind(r)
        IN  [key |-> <<PaymentOf(r), type>>, session |-> Drawer, type |-> type,
             amount |-> Asks[PaymentOf(r)].amount]
           U == {q \in S : UsesCash(q)}
<1>1. IsFiniteSet(U)
  <2>1. U \in SUBSET Requests
    OBVIOUS
  <2> QED BY <2>1, FS_Subset, TxAssumption
<1>2. RowsOfCash(S) = {Row2(r) : r \in U}
  BY DEF RowsOfCash
<1>3. IsFiniteSet({Row2(r) : r \in U})
  <2> DEFINE f == [r \in U |-> Row2(r)]
  <2>1. IsFiniteSet({f[r] : r \in U})
    <3> HIDE DEF f, U
    <3> QED BY <1>1, ImageIsFinite
  <2>2. {f[r] : r \in U} = {Row2(r) : r \in U}
    <3> HIDE DEF U
    <3> QED OBVIOUS
  <2> QED BY <2>1, <2>2
<1>4. \A r \in U : Asks[PaymentOf(r)].amount \in Nat
  BY RequestRows, TxAssumption DEF UsesCash, Kind
<1> QED BY <1>2, <1>3, <1>4

\* The sums of Payments are the sums of this module.
LEMMA ViewSums ==
    \A S, f, T : View(S)!SumFunctionOnSet(f, T) = SumFunctionOnSet(f, T)
BY DEF SumFunctionOnSet, FoldFunctionOnSet, MapThenFoldSet, View!SumFunctionOnSet,
       View!FoldFunctionOnSet, View!MapThenFoldSet

LEMMA ExpectedIsMoney ==
    ASSUME NEW S \in SUBSET Requests
    PROVE  View(S)!Expected(Drawer) \in Int
<1> DEFINE M == View(S)!MovementsOf(Drawer)
           f == [m \in M |-> View(S)!MovementDelta(m)]
<1>1. M \subseteq RowsOfCash(S)
  BY DEF View!MovementsOf
<1>2. IsFiniteSet(M)
  BY <1>1, CashRowsAreMoney, FS_Subset
<1>3. Integral(f, M)
  <2>1. \A m \in M : m.amount \in Int
    BY <1>1, CashRowsAreMoney
  <2> QED BY <2>1 DEF Integral, View!MovementDelta
<1>4. SumFunctionOnSet(f, M) \in Int
  BY <1>2, <1>3, SumInt
<1>5. View(S)!Expected(Drawer) = Opening + View(S)!NetCash(M)
  BY DEF View!Expected, SessionIn
<1>6. View(S)!NetCash(M) = SumFunctionOnSet(f, M)
  <2> HIDE DEF M
  <2> QED BY ViewSums DEF View!NetCash
<1> HIDE DEF M, f
<1> QED BY <1>4, <1>5, <1>6, TxAssumption

TxInv ==
    /\ TxTypeOK
    /\ held \in [Requests -> Nat]
    /\ \A r \in Requests : phase[r] = "waiting" => attempt[r] < MaxAttempts

LEMMA TxInvInit == TxInit => TxInv
<1> SUFFICES ASSUME TxInit PROVE TxInv
  OBVIOUS
<1>1. attempt \in [Requests -> 0..MaxAttempts] /\ \A r \in Requests : attempt[r] < MaxAttempts
  BY TxAssumption DEF TxInit
<1>2. \A r \in Requests : held[r] \in 0..Len(Locks(r))
  BY LocksCount DEF TxInit
<1> QED BY <1>1, <1>2, TxAssumption DEF TxInit, TxInv, TxTypeOK, Answers

LEMMA EndKeepsTx ==
    ASSUME TxInv, NEW r \in Requests, NEW answer \in {"waiting", "refused", "conflict", "failed"},
           answer = "waiting" => attempt[r] < MaxAttempts, End(r, answer)
    PROVE  TxInv'
<1>1. phase' \in [Requests -> {"waiting", "running"} \cup Answers]
  BY DEF TxInv, TxTypeOK, End, Answers
<1>2. held' \in [Requests -> Nat] /\ \A q \in Requests : held'[q] \in 0..Len(Locks(q))
  BY LocksCount DEF TxInv, TxTypeOK, End
<1>3. \A q \in Requests : /\ phase'[q] = "accepted" => q \in committed'
                          /\ phase'[q] = "waiting" => attempt'[q] < MaxAttempts
  BY DEF TxInv, TxTypeOK, End, Answers
<1> QED BY <1>1, <1>2, <1>3 DEF TxInv, TxTypeOK, End

LEMMA RetryKeepsTx ==
    ASSUME TxInv, NEW r \in Requests, Retry(r) PROVE TxInv'
<1>1. CASE attempt[r] < MaxAttempts
  <2>1. End(r, "waiting")
    BY <1>1 DEF Retry
  <2> QED BY <1>1, <2>1, EndKeepsTx
<1>2. CASE ~(attempt[r] < MaxAttempts)
  <2>1. End(r, "conflict")
    BY <1>2 DEF Retry
  <2> QED BY <2>1, EndKeepsTx
<1> QED BY <1>1, <1>2

LEMMA CommitKeepsTx ==
    ASSUME TxInv, NEW r \in Requests, NEW answer \in {"accepted", "failed"},
           Commit(r, answer)
    PROVE  TxInv'
<1>1. phase' \in [Requests -> {"waiting", "running"} \cup Answers]
  BY DEF TxInv, TxTypeOK, Commit, Answers
<1>2. held' \in [Requests -> Nat] /\ \A q \in Requests : held'[q] \in 0..Len(Locks(q))
  BY LocksCount DEF TxInv, TxTypeOK, Commit
<1>3. expectedAmount' \in Int
  BY ExpectedIsMoney DEF TxInv, TxTypeOK, Commit
<1>4. \A q \in Requests : /\ phase'[q] = "accepted" => q \in committed'
                          /\ phase'[q] = "waiting" => attempt'[q] < MaxAttempts
  BY DEF TxInv, TxTypeOK, Commit
<1>5. /\ committed' \subseteq Requests /\ passedOver' \subseteq committed'
      /\ attempt' = attempt /\ snapshot' = snapshot
  BY DEF TxInv, TxTypeOK, Commit
<1> QED BY <1>1, <1>2, <1>3, <1>4, <1>5 DEF TxInv, TxTypeOK

LEMMA TxInvStep == TxInv /\ [TxNext]_txVars => TxInv'
<1> SUFFICES ASSUME TxInv, [TxNext]_txVars PROVE TxInv'
  OBVIOUS
<1>1. ASSUME NEW r \in Requests, Begin(r) PROVE TxInv'
  <2>1. phase[r] = "waiting" /\ attempt[r] \in 0..MaxAttempts /\ attempt[r] < MaxAttempts
    BY <1>1 DEF Begin, TxInv, TxTypeOK
  <2>2. attempt' \in [Requests -> 0..MaxAttempts]
    BY <1>1, <2>1, TxAssumption DEF Begin, TxInv, TxTypeOK
  <2>3. phase' \in [Requests -> {"waiting", "running"} \cup Answers]
    BY <1>1 DEF TxInv, TxTypeOK, Begin, Answers
  <2>4. held' \in [Requests -> Nat] /\ \A q \in Requests : held'[q] \in 0..Len(Locks(q))
    BY <1>1, LocksCount DEF TxInv, TxTypeOK, Begin
  <2>5. \A q \in Requests : /\ phase'[q] = "accepted" => q \in committed'
                            /\ phase'[q] = "waiting" => attempt'[q] < MaxAttempts
    BY <1>1 DEF TxInv, TxTypeOK, Begin
  <2> QED BY <1>1, <2>2, <2>3, <2>4, <2>5 DEF TxInv, TxTypeOK, Begin
<1>2. ASSUME NEW r \in Requests, Lock(r) PROVE TxInv'
  <2>1. held' \in [Requests -> Nat] /\ \A q \in Requests : held'[q] \in 0..Len(Locks(q))
    BY <1>2, LocksCount DEF TxInv, TxTypeOK, Lock, AllLocked
  <2> QED BY <1>2, <2>1 DEF TxInv, TxTypeOK, Lock
<1>3. ASSUME NEW r \in Requests, Refuse(r) PROVE TxInv'
  BY <1>3, EndKeepsTx DEF Refuse
<1>4. ASSUME NEW r \in Requests, LockFails(r) \/ SerializationFails(r) PROVE TxInv'
  BY <1>4, RetryKeepsTx DEF LockFails, SerializationFails
<1>5. ASSUME NEW r \in Requests, Abort(r) PROVE TxInv'
  BY <1>5, EndKeepsTx DEF Abort
<1>6. CASE UNCHANGED txVars
  BY <1>6 DEF TxInv, TxTypeOK, txVars
<1> QED BY <1>1, <1>2, <1>3, <1>4, <1>5, <1>6, CommitKeepsTx DEF TxNext, Proceed

LEMMA TxInvariant == TxSpec => []TxInv
<1> QED BY TxInvInit, TxInvStep, PTL DEF TxSpec

\* Whatever the requests, each is in one phase and tried at most MaxAttempts
\* times, and no request is told accepted unless its transaction committed.
THEOREM TransactionsTyped == TxSpec => []TxTypeOK
<1>1. TxInv => TxTypeOK
  BY DEF TxInv
<1> QED BY <1>1, TxInvariant, PTL

-----------------------------------------------------------------------------
(* Nobody waits in a circle *)

\* A transaction that waits holds rows of lower rank only.
LEMMA WaitingClimbs ==
    ASSUME TxInv, NEW a \in Requests, NEW b \in Requests, NEW c \in Requests,
           WaitsFor(a, b), WaitsFor(b, c)
    PROVE  /\ Rank(NextRow(a)) < Rank(NextRow(b))
           /\ Rank(NextRow(a)) \in 1..4 /\ Rank(NextRow(b)) \in 1..4
<1>1. \A x : Rank(x) \in 1..4
  BY DEF Rank
<1>2. PICK i \in 1..held[b] : NextRow(a) = Locks(b)[i]
  BY DEF WaitsFor, HeldRows
<1>3. NextRow(b) = Locks(b)[held[b] + 1]
  BY DEF NextRow
<1>4. /\ held[b] \in Nat /\ Len(Locks(b)) \in Nat
      /\ held[b] <= Len(Locks(b)) /\ held[b] # Len(Locks(b))
  BY LocksCount DEF TxInv, TxTypeOK, WaitsFor, AllLocked
<1>5. Rank(Locks(b)[i]) < Rank(Locks(b)[held[b] + 1])
  <2>1. /\ i \in 1..Len(Locks(b)) /\ held[b] + 1 \in 1..Len(Locks(b))
        /\ i < held[b] + 1
    BY <1>4
  <2> QED BY <2>1, LocksAscend DEF Ascends
<1> QED BY <1>1, <1>2, <1>3, <1>5

LEMMA NoCircle == TxInv => NoLockCycle
<1> SUFFICES ASSUME TxInv, NEW circle \in SUBSET Requests,
                    \A a \in circle : \E b \in circle : WaitsFor(a, b)
             PROVE  circle = {}
  BY DEF NoLockCycle
<1>1. \A a \in circle : \E b \in circle :
          /\ Rank(NextRow(a)) < Rank(NextRow(b))
          /\ Rank(NextRow(a)) \in 1..4 /\ Rank(NextRow(b)) \in 1..4
  BY WaitingClimbs
<1>2. \A a \in circle : Rank(NextRow(a)) < 4
  BY <1>1
<1>3. ASSUME NEW n \in 1..4, \A a \in circle : Rank(NextRow(a)) < n
      PROVE  \A a \in circle : Rank(NextRow(a)) < n - 1
  <2> SUFFICES ASSUME NEW a \in circle PROVE Rank(NextRow(a)) < n - 1
    OBVIOUS
  <2>1. PICK b \in circle : /\ Rank(NextRow(a)) < Rank(NextRow(b))
                            /\ Rank(NextRow(a)) \in 1..4 /\ Rank(NextRow(b)) \in 1..4
    BY <1>1
  <2>2. Rank(NextRow(b)) < n
    BY <1>3
  <2> QED BY <2>1, <2>2
<1>4. \A a \in circle : Rank(NextRow(a)) < 3
  BY <1>2, <1>3
<1>5. \A a \in circle : Rank(NextRow(a)) < 1
  <2>1. \A a \in circle : Rank(NextRow(a)) < 2
    BY <1>3, <1>4
  <2> QED BY <1>3, <2>1
<1> QED BY <1>1, <1>5

\* However many transactions run at once over however many documents, returns,
\* payments and requests for the drawer, none of them wait for each other in a
\* circle: the database never has to break a deadlock among them.
THEOREM LocksNeverDeadlock == TxSpec => []NoLockCycle
<1> QED BY NoCircle, TxInvariant, PTL

-----------------------------------------------------------------------------
(* What a committing transaction sees *)

\* Snapshots only miss later commits; who committed does not run again; a row is
\* locked by one transaction at a time; no row a transaction holds was updated
\* behind its snapshot; what is reversed was paid.
LocksInv ==
    /\ TxInv
    /\ \A r \in Requests : snapshot[r] \subseteq committed
    /\ \A r \in committed : phase[r] \in {"accepted", "failed"}
    /\ \A a, b \in Requests :
           a # b /\ Running(a) /\ Running(b) => HeldRows(a) \cap HeldRows(b) = {}
    /\ \A r \in Requests :
           Running(r) => \A x \in HeldRows(r) : ~UpdatedBehind(r, x)
    /\ \A r \in committed : Kind(r) = "REVERSE" => Asks[r].on \in committed

LEMMA LocksInvInit == TxInit => LocksInv
<1> SUFFICES ASSUME TxInit PROVE LocksInv
  OBVIOUS
<1>1. \A r \in Requests : ~Running(r)
  BY DEF TxInit, Running
<1>2. \A r \in committed : phase[r] = "accepted"
  BY TxAssumption DEF TxInit
<1>3. \A r \in committed : Kind(r) = "REVERSE" => Asks[r].on \in committed
  BY TxAssumption DEF TxInit, Kind
<1>4. \A r \in Requests : snapshot[r] \subseteq committed
  BY DEF TxInit
<1> QED BY <1>1, <1>2, <1>3, <1>4, TxInvInit DEF LocksInv

LEMMA OnlyIfIsRows ==
    ASSUME NEW condition, NEW U, NEW x \in U
    PROVE  OnlyIf(condition, x) \in Seq(U)
<1>1. CASE condition
  BY <1>1 DEF OnlyIf
<1>2. CASE ~condition
  BY <1>2 DEF OnlyIf
<1> QED BY <1>1, <1>2

LEMMA RowsJoin ==
    ASSUME NEW U, NEW a \in Seq(U), NEW b \in Seq(U)
    PROVE  /\ a \o b \in Seq(U)
           /\ Len(a) \in Nat /\ Len(b) \in Nat /\ Len(a \o b) = Len(a) + Len(b)
           /\ \A i \in Len(a)+1..Len(a)+Len(b) : (a \o b)[i] = b[i - Len(a)]
<1>1. a \in Seq(U) /\ b \in Seq(U) /\ a \o b \in Seq(U)
  OBVIOUS
<1> QED BY <1>1

LEMMA RowAtEnd ==
    ASSUME NEW U, NEW rows \in Seq(U), NEW x \in U
    PROVE  /\ rows \o <<x>> \in Seq(U)
           /\ Len(rows \o <<x>>) = Len(rows) + 1
           /\ (rows \o <<x>>)[Len(rows) + 1] = x
<1>1. <<x>> \in Seq(U) /\ Len(<<x>>) = 1 /\ <<x>>[1] = x
  OBVIOUS
<1> DEFINE last == <<x>>
<1> HIDE DEF last
<1>2. last \in Seq(U) /\ Len(last) = 1 /\ last[1] = x
  BY <1>1 DEF last
<1>3. /\ rows \o last \in Seq(U)
      /\ Len(rows) \in Nat /\ Len(rows \o last) = Len(rows) + Len(last)
      /\ \A i \in Len(rows)+1..Len(rows)+Len(last) :
             (rows \o last)[i] = last[i - Len(rows)]
  BY <1>2, RowsJoin
<1>4. (rows \o last)[Len(rows) + 1] = last[1]
  <2>1. Len(rows) + 1 \in Len(rows)+1..Len(rows)+Len(last) /\ Len(rows) + 1 - Len(rows) = 1
    BY <1>2, <1>3
  <2> QED BY <1>3, <2>1
<1> QED BY <1>2, <1>3, <1>4 DEF last

\* What a request updates it has locked, once it has locked all its rows.
LEMMA UpdatesAreHeld ==
    ASSUME NEW r \in Requests, AllLocked(r)
    PROVE  Updates(r) \subseteq HeldRows(r)
<1>1. HeldRows(r) = {Locks(r)[i] : i \in 1..Len(Locks(r))}
  BY DEF AllLocked, HeldRows
<1>2. CASE Kind(r) = "CLOSE"
  <2>1. Locks(r) = <<Drawer>> /\ Updates(r) = {Drawer}
    BY <1>2 DEF Locks, Updates
  <2> QED BY <1>1, <2>1
<1>3. CASE Kind(r) = "REVERSE"
  <2>1. Updates(r) = {Asks[r].on} /\ PaymentOf(r) = Asks[r].on
    BY <1>3 DEF Updates, PaymentOf
  <2>2. Asks[r].on \in {Locks(r)[i] : i \in 1..Len(Locks(r))}
    <3> DEFINE x == Asks[r].on
               A == OnlyIf(TRUE, SaleOf(r)) \o OnlyIf(Kind(x) = "SALE_REFUND", Asks[x].on)
               C == OnlyIf(UsesCash(r), Drawer)
               U == {SaleOf(r), Asks[x].on, x, Drawer}
    <3>1. Locks(r) = (A \o <<x>>) \o C
      BY <1>3, <2>1 DEF Locks, OnlyIf
    <3>2. A \in Seq(U) /\ C \in Seq(U)
      <4>1. /\ OnlyIf(TRUE, SaleOf(r)) \in Seq(U)
            /\ OnlyIf(Kind(x) = "SALE_REFUND", Asks[x].on) \in Seq(U)
            /\ OnlyIf(UsesCash(r), Drawer) \in Seq(U)
        BY OnlyIfIsRows
      <4> QED BY <4>1, RowsJoin
    <3>3. /\ A \o <<x>> \in Seq(U) /\ Len(A \o <<x>>) = Len(A) + 1
          /\ (A \o <<x>>)[Len(A) + 1] = x /\ Len(A) \in Nat
      <4> HIDE DEF A, C
      <4> QED BY <3>2, RowAtEnd
    <3> DEFINE front == A \o <<x>>
    <3>4. Len(A) + 1 \in 1..Len(front \o C) /\ (front \o C)[Len(A) + 1] = x
      <4> HIDE DEF front, A, C
      <4> QED BY <3>2, <3>3 DEF front
    <3> QED BY <3>1, <3>4
  <2> QED BY <1>1, <2>1, <2>2
<1>4. CASE Kind(r) \notin {"CLOSE", "REVERSE"}
  BY <1>4 DEF Updates
<1> QED BY <1>2, <1>3, <1>4

\* A request on cash, or one that closes, holds the drawer when all is locked.
LEMMA DrawerIsHeld ==
    ASSUME NEW r \in Requests, AllLocked(r), UsesCash(r) \/ Kind(r) = "CLOSE"
    PROVE  Drawer \in HeldRows(r)
<1>1. HeldRows(r) = {Locks(r)[i] : i \in 1..Len(Locks(r))}
  BY DEF AllLocked, HeldRows
<1>2. CASE Kind(r) = "CLOSE"
  <2>1. Locks(r) = <<Drawer>>
    BY <1>2 DEF Locks
  <2> QED BY <1>1, <2>1
<1>3. CASE Kind(r) # "CLOSE" /\ UsesCash(r)
  <2> DEFINE p == PaymentOf(r)
             A == OnlyIf(TRUE, SaleOf(r)) \o OnlyIf(Kind(p) = "SALE_REFUND", Asks[p].on)
                      \o OnlyIf(Kind(r) = "REVERSE", p)
             U == {SaleOf(r), Asks[p].on, p, Drawer}
  <2>1. Locks(r) = A \o <<Drawer>>
    BY <1>3 DEF Locks, OnlyIf
  <2>2. A \in Seq(U)
    <3>1. /\ OnlyIf(TRUE, SaleOf(r)) \in Seq(U)
          /\ OnlyIf(Kind(p) = "SALE_REFUND", Asks[p].on) \in Seq(U)
          /\ OnlyIf(Kind(r) = "REVERSE", p) \in Seq(U)
      BY OnlyIfIsRows
    <3> DEFINE a == OnlyIf(TRUE, SaleOf(r))
               b == OnlyIf(Kind(p) = "SALE_REFUND", Asks[p].on)
               c == OnlyIf(Kind(r) = "REVERSE", p)
    <3> HIDE DEF a, b, c, U
    <3>2. (a \o b) \o c \in Seq(U)
      BY <3>1, RowsJoin DEF a, b, c
    <3> QED BY <3>2 DEF a, b, c
  <2>3. Len(A) + 1 \in 1..Len(A \o <<Drawer>>) /\ (A \o <<Drawer>>)[Len(A) + 1] = Drawer
    <3> HIDE DEF A
    <3> QED BY <2>2, RowAtEnd
  <2> QED BY <1>1, <2>1, <2>3
<1> QED BY <1>2, <1>3

\* Ending a transaction takes its locks away and changes no data.
LEMMA EndKeepsLocks ==
    ASSUME LocksInv, TxInv', NEW r \in Requests, r \notin committed,
           NEW answer \in {"waiting", "refused", "conflict", "failed"}, End(r, answer)
    PROVE  LocksInv'
<1>1. /\ committed' = committed /\ snapshot' = snapshot
      /\ \A q \in Requests : Running(q)' => q # r /\ Running(q)
      /\ \A q \in Requests \ {r} : held'[q] = held[q]
      /\ \A q \in committed : phase'[q] = phase[q]
  BY DEF LocksInv, TxInv, TxTypeOK, End, Running
<1>2. \A q \in Requests \ {r} : HeldRows(q)' = HeldRows(q)
  BY <1>1 DEF HeldRows
<1>3. \A q \in Requests : \A x : UpdatedBehind(q, x)' <=> UpdatedBehind(q, x)
  BY <1>1 DEF UpdatedBehind, Missed
<1> QED BY <1>1, <1>2, <1>3 DEF LocksInv

LEMMA CommitKeepsLocks ==
    ASSUME LocksInv, TxInv', NEW r \in Requests, NEW answer \in {"accepted", "failed"},
           Commit(r, answer)
    PROVE  LocksInv'
<1>1. /\ committed' = committed \cup {r} /\ snapshot' = snapshot
      /\ phase' = [phase EXCEPT ![r] = answer] /\ held' = [held EXCEPT ![r] = 0]
      /\ AllLocked(r) /\ Running(r)
  BY DEF Commit
<1>2. /\ \A q \in Requests : Running(q)' => q # r /\ Running(q)
      /\ \A q \in Requests \ {r} : held'[q] = held[q]
      /\ \A q \in committed' : phase'[q] \in {"accepted", "failed"}
  BY <1>1 DEF LocksInv, TxInv, TxTypeOK, Running
<1>3. \A q \in Requests \ {r} : HeldRows(q)' = HeldRows(q)
  BY <1>2 DEF HeldRows
<1>4. ASSUME NEW q \in Requests, Running(q)', NEW x \in HeldRows(q)'
      PROVE  ~UpdatedBehind(q, x)'
  <2>1. q # r /\ Running(q) /\ x \in HeldRows(q)
    BY <1>2, <1>3, <1>4
  <2>2. ~UpdatedBehind(q, x) /\ x \notin HeldRows(r)
    BY <1>1, <2>1 DEF LocksInv
  <2>3. x \notin Updates(r)
    BY <1>1, <2>2, UpdatesAreHeld
  <2> QED BY <1>1, <2>2, <2>3 DEF UpdatedBehind, Missed
<1>5. ASSUME NEW q \in committed', Kind(q) = "REVERSE" PROVE Asks[q].on \in committed'
  <2>1. CASE q \in committed
    BY <1>1, <1>5, <2>1 DEF LocksInv
  <2>2. CASE q = r
    <3>1. Row(snapshot[r], Asks[r].on).status = "POSTED"
      BY <1>5, <2>2 DEF Commit, DocumentCheck
    <3>2. Asks[r].on \in snapshot[r]
      BY <3>1 DEF Row
    <3> QED BY <1>1, <2>2, <3>2 DEF LocksInv
  <2> QED BY <1>1, <1>5, <2>1, <2>2
<1>6. \A q \in Requests : snapshot'[q] \subseteq committed'
  BY <1>1 DEF LocksInv
<1>7. \A a, b \in Requests :
          a # b /\ Running(a)' /\ Running(b)' => HeldRows(a)' \cap HeldRows(b)' = {}
  BY <1>2, <1>3 DEF LocksInv
<1> QED BY <1>2, <1>4, <1>5, <1>6, <1>7 DEF LocksInv

LEMMA LocksInvStep == LocksInv /\ [TxNext]_txVars => LocksInv'
<1> SUFFICES ASSUME LocksInv, [TxNext]_txVars PROVE LocksInv'
  OBVIOUS
<1>1. TxInv'
  BY TxInvStep DEF LocksInv
<1>2. ASSUME NEW r \in Requests, Begin(r) PROVE LocksInv'
  <2>1. /\ committed' = committed /\ snapshot' = [snapshot EXCEPT ![r] = committed]
        /\ phase' = [phase EXCEPT ![r] = "running"] /\ held' = [held EXCEPT ![r] = 0]
        /\ phase[r] = "waiting"
    BY <1>2 DEF Begin
  <2>2. r \notin committed
    BY <2>1 DEF LocksInv
  <2>3. /\ \A q \in Requests \ {r} : /\ Running(q)' <=> Running(q)
                                     /\ held'[q] = held[q] /\ snapshot'[q] = snapshot[q]
        /\ held'[r] = 0
    BY <2>1 DEF LocksInv, TxInv, TxTypeOK, Running
  <2>4. HeldRows(r)' = {} /\ \A q \in Requests \ {r} : HeldRows(q)' = HeldRows(q)
    BY <2>3 DEF HeldRows
  <2>5. \A q \in Requests \ {r} : \A x : UpdatedBehind(q, x)' <=> UpdatedBehind(q, x)
    BY <2>1, <2>3 DEF UpdatedBehind, Missed
  <2>6. \A q \in Requests : snapshot'[q] \subseteq committed'
    BY <2>1, <2>3 DEF LocksInv, TxInv, TxTypeOK
  <2>7. \A q \in committed' : phase'[q] \in {"accepted", "failed"}
    BY <2>1, <2>2 DEF LocksInv, TxInv, TxTypeOK
  <2>8. \A a, b \in Requests :
            a # b /\ Running(a)' /\ Running(b)' => HeldRows(a)' \cap HeldRows(b)' = {}
    BY <2>3, <2>4 DEF LocksInv
  <2>9. \A q \in Requests : Running(q)' => \A x \in HeldRows(q)' : ~UpdatedBehind(q, x)'
    BY <2>3, <2>4, <2>5 DEF LocksInv
  <2> QED BY <1>1, <2>1, <2>6, <2>7, <2>8, <2>9 DEF LocksInv
<1>3. ASSUME NEW r \in Requests, Lock(r) PROVE LocksInv'
  <2>1. /\ committed' = committed /\ snapshot' = snapshot /\ phase' = phase
        /\ held' = [held EXCEPT ![r] = @ + 1] /\ held[r] \in Nat
        /\ Running(r) /\ Free(NextRow(r)) /\ ~UpdatedBehind(r, NextRow(r))
    BY <1>3 DEF Lock, LocksInv, TxInv
  <2>2. HeldRows(r)' = HeldRows(r) \cup {NextRow(r)}
    <3>1. held'[r] = held[r] + 1 /\ 1..(held[r] + 1) = 1..held[r] \cup {held[r] + 1}
      BY <2>1 DEF LocksInv, TxInv
    <3> QED BY <3>1 DEF HeldRows, NextRow
  <2>3. \A q \in Requests \ {r} : HeldRows(q)' = HeldRows(q)
    BY <2>1 DEF HeldRows, LocksInv, TxInv
  <2>4. \A q \in Requests : \A x : UpdatedBehind(q, x)' <=> UpdatedBehind(q, x)
    BY <2>1 DEF UpdatedBehind, Missed
  <2>5. \A q \in Requests : Running(q)' <=> Running(q)
    BY <2>1 DEF Running
  <2>6. \A a, b \in Requests :
            a # b /\ Running(a)' /\ Running(b)' => HeldRows(a)' \cap HeldRows(b)' = {}
    <3> SUFFICES ASSUME NEW a \in Requests, NEW b \in Requests, a # b,
                        Running(a), Running(b)
                 PROVE  HeldRows(a)' \cap HeldRows(b)' = {}
      BY <2>5
    <3>1. HeldRows(a) \cap HeldRows(b) = {}
      BY DEF LocksInv
    <3>2. NextRow(r) \notin HeldRows(a) /\ NextRow(r) \notin HeldRows(b)
      BY <2>1 DEF Free
    <3>3. CASE a = r
      BY <2>2, <2>3, <3>1, <3>2, <3>3
    <3>4. CASE b = r
      BY <2>2, <2>3, <3>1, <3>2, <3>4
    <3>5. CASE a # r /\ b # r
      BY <2>3, <3>1, <3>5
    <3> QED BY <3>3, <3>4, <3>5
  <2>7. \A q \in Requests : Running(q)' => \A x \in HeldRows(q)' : ~UpdatedBehind(q, x)'
    BY <2>1, <2>2, <2>3, <2>4, <2>5 DEF LocksInv
  <2> QED BY <1>1, <2>1, <2>6, <2>7 DEF LocksInv
<1>4. ASSUME NEW r \in Requests, Running(r), NEW answer, End(r, answer),
             answer \in {"waiting", "refused", "conflict", "failed"}
      PROVE  LocksInv'
  <2>1. r \notin committed
    BY <1>4 DEF LocksInv, Running
  <2> QED BY <1>1, <1>4, <2>1, EndKeepsLocks
<1>5. ASSUME NEW r \in Requests,
             Refuse(r) \/ LockFails(r) \/ SerializationFails(r) \/ Abort(r)
      PROVE  LocksInv'
  BY <1>4, <1>5 DEF Refuse, LockFails, SerializationFails, Abort, Retry
<1>6. CASE UNCHANGED txVars
  <2>1. /\ committed' = committed /\ snapshot' = snapshot /\ phase' = phase /\ held' = held
    BY <1>6 DEF txVars
  <2>2. /\ \A q \in Requests : HeldRows(q)' = HeldRows(q)
        /\ \A q \in Requests : Running(q)' <=> Running(q)
        /\ \A q \in Requests : \A x : UpdatedBehind(q, x)' <=> UpdatedBehind(q, x)
    BY <2>1 DEF HeldRows, Running, UpdatedBehind, Missed
  <2> QED BY <1>1, <2>1, <2>2 DEF LocksInv
<1> QED BY <1>1, <1>2, <1>3, <1>5, <1>6, CommitKeepsLocks DEF TxNext, Proceed

\* What a transaction that may commit has not missed: no other operation on its
\* sale, no closing when it is on cash, no outflow when it takes cash out, and no
\* cash at all when it closes the session.
LEMMA CommitSees ==
    ASSUME LocksInv, NEW r \in Requests, NEW answer, Commit(r, answer),
           NEW c \in Missed(r)
    PROVE  /\ Kind(r) # "CLOSE" /\ Kind(c) # "CLOSE" => SaleOf(c) # SaleOf(r)
           /\ UsesCash(r) \/ Kind(r) = "CLOSE" => Kind(c) # "CLOSE"
           /\ TakesCash(r) => ~TakesCash(c)
           /\ Kind(r) = "CLOSE" => ~UsesCash(c)
<1>1. c \in Requests /\ AllLocked(r) /\ Running(r) /\ ~Unserializable(r)
  BY DEF Commit, Missed, LocksInv, TxInv, TxTypeOK
<1>2. ~(Overlooks(r, c) /\ Overlooks(c, r))
  BY <1>1 DEF Unserializable, LooksBack
<1>3. ASSUME Kind(r) # "CLOSE", Kind(c) # "CLOSE", SaleOf(c) = SaleOf(r) PROVE FALSE
  <2>1. /\ Payments(SaleOf(r)) \in Reads(r) /\ Payments(SaleOf(r)) \in Writes(r)
        /\ Payments(SaleOf(r)) \in Reads(c) /\ Payments(SaleOf(r)) \in Writes(c)
    BY <1>3 DEF Reads, Writes
  <2> QED BY <1>2, <2>1 DEF Overlooks
<1>4. ASSUME UsesCash(r) \/ Kind(r) = "CLOSE", Kind(c) = "CLOSE" PROVE FALSE
  <2>1. Drawer \in HeldRows(r)
    BY <1>1, <1>4, DrawerIsHeld
  <2>2. Updates(c) = {Drawer}
    BY <1>4 DEF Updates
  <2> QED BY <1>1, <2>1, <2>2 DEF LocksInv, UpdatedBehind
<1>5. ASSUME TakesCash(r), TakesCash(c) PROVE FALSE
  <2>1. /\ Movements \in Reads(r) /\ Movements \in Writes(r)
        /\ Movements \in Reads(c) /\ Movements \in Writes(c)
    BY <1>5 DEF Reads, Writes, TakesCash
  <2> QED BY <1>2, <2>1 DEF Overlooks
<1>6. ASSUME Kind(r) = "CLOSE", UsesCash(c) PROVE FALSE
  <2>1. /\ Movements \in Reads(r) /\ Movements \in Writes(c)
        /\ SessionRow \in Reads(c) /\ SessionRow \in Writes(r)
    BY <1>6 DEF Reads, Writes
  <2> QED BY <1>2, <2>1 DEF Overlooks
<1> QED BY <1>3, <1>4, <1>5, <1>6

-----------------------------------------------------------------------------
(* The data of Payments after a set of requests *)

\* later holds the requests of earlier, and others that are not about sale d
SameOfSale(earlier, later, d) ==
    /\ earlier \subseteq later /\ later \subseteq Requests
    /\ \A c \in later \ earlier : Kind(c) # "CLOSE" => SaleOf(c) # d

LEMMA RowsOfSaleAgree ==
    ASSUME NEW S, NEW T, NEW d \in SaleDocs, SameOfSale(S, T, d), NEW p \in Payers,
           Row(S, p).document = d \/ Row(T, p).document = d
    PROVE  Row(S, p) = Row(T, p)
<1>1. d # NoDocument
  BY TxAssumption
<1>2. p \in Requests /\ Kind(p) \in {"SALE_PAYMENT", "SALE_REFUND"}
  BY DEF Payers
<1>3. CASE p \in S
  <2>1. p \in T /\ Row(S, p).document = SaleOf(p) /\ Row(T, p).document = SaleOf(p)
    BY <1>3 DEF Row, SameOfSale
  <2>2. ReversedIn(S, p) <=> ReversedIn(T, p)
    <3> SUFFICES ASSUME NEW v \in T, Kind(v) = "REVERSE", Asks[v].on = p PROVE v \in S
      BY DEF ReversedIn, SameOfSale
    <3>1. SaleOf(v) = SaleOf(p)
      BY <1>2 DEF SaleOf, PaymentOf
    <3> QED BY <2>1, <3>1 DEF SameOfSale
  <2> QED BY <1>3, <2>1, <2>2 DEF Row
<1>4. CASE p \notin S /\ p \in T
  <2>1. SaleOf(p) # d
    BY <1>2, <1>4 DEF SameOfSale
  <2> QED BY <1>1, <1>4, <2>1 DEF Row
<1>5. CASE p \notin S /\ p \notin T
  BY <1>5 DEF Row
<1> QED BY <1>3, <1>4, <1>5

\* the active payments of a type, of a sale or of a return, and their sum
Active(S, type) == {p \in Payers : Row(S, p).status = "POSTED" /\ Row(S, p).type = type}
ActiveOf(S, type, d) == {p \in Active(S, type) : Row(S, p).document = d}
ActiveFor(S, type, t) == {p \in Active(S, type) : Row(S, p).return = t}
AmountIn(S, ps) == SumFunctionOnSet([p \in Payers |-> Row(S, p).amount], ps)

LEMMA RowAmounts ==
    ASSUME NEW S, NEW p \in Payers PROVE Row(S, p).amount \in Nat
BY TxAssumption DEF Row, Payers, Kind

LEMMA AmountsAgree ==
    ASSUME NEW S, NEW T, NEW ps \in SUBSET Payers, \A p \in ps : Row(S, p) = Row(T, p)
    PROVE  AmountIn(S, ps) = AmountIn(T, ps)
<1> DEFINE f == [p \in Payers |-> Row(S, p).amount]
           g == [p \in Payers |-> Row(T, p).amount]
<1>1. IsFiniteSet(ps)
  <2>1. ps \in SUBSET Requests
    BY DEF Payers
  <2> QED BY <2>1, FS_Subset, TxAssumption
<1>2. Integral(f, ps)
  BY RowAmounts DEF Integral
<1>3. \A p \in ps : f[p] = g[p]
  OBVIOUS
<1> HIDE DEF f, g
<1>4. SumFunctionOnSet(f, ps) = SumFunctionOnSet(g, ps)
  BY <1>1, <1>2, <1>3, SumAgree
<1> QED BY <1>4 DEF f, g, AmountIn

\* What is paid and refunded of a sale is what it was, when no operation on it
\* came in between.
LEMMA PaidAgrees ==
    ASSUME NEW S, NEW T, NEW d \in SaleDocs, SameOfSale(S, T, d), NEW type
    PROVE  AmountIn(S, ActiveOf(S, type, d)) = AmountIn(T, ActiveOf(T, type, d))
<1>1. ActiveOf(S, type, d) = ActiveOf(T, type, d)
  BY RowsOfSaleAgree DEF ActiveOf, Active
<1>2. \A p \in ActiveOf(S, type, d) : p \in Payers /\ Row(S, p) = Row(T, p)
  BY RowsOfSaleAgree DEF ActiveOf, Active
<1> QED BY <1>1, <1>2, AmountsAgree

LEMMA RefundsName ==
    ASSUME NEW S, NEW t \in SaleReturnDocs, NEW p \in Payers, Row(S, p).return = t
    PROVE  Row(S, p).document = DocumentOf[t]
BY TxAssumption DEF Row, Payers, SaleOf, PaymentOf, Kind

LEMMA RefundedAgrees ==
    ASSUME NEW S, NEW T, NEW t \in SaleReturnDocs, SameOfSale(S, T, DocumentOf[t]), NEW type
    PROVE  AmountIn(S, ActiveFor(S, type, t)) = AmountIn(T, ActiveFor(T, type, t))
<1>1. DocumentOf[t] \in SaleDocs
  BY TxAssumption
<1>2. \A p \in Payers : Row(S, p).return = t \/ Row(T, p).return = t => Row(S, p) = Row(T, p)
  BY <1>1, RefundsName, RowsOfSaleAgree
<1>3. ActiveFor(S, type, t) = ActiveFor(T, type, t)
  BY <1>2 DEF ActiveFor, Active
<1>4. \A p \in ActiveFor(S, type, t) : p \in Payers /\ Row(S, p) = Row(T, p)
  BY <1>2 DEF ActiveFor, Active
<1> QED BY <1>3, <1>4, AmountsAgree

\* The sums of Payments over this data are these sums.
LEMMA ViewPaid ==
    ASSUME NEW S
    PROVE  /\ \A type, d : View(S)!Paid(type, d) = AmountIn(S, ActiveOf(S, type, d))
           /\ \A type, t : View(S)!Refunded(type, t) = AmountIn(S, ActiveFor(S, type, t))
<1>1. \A type : View(S)!Posted(type) = Active(S, type)
  BY DEF View!Posted, Active
<1>2. \A type, d : View(S)!Of(type, d) = ActiveOf(S, type, d)
  BY <1>1 DEF View!Of, ActiveOf, Active
<1>3. \A type, t : View(S)!ForReturn(type, t) = ActiveFor(S, type, t)
  BY <1>1 DEF View!ForReturn, ActiveFor, Active
<1>4. \A ps : View(S)!AmountOf(ps) = AmountIn(S, ps)
  BY ViewSums DEF View!AmountOf, View!Amount, AmountIn
<1> QED BY <1>2, <1>3, <1>4 DEF View!Paid, View!Refunded

LEMMA NowSums ==
    \A f, T : Now!SumFunctionOnSet(f, T) = SumFunctionOnSet(f, T)
BY DEF SumFunctionOnSet, FoldFunctionOnSet, MapThenFoldSet, Now!SumFunctionOnSet,
       Now!FoldFunctionOnSet, Now!MapThenFoldSet

LEMMA NowPaid ==
    /\ \A type, d : Now!Paid(type, d) = AmountIn(committed, ActiveOf(committed, type, d))
    /\ \A type, t : Now!Refunded(type, t) = AmountIn(committed, ActiveFor(committed, type, t))
<1>1. \A type : Now!Posted(type) = Active(committed, type)
  BY DEF Now!Posted, Active
<1>2. \A type, d : Now!Of(type, d) = ActiveOf(committed, type, d)
  BY <1>1 DEF Now!Of, ActiveOf, Active
<1>3. \A type, t : Now!ForReturn(type, t) = ActiveFor(committed, type, t)
  BY <1>1 DEF Now!ForReturn, ActiveFor, Active
<1>4. \A ps : Now!AmountOf(ps) = AmountIn(committed, ps)
  BY NowSums DEF Now!AmountOf, Now!Amount, AmountIn
<1> QED BY <1>2, <1>3, <1>4 DEF Now!Paid, Now!Refunded

LEMMA SaleChecksAgree ==
    ASSUME NEW S, NEW d \in SaleDocs, SameOfSale(S, committed, d)
    PROVE  /\ View(S)!SaleOutstanding(d) = Now!SaleOutstanding(d)
           /\ \A t \in SaleReturnDocs : DocumentOf[t] = d =>
                  View(S)!SaleRefundable(t) = Now!SaleRefundable(t)
           /\ \A type : View(S)!Paid(type, d) = Now!Paid(type, d)
<1>1. \A type : View(S)!Paid(type, d) = Now!Paid(type, d)
  BY ViewPaid, NowPaid, PaidAgrees
<1>2. ASSUME NEW t \in SaleReturnDocs, DocumentOf[t] = d
      PROVE  View(S)!SaleRefundable(t) = Now!SaleRefundable(t)
  <2>1. \A type : View(S)!Refunded(type, t) = Now!Refunded(type, t)
    BY <1>2, ViewPaid, NowPaid, RefundedAgrees
  <2> QED BY <1>1, <1>2, <2>1 DEF View!SaleRefundable, Now!SaleRefundable, View!NonNegative,
          Now!NonNegative, View!Min, Now!Min
<1>3. View(S)!SaleOutstanding(d) = Now!SaleOutstanding(d)
  BY <1>1 DEF View!SaleOutstanding, Now!SaleOutstanding, View!NonNegative, Now!NonNegative
<1> QED BY <1>1, <1>2, <1>3

-----------------------------------------------------------------------------
(* The cash of the session *)

Incoming == {"SALE_PAYMENT", "SALE_REFUND_REVERSAL"}
Signed(m) == IF m.type \in Incoming THEN m.amount ELSE -m.amount
CashIn(S) == SumFunctionOnSet([m \in RowsOfCash(S) |-> Signed(m)], RowsOfCash(S))

CashRow(r) ==
    LET type == IF Kind(r) = "REVERSE" THEN ReversalName[Kind(Asks[r].on)] ELSE Kind(r)
    IN  [key |-> <<PaymentOf(r), type>>, session |-> Drawer, type |-> type,
         amount |-> Asks[PaymentOf(r)].amount]

LEMMA RowsAreOfRequests ==
    \A S : RowsOfCash(S) = {CashRow(r) : r \in {q \in S : UsesCash(q)}}
BY DEF RowsOfCash, CashRow

LEMMA CashRowTypes ==
    ASSUME NEW r \in Requests, UsesCash(r)
    PROVE  /\ CashRow(r).type \in {"SALE_PAYMENT", "SALE_REFUND",
                                   "SALE_PAYMENT_REVERSAL", "SALE_REFUND_REVERSAL"}
           /\ CashRow(r).type \in Incoming <=> ~TakesCash(r)
           /\ CashRow(r).amount \in Nat /\ CashRow(r).session = Drawer
           /\ CashRow(r).amount = Asks[PaymentOf(r)].amount
<1>1. /\ Kind(r) # "CLOSE" /\ PaymentOf(r) \in Requests
      /\ Kind(PaymentOf(r)) \in {"SALE_PAYMENT", "SALE_REFUND"}
  BY RequestRows DEF UsesCash
<1>2. CASE Kind(r) = "REVERSE"
  <2>1. PaymentOf(r) = Asks[r].on
    BY <1>2 DEF PaymentOf
  <2>2. CashRow(r).type = ReversalName[Kind(Asks[r].on)]
    BY <1>2 DEF CashRow
  <2>3. TakesCash(r) <=> Kind(Asks[r].on) # "SALE_REFUND"
    BY <1>2, <2>1 DEF TakesCash
  <2>4. CashRow(r).amount \in Nat
    BY <1>1, TxAssumption DEF CashRow, Kind
  <2> QED BY <1>1, <2>1, <2>2, <2>3, <2>4 DEF Incoming, ReversalName, CashRow
<1>3. CASE Kind(r) # "REVERSE"
  <2>1. PaymentOf(r) = r /\ CashRow(r).type = Kind(r)
    BY <1>3 DEF PaymentOf, CashRow
  <2>2. TakesCash(r) <=> Kind(r) = "SALE_REFUND"
    BY <1>3, <2>1 DEF TakesCash
  <2>3. CashRow(r).amount \in Nat
    BY <1>1, TxAssumption DEF CashRow, Kind
  <2> QED BY <1>1, <2>1, <2>2, <2>3 DEF Incoming, CashRow
<1> QED BY <1>2, <1>3

LEMMA ViewExpected ==
    ASSUME NEW S \in SUBSET Requests
    PROVE  View(S)!Expected(Drawer) = Opening + CashIn(S)
<1>1. View(S)!MovementsOf(Drawer) = RowsOfCash(S)
  BY CashRowsAreMoney DEF View!MovementsOf
<1>2. \A m \in RowsOfCash(S) : View(S)!MovementDelta(m) = Signed(m)
  <2>1. \A m \in RowsOfCash(S) :
            m.type \in {"SALE_PAYMENT", "SALE_REFUND",
                        "SALE_PAYMENT_REVERSAL", "SALE_REFUND_REVERSAL"}
    BY RowsAreOfRequests, CashRowTypes
  <2> QED BY <2>1 DEF View!MovementDelta, View!Inflows, Signed, Incoming
<1>3. View(S)!NetCash(RowsOfCash(S)) = CashIn(S)
  BY <1>2, ViewSums DEF View!NetCash, CashIn
<1> QED BY <1>1, <1>3 DEF View!Expected, SessionIn

LEMMA NowExpected ==
    ASSUME committed \subseteq Requests
    PROVE  Now!Expected(Drawer) = Opening + CashIn(committed)
<1>1. Now!MovementsOf(Drawer) = RowsOfCash(committed)
  BY CashRowsAreMoney DEF Now!MovementsOf
<1>2. \A m \in RowsOfCash(committed) : Now!MovementDelta(m) = Signed(m)
  <2>1. \A m \in RowsOfCash(committed) :
            m.type \in {"SALE_PAYMENT", "SALE_REFUND",
                        "SALE_PAYMENT_REVERSAL", "SALE_REFUND_REVERSAL"}
    BY RowsAreOfRequests, CashRowTypes
  <2> QED BY <2>1 DEF Now!MovementDelta, Now!Inflows, Signed, Incoming
<1>3. Now!NetCash(RowsOfCash(committed)) = CashIn(committed)
  BY <1>2, NowSums DEF Now!NetCash, CashIn
<1> QED BY <1>1, <1>3 DEF Now!Expected, SessionIn

\* More requests, none of which takes cash out, leave no less in the drawer.
LEMMA CashGrows ==
    ASSUME NEW S, NEW T \in SUBSET Requests, S \subseteq T,
           \A c \in T \ S : ~TakesCash(c)
    PROVE  CashIn(S) <= CashIn(T) /\ CashIn(S) \in Int /\ CashIn(T) \in Int
<1> DEFINE A == RowsOfCash(S)
           B == RowsOfCash(T)
           f == [m \in A |-> Signed(m)]
           g == [m \in B |-> Signed(m)]
<1>1. A \in SUBSET B /\ \A m \in B \ A : m.type \in Incoming
  BY RowsAreOfRequests, CashRowTypes
<1>2. IsFiniteSet(A) /\ IsFiniteSet(B) /\ \A m \in B : m.amount \in Nat
  BY CashRowsAreMoney, <1>1, FS_Subset
<1>3. /\ Integral(f, A) /\ Integral(g, B) /\ Integral(g, A)
      /\ \A m \in A : f[m] = g[m]
      /\ \A m \in B \ A : g[m] >= 0
  BY <1>1, <1>2 DEF Integral, Signed
<1> HIDE DEF A, B, f, g
<1>4. SumFunctionOnSet(f, A) = SumFunctionOnSet(g, A)
  BY <1>2, <1>3, SumAgree
<1>5. SumFunctionOnSet(g, A) <= SumFunctionOnSet(g, B)
  BY <1>1, <1>2, <1>3, SumSubset
<1>6. SumFunctionOnSet(f, A) \in Int /\ SumFunctionOnSet(g, B) \in Int
  BY <1>2, <1>3, SumInt
<1> QED BY <1>4, <1>5, <1>6 DEF CashIn, f, g, A, B

\* The checks of a transaction that commits hold on the data its commit meets,
\* although they were made on its snapshot.
LEMMA ChecksStillHold ==
    ASSUME LocksInv, NEW r \in Requests, NEW answer, Commit(r, answer)
    PROVE  /\ r \notin committed /\ committed' = committed \cup {r}
           /\ committed \subseteq Requests /\ snapshot[r] \subseteq committed
           /\ Kind(r) # "CLOSE" => SameOfSale(snapshot[r], committed, SaleOf(r))
           /\ UsesCash(r) \/ Kind(r) = "CLOSE" => committed \cap Closings = {}
           /\ TakesCash(r) => Now!CoversOutflow(Drawer, Asks[PaymentOf(r)].amount)
           /\ Kind(r) = "CLOSE" => CashIn(snapshot[r]) = CashIn(committed)
<1> DEFINE S == snapshot[r]
<1>1. /\ S \subseteq committed /\ committed \subseteq Requests /\ S \in SUBSET Requests
      /\ r \notin committed /\ committed' = committed \cup {r}
      /\ CashCheck(r)
  BY DEF Commit, LocksInv, TxInv, TxTypeOK, Running
<1>2. \A c \in committed \ S :
          /\ Kind(r) # "CLOSE" /\ Kind(c) # "CLOSE" => SaleOf(c) # SaleOf(r)
          /\ UsesCash(r) \/ Kind(r) = "CLOSE" => Kind(c) # "CLOSE"
          /\ TakesCash(r) => ~TakesCash(c)
          /\ Kind(r) = "CLOSE" => ~UsesCash(c)
  BY CommitSees DEF Missed
<1>3. Kind(r) # "CLOSE" => SameOfSale(S, committed, SaleOf(r))
  BY <1>1, <1>2 DEF SameOfSale
<1>4. UsesCash(r) \/ Kind(r) = "CLOSE" => committed \cap Closings = {}
  <2> SUFFICES ASSUME UsesCash(r) \/ Kind(r) = "CLOSE" PROVE committed \cap Closings = {}
    OBVIOUS
  <2>1. View(S)!OpenActive(Drawer)
    BY <1>1 DEF CashCheck
  <2>2. S \cap Closings = {}
    BY <2>1 DEF View!OpenActive, SessionIn
  <2> QED BY <1>2, <2>2 DEF Closings
<1>5. TakesCash(r) => Now!CoversOutflow(Drawer, Asks[PaymentOf(r)].amount)
  <2> SUFFICES ASSUME TakesCash(r)
               PROVE  Now!CoversOutflow(Drawer, Asks[PaymentOf(r)].amount)
    OBVIOUS
  <2>1. View(S)!CoversOutflow(Drawer, Asks[PaymentOf(r)].amount)
    BY <1>1 DEF CashCheck
  <2>2. CashIn(S) <= CashIn(committed) /\ CashIn(S) \in Int /\ CashIn(committed) \in Int
    BY <1>1, <1>2, CashGrows
  <2>3. Asks[PaymentOf(r)].amount \in Nat /\ Opening \in Nat
    BY CashRowTypes, TxAssumption DEF TakesCash
  <2>4. Opening + CashIn(S) - Asks[PaymentOf(r)].amount >= 0
    <3>1. View(S)!Expected(Drawer) = Opening + CashIn(S)
      BY <1>1, ViewExpected
    <3> HIDE DEF S
    <3>2. View(S)!Expected(Drawer) - Asks[PaymentOf(r)].amount >= 0
      BY <2>1 DEF View!CoversOutflow
    <3> QED BY <2>2, <2>3, <3>1, <3>2
  <2>5. Opening + CashIn(committed) - Asks[PaymentOf(r)].amount >= 0
    BY <2>2, <2>3, <2>4
  <2>6. Now!Expected(Drawer) = Opening + CashIn(committed)
    BY <1>1, NowExpected
  <2>7. Now!Expected(Drawer) - Asks[PaymentOf(r)].amount >= 0
    BY <2>2, <2>3, <2>5, <2>6
  <2> QED BY <2>7 DEF Now!CoversOutflow
<1>6. Kind(r) = "CLOSE" => CashIn(S) = CashIn(committed)
  <2> SUFFICES ASSUME Kind(r) = "CLOSE" PROVE CashIn(S) = CashIn(committed)
    OBVIOUS
  <2>1. {q \in S : UsesCash(q)} = {q \in committed : UsesCash(q)}
    BY <1>1, <1>2
  <2>2. RowsOfCash(S) = RowsOfCash(committed)
    BY <2>1, RowsAreOfRequests
  <2> QED BY <2>2 DEF CashIn
<1> QED BY <1>1, <1>3, <1>4, <1>5, <1>6

-----------------------------------------------------------------------------
(* A commit is an operation of Payments *)

\* what one more request does to the rows
LEMMA OneMoreCashRow ==
    ASSUME NEW S, NEW r
    PROVE  RowsOfCash(S \cup {r}) =
               RowsOfCash(S) \cup {CashRow(q) : q \in {x \in {r} : UsesCash(x)}}
<1>1. {q \in S \cup {r} : UsesCash(q)} = {q \in S : UsesCash(q)} \cup {x \in {r} : UsesCash(x)}
  OBVIOUS
<1> QED BY <1>1, RowsAreOfRequests

LEMMA PaymentRow ==
    ASSUME NEW S, NEW r \in Payers, r \notin S,
           \A v \in S : Kind(v) = "REVERSE" => Asks[v].on \in S
    PROVE  /\ Row(S, r).status = "NONE"
           /\ Row(S \cup {r}, r) =
                  [status |-> "POSTED", type |-> Kind(r), document |-> SaleOf(r),
                   return |-> IF Kind(r) = "SALE_REFUND" THEN Asks[r].on ELSE NoDocument,
                   method |-> IF UsesCash(r) THEN Cash ELSE Card,
                   session |-> IF UsesCash(r) THEN Drawer ELSE NoSession,
                   reversal |-> NoSession, amount |-> Asks[r].amount]
           /\ \A q \in Payers \ {r} : Row(S \cup {r}, q) = Row(S, q)
<1>1. Kind(r) # "REVERSE"
  BY DEF Payers
<1>2. \A q : ReversedIn(S \cup {r}, q) <=> ReversedIn(S, q)
  BY <1>1 DEF ReversedIn
<1>3. ~ReversedIn(S, r)
  BY DEF ReversedIn
<1> QED BY <1>2, <1>3 DEF Row

LEMMA ReversedRow ==
    ASSUME NEW S, NEW r \in Requests, Kind(r) = "REVERSE",
           Row(S, Asks[r].on).status = "POSTED"
    PROVE  LET p == Asks[r].on IN
           /\ p \in Payers /\ p \in S
           /\ Row(S \cup {r}, p) =
                  [Row(S, p) EXCEPT !.status = "REVERSED",
                                    !.reversal = IF UsesCash(p) THEN Drawer ELSE NoSession]
           /\ \A q \in Payers \ {p} : Row(S \cup {r}, q) = Row(S, q)
<1> DEFINE p == Asks[r].on
<1>1. p \in S /\ ~ReversedIn(S, p)
  BY DEF Row
<1>2. p \in Payers
  BY TxAssumption DEF Payers, Kind
<1>3. ReversedIn(S \cup {r}, p) /\ \A q : q # p => (ReversedIn(S \cup {r}, q) <=> ReversedIn(S, q))
  BY DEF ReversedIn
<1>4. Row(S \cup {r}, p) = [Row(S, p) EXCEPT !.status = "REVERSED",
                                 !.reversal = IF UsesCash(p) THEN Drawer ELSE NoSession]
  <2> HIDE DEF p
  <2> DEFINE type == Kind(p)
             document == SaleOf(p)
             ret == IF Kind(p) = "SALE_REFUND" THEN Asks[p].on ELSE NoDocument
             method == IF UsesCash(p) THEN Cash ELSE Card
             session == IF UsesCash(p) THEN Drawer ELSE NoSession
             amount == Asks[p].amount
             row(state, reversal) ==
                 [status |-> state, type |-> type, document |-> document, return |-> ret,
                  method |-> method, session |-> session, reversal |-> reversal,
                  amount |-> amount]
  <2>1. Row(S, p) = row("POSTED", NoSession)
    BY <1>1 DEF Row
  <2>2. Row(S \cup {r}, p) = row("REVERSED", session)
    BY <1>1, <1>3 DEF Row
  <2> HIDE DEF type, document, ret, method, session, amount
  <2>3. row("REVERSED", session) =
            [row("POSTED", NoSession) EXCEPT !.status = "REVERSED", !.reversal = session]
    <3> DEFINE Exactly == [status : {"REVERSED"}, type : {type}, document : {document},
                           return : {ret}, method : {method}, session : {session},
                           reversal : {session}, amount : {amount}]
    <3>1. row("REVERSED", session) \in Exactly
      OBVIOUS
    <3>2. [row("POSTED", NoSession) EXCEPT !.status = "REVERSED", !.reversal = session]
              \in Exactly
      OBVIOUS
    <3> HIDE DEF row
    <3> QED BY <3>1, <3>2
  <2> HIDE DEF row
  <2>4. Row(S \cup {r}, p) = [Row(S, p) EXCEPT !.status = "REVERSED", !.reversal = session]
    BY <2>1, <2>2, <2>3
  <2> QED BY <2>4 DEF session
<1>5. \A q \in Payers \ {p} : q # r
  BY DEF Payers
<1>6. \A q \in Payers \ {p} : Row(S \cup {r}, q) = Row(S, q)
  <2> HIDE DEF p
  <2> QED BY <1>3, <1>5 DEF Row
<1> QED BY <1>1, <1>2, <1>4, <1>6

\* What a committing payment or refund writes is the row and the movement that
\* Payments records, into a session it may use.
LEMMA CommitRecords ==
    ASSUME LocksInv, NEW r \in Payers, NEW answer, Commit(r, answer)
    PROVE  LET method == IF UsesCash(r) THEN Cash ELSE Card
               s == IF UsesCash(r) THEN Drawer ELSE NoSession
               t == IF Kind(r) = "SALE_REFUND" THEN Asks[r].on ELSE NoDocument
           IN  /\ Now!Tender(method, s)
               /\ Now!Record(r, Kind(r), SaleOf(r), t, method, s, Asks[r].amount)
<1> DEFINE method == IF UsesCash(r) THEN Cash ELSE Card
           s == IF UsesCash(r) THEN Drawer ELSE NoSession
           t == IF Kind(r) = "SALE_REFUND" THEN Asks[r].on ELSE NoDocument
<1>1. /\ r \in Requests /\ Kind(r) \in {"SALE_PAYMENT", "SALE_REFUND"} /\ PaymentOf(r) = r
  BY DEF Payers, PaymentOf
<1>2. /\ r \notin committed /\ committed' = committed \cup {r} /\ committed \subseteq Requests
      /\ UsesCash(r) => committed \cap Closings = {}
  BY <1>1, ChecksStillHold
<1>3. expectedAmount' = expectedAmount
  BY <1>1 DEF Commit
<1>4. SessionIn(committed)' = SessionIn(committed)
  BY <1>1, <1>2, <1>3 DEF SessionIn, Closings
<1>5. Now!Tender(method, s)
  <2>1. UsesCash(r) => Now!OpenActive(Drawer)
    BY <1>2 DEF Now!OpenActive, SessionIn
  <2>2. Cash # Card
    BY TxAssumption
  <2> QED BY <2>1, <2>2 DEF Now!Tender
<1>6. /\ Row(committed, r).status = "NONE"
      /\ Row(committed', r) =
             [status |-> "POSTED", type |-> Kind(r), document |-> SaleOf(r), return |-> t,
              method |-> method, session |-> s, reversal |-> NoSession,
              amount |-> Asks[r].amount]
      /\ \A q \in Payers \ {r} : Row(committed', q) = Row(committed, q)
  BY <1>2, PaymentRow DEF LocksInv
<1>7. RowsOfCash(committed') = RowsOfCash(committed)
          \cup {Now!CashMovement(<<r, Kind(r)>>, s, Kind(r), Asks[r].amount) :
                    c \in {s} \cap {Drawer}}
  <2>1. RowsOfCash(committed') =
            RowsOfCash(committed) \cup {CashRow(q) : q \in {x \in {r} : UsesCash(x)}}
    BY <1>2, OneMoreCashRow
  <2>2. CashRow(r) = Now!CashMovement(<<r, Kind(r)>>, Drawer, Kind(r), Asks[r].amount)
    BY <1>1 DEF CashRow, Now!CashMovement
  <2>3. NoSession # Drawer
    BY TxAssumption
  <2>4. CASE UsesCash(r)
    <3>1. {CashRow(q) : q \in {x \in {r} : UsesCash(x)}} = {CashRow(r)} /\ s = Drawer
      BY <2>4
    <3> QED BY <2>1, <2>2, <3>1
  <2>5. CASE ~UsesCash(r)
    <3>1. {CashRow(q) : q \in {x \in {r} : UsesCash(x)}} = {} /\ {s} \cap {Drawer} = {}
      BY <2>3, <2>5
    <3> QED BY <2>1, <3>1
  <2> QED BY <2>4, <2>5
<1>8. Now!Record(r, Kind(r), SaleOf(r), t, method, s, Asks[r].amount)
  <2> DEFINE row == [status |-> "POSTED", type |-> Kind(r), document |-> SaleOf(r),
                     return |-> t, method |-> method, session |-> s, reversal |-> NoSession,
                     amount |-> Asks[r].amount]
             new == {Now!CashMovement(<<r, Kind(r)>>, s, Kind(r), Asks[r].amount) :
                         c \in {s} \cap {Drawer}}
  <2>1. [p \in Payers |-> Row(committed, p)]' =
            [[p \in Payers |-> Row(committed, p)] EXCEPT ![r] = row]
    <3>1. \A p \in Payers : Row(committed', p) = IF p = r THEN row ELSE Row(committed, p)
      BY <1>6
    <3> HIDE DEF row
    <3>2. [p \in Payers |-> Row(committed', p)] =
              [[p \in Payers |-> Row(committed, p)] EXCEPT ![r] = row]
      BY <3>1
    <3> QED BY <3>2
  <2>2. RowsOfCash(committed)' = RowsOfCash(committed) \cup new
    <3>1. RowsOfCash(committed)' = RowsOfCash(committed')
      BY DEF RowsOfCash, UsesCash, Kind, PaymentOf
    <3> QED BY <1>7, <3>1
  <2>3. [x \in {Drawer} |-> SessionIn(committed)]' = [x \in {Drawer} |-> SessionIn(committed)]
    BY <1>4
  <2>4. [p \in Payers |-> Row(committed, p)][r].status = "NONE"
    BY <1>6
  <2> QED BY <2>1, <2>2, <2>3, <2>4 DEF Now!Record
<1> QED BY <1>5, <1>8

LEMMA CommitPays ==
    ASSUME LocksInv, NEW r \in Requests, NEW answer, Commit(r, answer),
           Kind(r) = "SALE_PAYMENT"
    PROVE  Now!PaymentsNext
<1> DEFINE method == IF UsesCash(r) THEN Cash ELSE Card
           s == IF UsesCash(r) THEN Drawer ELSE NoSession
           d == Asks[r].on
<1>1. r \in Payers /\ d \in SaleDocs /\ SaleOf(r) = d
  BY TxAssumption DEF Payers, Kind, SaleOf, PaymentOf
<1>2. Asks[r].amount <= Now!SaleOutstanding(d)
  <2>1. Asks[r].amount <= View(snapshot[r])!SaleOutstanding(d)
    BY DEF Commit, DocumentCheck
  <2>2. SameOfSale(snapshot[r], committed, d)
    BY <1>1, ChecksStillHold
  <2>3. View(snapshot[r])!SaleOutstanding(d) = Now!SaleOutstanding(d)
    BY <1>1, <2>2, SaleChecksAgree
  <2> QED BY <2>1, <2>3
<1>3. /\ Now!Tender(method, s)
      /\ Now!Record(r, "SALE_PAYMENT", d, NoDocument, method, s, Asks[r].amount)
  BY <1>1, CommitRecords
<1>4. Now!SalePayment(r, d, method, s, Asks[r].amount)
  BY <1>1, <1>2, <1>3 DEF Now!SalePayment
<1>5. /\ s \in {Drawer} \cup {NoSession} /\ method \in Now!Methods
      /\ Asks[r].amount \in {Asks[p].amount : p \in Payers}
  BY <1>1 DEF Now!Methods
<1> HIDE DEF method, s, d
<1> QED BY <1>1, <1>4, <1>5 DEF Now!PaymentsNext

LEMMA CommitRefunds ==
    ASSUME LocksInv, NEW r \in Requests, NEW answer, Commit(r, answer),
           Kind(r) = "SALE_REFUND"
    PROVE  Now!PaymentsNext
<1> DEFINE method == IF UsesCash(r) THEN Cash ELSE Card
           s == IF UsesCash(r) THEN Drawer ELSE NoSession
           t == Asks[r].on
<1>1. /\ r \in Payers /\ t \in SaleReturnDocs /\ SaleOf(r) = DocumentOf[t]
      /\ DocumentOf[t] \in SaleDocs /\ PaymentOf(r) = r
  BY TxAssumption DEF Payers, Kind, SaleOf, PaymentOf
<1>2. Asks[r].amount <= Now!SaleRefundable(t)
  <2>1. Asks[r].amount <= View(snapshot[r])!SaleRefundable(t)
    BY DEF Commit, DocumentCheck
  <2>2. SameOfSale(snapshot[r], committed, DocumentOf[t])
    BY <1>1, ChecksStillHold
  <2>3. View(snapshot[r])!SaleRefundable(t) = Now!SaleRefundable(t)
    BY <1>1, <2>2, SaleChecksAgree
  <2> QED BY <2>1, <2>3
<1>3. /\ Now!Tender(method, s)
      /\ Now!Record(r, "SALE_REFUND", DocumentOf[t], t, method, s, Asks[r].amount)
  BY <1>1, CommitRecords
<1>4. s \in {Drawer} => Now!CoversOutflow(s, Asks[r].amount)
  <2>1. s \in {Drawer} => TakesCash(r) /\ s = Drawer
    BY <1>1, TxAssumption DEF TakesCash
  <2>2. TakesCash(r) => Now!CoversOutflow(Drawer, Asks[r].amount)
    BY <1>1, ChecksStillHold
  <2> HIDE DEF s
  <2> QED BY <2>1, <2>2
<1>5. Now!SaleRefund(r, t, method, s, Asks[r].amount)
  BY <1>1, <1>2, <1>3, <1>4 DEF Now!SaleRefund
<1>6. /\ s \in {Drawer} \cup {NoSession} /\ method \in Now!Methods
      /\ Asks[r].amount \in {Asks[p].amount : p \in Payers}
  BY <1>1 DEF Now!Methods
<1> HIDE DEF method, s, t
<1> QED BY <1>1, <1>5, <1>6 DEF Now!PaymentsNext

LEMMA CommitReverses ==
    ASSUME LocksInv, NEW r \in Requests, NEW answer, Commit(r, answer),
           Kind(r) = "REVERSE"
    PROVE  Now!PaymentsNext
<1> DEFINE p == Asks[r].on
           s == IF UsesCash(p) THEN Drawer ELSE NoSession
           d == SaleOf(p)
           row == [q \in Payers |-> Row(committed, q)][p]
           movement == Now!CashMovement(<<p, Now!ReversalType[row.type]>>, s,
                                        Now!ReversalType[row.type], row.amount)
<1>1. /\ PaymentOf(r) = p /\ p \in Requests /\ p \in Payers
      /\ Kind(p) \in {"SALE_PAYMENT", "SALE_REFUND"} /\ PaymentOf(p) = p
      /\ SaleOf(r) = d /\ d \in SaleDocs /\ (UsesCash(r) <=> UsesCash(p))
  <2>1. PaymentOf(r) = p /\ p \in Requests /\ Kind(p) \in {"SALE_PAYMENT", "SALE_REFUND"}
    BY TxAssumption DEF Kind, PaymentOf
  <2>2. PaymentOf(p) = p
    BY <2>1 DEF PaymentOf
  <2>3. d \in SaleDocs
    BY <2>1, <2>2, TxAssumption DEF SaleOf, Kind
  <2> QED BY <2>1, <2>2, <2>3 DEF Payers, SaleOf, UsesCash
<1>2. /\ r \notin committed /\ committed' = committed \cup {r} /\ committed \subseteq Requests
      /\ SameOfSale(snapshot[r], committed, d)
      /\ UsesCash(p) => committed \cap Closings = {}
      /\ TakesCash(r) => Now!CoversOutflow(Drawer, Asks[p].amount)
  BY <1>1, ChecksStillHold
<1>3. expectedAmount' = expectedAmount
  BY DEF Commit
<1>4. SessionIn(committed)' = SessionIn(committed)
  BY <1>2, <1>3 DEF SessionIn, Closings
<1>5. /\ Row(committed, p) = Row(snapshot[r], p) /\ row = Row(committed, p)
      /\ row.status = "POSTED" /\ row.document = d /\ row.type = Kind(p)
      /\ row.amount = Asks[p].amount
      /\ row.session = (IF UsesCash(p) THEN Drawer ELSE NoSession)
      /\ View(snapshot[r])!KeepsRefundsCovered(row)
  <2>1. /\ Row(snapshot[r], p).status = "POSTED"
        /\ View(snapshot[r])!KeepsRefundsCovered(Row(snapshot[r], p))
    BY DEF Commit, DocumentCheck
  <2>2. p \in snapshot[r]
    BY <2>1 DEF Row
  <2>3. Row(snapshot[r], p).document = d
    BY <2>2 DEF Row
  <2>4. Row(committed, p) = Row(snapshot[r], p)
    BY <1>1, <1>2, <2>3, RowsOfSaleAgree
  <2>5. row = Row(committed, p)
    BY <1>1
  <2>6. /\ Row(snapshot[r], p).type = Kind(p) /\ Row(snapshot[r], p).amount = Asks[p].amount
        /\ Row(snapshot[r], p).session = (IF UsesCash(p) THEN Drawer ELSE NoSession)
    BY <2>2 DEF Row
  <2> HIDE DEF row, d
  <2> QED BY <2>1, <2>3, <2>4, <2>5, <2>6
<1> HIDE DEF row
<1>6. Now!KeepsRefundsCovered(row)
  <2>1. \A type : View(snapshot[r])!Paid(type, d) = Now!Paid(type, d)
    BY <1>1, <1>2, SaleChecksAgree
  <2>2. row.type # "PURCHASE_PAYMENT" /\ row.document = d
    BY <1>1, <1>5
  <2> QED BY <1>5, <2>1, <2>2 DEF View!KeepsRefundsCovered, Now!KeepsRefundsCovered
<1>7. IF row.session = NoSession THEN s = NoSession
      ELSE s \in {Drawer} /\ Now!OpenActive(s)
  <2>1. UsesCash(p) => Now!OpenActive(Drawer)
    BY <1>2 DEF Now!OpenActive, SessionIn
  <2>2. NoSession # Drawer
    BY TxAssumption
  <2> QED BY <1>5, <2>1, <2>2
<1>8. row.type \in {"SALE_PAYMENT", "SUPPLIER_REFUND"} /\ s \in {Drawer} =>
          Now!CoversOutflow(s, row.amount)
  <2> SUFFICES ASSUME row.type = "SALE_PAYMENT", s = Drawer
               PROVE  Now!CoversOutflow(s, row.amount)
    BY <1>1, <1>5
  <2>1. UsesCash(p) /\ Kind(p) = "SALE_PAYMENT"
    BY <1>5, TxAssumption
  <2>2. TakesCash(r)
    BY <1>1, <2>1 DEF TakesCash
  <2> HIDE DEF s
  <2> QED BY <1>2, <1>5, <2>2
<1>9. [q \in Payers |-> Row(committed, q)]' =
          [[q \in Payers |-> Row(committed, q)] EXCEPT ![p] = Now!Reversed(row, s)]
  <2>1. /\ Row(committed', p) = [row EXCEPT !.status = "REVERSED", !.reversal = s]
        /\ \A q \in Payers \ {p} : Row(committed', q) = Row(committed, q)
    <3>1. Row(committed, p).status = "POSTED"
      BY <1>5
    <3>2. /\ Row(committed \cup {r}, p) =
                 [Row(committed, p) EXCEPT !.status = "REVERSED", !.reversal = s]
          /\ \A q \in Payers \ {p} : Row(committed \cup {r}, q) = Row(committed, q)
      BY <3>1, ReversedRow
    <3> HIDE DEF s, p
    <3> QED BY <1>2, <1>5, <3>2
  <2>2. \A q \in Payers :
            Row(committed', q) = IF q = p THEN Now!Reversed(row, s) ELSE Row(committed, q)
    BY <2>1 DEF Now!Reversed
  <2> HIDE DEF s, p
  <2>3. [q \in Payers |-> Row(committed', q)] =
            [[q \in Payers |-> Row(committed, q)] EXCEPT ![p] = Now!Reversed(row, s)]
    BY <2>2
  <2> QED BY <2>3
<1>10. RowsOfCash(committed)' = RowsOfCash(committed) \cup {movement : c \in {s} \cap {Drawer}}
  <2>1. RowsOfCash(committed') =
            RowsOfCash(committed) \cup {CashRow(q) : q \in {x \in {r} : UsesCash(x)}}
    BY <1>2, OneMoreCashRow
  <2>2. RowsOfCash(committed)' = RowsOfCash(committed')
    BY DEF RowsOfCash, UsesCash, Kind, PaymentOf
  <2>3. CASE UsesCash(p)
    <3>1. {CashRow(q) : q \in {x \in {r} : UsesCash(x)}} = {CashRow(r)} /\ s = Drawer
      BY <1>1, <2>3
    <3>2. ReversalName[Kind(p)] = Now!ReversalType[row.type]
      BY <1>1, <1>5 DEF ReversalName, Now!ReversalType
    <3>3. CashRow(r) = movement
      BY <1>1, <1>5, <3>1, <3>2 DEF CashRow, Now!CashMovement
    <3> HIDE DEF movement
    <3> QED BY <2>1, <2>2, <3>1, <3>3
  <2>4. CASE ~UsesCash(p)
    <3>1. {CashRow(q) : q \in {x \in {r} : UsesCash(x)}} = {} /\ {s} \cap {Drawer} = {}
      BY <1>1, <2>4, TxAssumption
    <3> QED BY <2>1, <2>2, <3>1
  <2> QED BY <2>3, <2>4
<1>11. [x \in {Drawer} |-> SessionIn(committed)]' = [x \in {Drawer} |-> SessionIn(committed)]
  BY <1>4
<1>12. Now!Reverse(p, s)
  <2> HIDE DEF p, s
  <2> QED BY <1>5, <1>6, <1>7, <1>8, <1>9, <1>10, <1>11 DEF Now!Reverse, row
<1>13. s \in {Drawer} \cup {NoSession}
  OBVIOUS
<1> HIDE DEF p, s
<1> QED BY <1>1, <1>12, <1>13 DEF Now!PaymentsNext

LEMMA CommitCloses ==
    ASSUME LocksInv, NEW r \in Requests, NEW answer, Commit(r, answer),
           Kind(r) = "CLOSE"
    PROVE  Now!PaymentsNext
<1>1. /\ r \notin committed /\ committed' = committed \cup {r} /\ committed \subseteq Requests
      /\ snapshot[r] \subseteq committed
      /\ committed \cap Closings = {} /\ CashIn(snapshot[r]) = CashIn(committed)
  BY ChecksStillHold
<1>2. expectedAmount' = Now!Expected(Drawer)
  <2>1. expectedAmount' = View(snapshot[r])!Expected(Drawer)
    BY DEF Commit
  <2>2. View(snapshot[r])!Expected(Drawer) = Opening + CashIn(snapshot[r])
    BY <1>1, ViewExpected
  <2>3. Now!Expected(Drawer) = Opening + CashIn(committed)
    BY <1>1, NowExpected
  <2> QED BY <1>1, <2>1, <2>2, <2>3
<1>3. \A p \in Payers : Row(committed', p) = Row(committed, p)
  <2>1. \A p : ReversedIn(committed', p) <=> ReversedIn(committed, p)
    BY <1>1 DEF ReversedIn
  <2>2. \A p \in Payers : p # r
    BY DEF Payers
  <2> QED BY <1>1, <2>1, <2>2 DEF Row
<1>4. [p \in Payers |-> Row(committed, p)]' = [p \in Payers |-> Row(committed, p)]
  BY <1>3
<1>5. RowsOfCash(committed)' = RowsOfCash(committed)
  <2>1. {q \in committed' : UsesCash(q)} = {q \in committed : UsesCash(q)}
    BY <1>1 DEF UsesCash
  <2>2. RowsOfCash(committed') = RowsOfCash(committed)
    BY <2>1 DEF RowsOfCash
  <2>3. RowsOfCash(committed)' = RowsOfCash(committed')
    BY DEF RowsOfCash, UsesCash, Kind, PaymentOf
  <2> QED BY <2>2, <2>3
<1>6. SessionIn(committed)' =
          [status |-> "CLOSED", register |-> Register, opening |-> Opening,
           expected |-> Now!Expected(Drawer), counted |-> 0]
  <2>1. r \in committed' \cap Closings'
    BY <1>1 DEF Closings, Kind
  <2> QED BY <1>2, <2>1 DEF SessionIn
<1>7. Now!CloseSession(Drawer, 0, TRUE)
  <2>1. /\ SessionIn(committed).status = "OPEN" /\ SessionIn(committed).register = Register
        /\ SessionIn(committed).opening = Opening
    BY <1>1 DEF SessionIn
  <2>2. [x \in {Drawer} |-> SessionIn(committed)]' =
            [[x \in {Drawer} |-> SessionIn(committed)] EXCEPT ![Drawer] =
                [status |-> "CLOSED", register |-> SessionIn(committed).register,
                 opening |-> SessionIn(committed).opening,
                 expected |-> Now!Expected(Drawer), counted |-> 0]]
    BY <1>6, <2>1
  <2> QED BY <1>5, <2>1, <2>2 DEF Now!CloseSession
<1>8. Now!CashNext
  <2>1. Drawer \in {Drawer} /\ 0 \in {0, Opening} /\ TRUE \in BOOLEAN
    OBVIOUS
  <2> QED BY <1>7, <2>1 DEF Now!CashNext
<1> QED BY <1>4, <1>8 DEF Now!PaymentsNext

LEMMA CommitIsOperation ==
    ASSUME LocksInv, NEW r \in Requests, NEW answer, Commit(r, answer)
    PROVE  Now!PaymentsNext
<1>1. Kind(r) \in {"SALE_PAYMENT", "SALE_REFUND", "REVERSE", "CLOSE"}
  BY TxAssumption DEF Kind
<1> QED BY <1>1, CommitPays, CommitRefunds, CommitReverses, CommitCloses

LEMMA StepIsOperation ==
    ASSUME LocksInv, TxNext
    PROVE  UNCHANGED <<committed, expectedAmount>> \/ Now!PaymentsNext
<1>1. ASSUME NEW r \in Requests, Commit(r, "accepted") \/ Commit(r, "failed")
      PROVE  Now!PaymentsNext
  BY <1>1, CommitIsOperation
<1>2. ASSUME NEW r \in Requests,
             Begin(r) \/ Lock(r) \/ Refuse(r) \/ LockFails(r) \/ SerializationFails(r) \/ Abort(r)
      PROVE  UNCHANGED <<committed, expectedAmount>>
  BY <1>2 DEF Begin, Lock, Refuse, LockFails, SerializationFails, Abort, Retry, End
<1> QED BY <1>1, <1>2 DEF TxNext, Proceed

LEMMA LocksInvariant == TxSpec => []LocksInv
<1> QED BY LocksInvInit, LocksInvStep, PTL DEF TxSpec

\* Every commit is, on the committed data, one operation of Payments made at
\* once: the checks of a transaction hold on the data its commit meets although
\* they were made on its snapshot, whatever ran in between (PrismaService
\* .runSerializable around payments.service.ts and cash-sessions.service.ts).
THEOREM CommitsAreOperations == TxSpec => ImplementsPayments
<1>1. LocksInv /\ [TxNext]_txVars =>
          [<<committed, expectedAmount>>' # <<committed, expectedAmount>>
               => Now!PaymentsNext]_txVars
  <2> SUFFICES ASSUME LocksInv, TxNext,
                      <<committed, expectedAmount>>' # <<committed, expectedAmount>>
               PROVE  Now!PaymentsNext
    OBVIOUS
  <2> QED BY StepIsOperation
<1> QED BY <1>1, LocksInvariant, PTL DEF TxSpec, ImplementsPayments

-----------------------------------------------------------------------------
(* What is proved of Payments, on the committed data *)

After == INSTANCE PaymentsProofs WITH
        PurchaseDocs <- {}, PurchaseReturnDocs <- {}, PaymentIds <- Payers,
        CashMethods <- {Cash}, OtherMethods <- {Card}, Registers <- {Register},
        Sessions <- {Drawer}, Entries <- {}, CountedAmounts <- {0, Opening},
        Amounts <- {Asks[p].amount : p \in Payers},
        activeRegisters <- {Register}, activeMethods <- {Cash, Card},
        status <- [d \in SaleDocs \cup SaleReturnDocs |-> "POSTED"],
        sessions <- [s \in {Drawer} |-> SessionIn(committed)],
        payments <- [p \in Payers |-> Row(committed, p)],
        cashMovements <- RowsOfCash(committed)

LEMMA AfterSums ==
    \A f, T : After!SumFunctionOnSet(f, T) = SumFunctionOnSet(f, T)
BY DEF SumFunctionOnSet, FoldFunctionOnSet, MapThenFoldSet, After!SumFunctionOnSet,
       After!FoldFunctionOnSet, After!MapThenFoldSet

LEMMA PayersAreFinite == IsFiniteSet(Payers) /\ \A p \in Payers : Asks[p].amount \in Nat \ {0}
<1>1. Payers \in SUBSET Requests
  BY DEF Payers
<1> QED BY <1>1, FS_Subset, TxAssumption DEF Payers, Kind

LEMMA AfterCash == After!CashAssumption
BY PayersAreFinite, TxAssumption DEF After!CashAssumption

LEMMA AfterPayments == After!PaymentsAssumption
<1>1. After!Documents = SaleDocs /\ After!ReturnDocs = SaleReturnDocs
  BY DEF After!Documents, After!ReturnDocs
<1>2. After!IsFiniteSet(Payers) /\ After!IsFiniteSet(SaleReturnDocs)
  BY PayersAreFinite, TxAssumption DEF After!IsFiniteSet, IsFiniteSet
<1>3. \A d \in SaleDocs :
          After!Worth({t \in SaleReturnDocs : DocumentOf[t] = d}) <= Total[d]
  BY AfterSums, TxAssumption DEF After!Worth
<1> QED BY <1>1, <1>2, <1>3, TxAssumption DEF After!PaymentsAssumption

\* The two instances name the same amounts and operations.
LEMMA SameAmounts ==
    /\ \A type, d : After!Paid(type, d) = Now!Paid(type, d)
    /\ \A type, t : After!Refunded(type, t) = Now!Refunded(type, t)
    /\ \A s : After!Expected(s) = Now!Expected(s)
<1>1. \A type : After!Posted(type) = Now!Posted(type)
  BY DEF After!Posted, Now!Posted
<1>2. /\ \A type, d : After!Of(type, d) = Now!Of(type, d)
      /\ \A type, t : After!ForReturn(type, t) = Now!ForReturn(type, t)
  BY <1>1 DEF After!Of, Now!Of, After!ForReturn, Now!ForReturn
<1>3. \A ps : After!AmountOf(ps) = Now!AmountOf(ps)
  BY AfterSums, NowSums DEF After!AmountOf, Now!AmountOf, After!Amount, Now!Amount
<1>4. \A s : After!Expected(s) = Now!Expected(s)
  <2>1. \A m : After!MovementDelta(m) = Now!MovementDelta(m)
    BY DEF After!MovementDelta, Now!MovementDelta, After!Inflows, Now!Inflows
  <2>2. \A rows : After!NetCash(rows) = Now!NetCash(rows)
    BY <2>1, AfterSums, NowSums DEF After!NetCash, Now!NetCash
  <2>3. \A s : After!MovementsOf(s) = Now!MovementsOf(s)
    BY DEF After!MovementsOf, Now!MovementsOf
  <2> QED BY <2>2, <2>3 DEF After!Expected, Now!Expected
<1> QED BY <1>2, <1>3, <1>4 DEF After!Paid, Now!Paid, After!Refunded, Now!Refunded

LEMMA SameTakings ==
    /\ \A p, d, m, s, a : Now!SalePayment(p, d, m, s, a) => After!SalePayment(p, d, m, s, a)
    /\ \A p, t, m, s, a : Now!SaleRefund(p, t, m, s, a) => After!SaleRefund(p, t, m, s, a)
<1>1. \A d : After!SaleOutstanding(d) = Now!SaleOutstanding(d)
  BY SameAmounts DEF After!SaleOutstanding, Now!SaleOutstanding, After!NonNegative,
     Now!NonNegative
<1>2. \A t : After!SaleRefundable(t) = Now!SaleRefundable(t)
  BY SameAmounts DEF After!SaleRefundable, Now!SaleRefundable, After!NonNegative,
     Now!NonNegative, After!Min, Now!Min
<1>3. \A m, s : After!Tender(m, s) <=> Now!Tender(m, s)
  BY DEF After!Tender, Now!Tender, After!OpenActive, Now!OpenActive
<1>4. \A p, type, d, t, m, s, a :
          After!Record(p, type, d, t, m, s, a) <=> Now!Record(p, type, d, t, m, s, a)
  BY DEF After!Record, Now!Record, After!CashMovement, Now!CashMovement
<1>5. \A s, a : After!CoversOutflow(s, a) <=> Now!CoversOutflow(s, a)
  BY SameAmounts DEF After!CoversOutflow, Now!CoversOutflow
<1>6. \A p, d, m, s, a : Now!SalePayment(p, d, m, s, a) => After!SalePayment(p, d, m, s, a)
  BY <1>1, <1>3, <1>4 DEF After!SalePayment, Now!SalePayment
<1>7. \A p, t, m, s, a : Now!SaleRefund(p, t, m, s, a) => After!SaleRefund(p, t, m, s, a)
  BY <1>2, <1>3, <1>4, <1>5 DEF After!SaleRefund, Now!SaleRefund
<1> QED BY <1>6, <1>7

LEMMA SameReversals == \A p, s : Now!Reverse(p, s) => After!Reverse(p, s)
<1>1. \A row : After!KeepsRefundsCovered(row) <=> Now!KeepsRefundsCovered(row)
  BY SameAmounts DEF After!KeepsRefundsCovered, Now!KeepsRefundsCovered
<1>2. \A s : After!OpenActive(s) <=> Now!OpenActive(s)
  BY DEF After!OpenActive, Now!OpenActive
<1>3. \A s, a : After!CoversOutflow(s, a) <=> Now!CoversOutflow(s, a)
  BY SameAmounts DEF After!CoversOutflow, Now!CoversOutflow
<1>4. \A row, s : After!Reversed(row, s) = Now!Reversed(row, s)
  BY DEF After!Reversed, Now!Reversed
<1>5. \A k, s, type, a : After!CashMovement(k, s, type, a) = Now!CashMovement(k, s, type, a)
  BY DEF After!CashMovement, Now!CashMovement
<1>6. After!ReversalType = Now!ReversalType
  BY DEF After!ReversalType, Now!ReversalType
<1> SUFFICES ASSUME NEW p, NEW s, Now!Reverse(p, s) PROVE After!Reverse(p, s)
  OBVIOUS
<1> DEFINE row == [q \in Payers |-> Row(committed, q)][p]
<1>7. {Now!CashMovement(<<p, Now!ReversalType[row.type]>>, s, Now!ReversalType[row.type],
                        row.amount) : c \in {s} \cap {Drawer}}
      = {After!CashMovement(<<p, After!ReversalType[row.type]>>, s,
                            After!ReversalType[row.type], row.amount) :
             c \in {s} \cap {Drawer}}
  BY <1>5, <1>6
<1> QED BY <1>1, <1>2, <1>3, <1>4, <1>7 DEF After!Reverse, Now!Reverse

LEMMA SameCash == Now!CashNext => After!CashNext
<1>1. \A s, g, o : Now!OpenSession(s, g, o) => After!OpenSession(s, g, o)
  BY DEF After!OpenSession, Now!OpenSession
<1>2. \A s, c, n : Now!CloseSession(s, c, n) => After!CloseSession(s, c, n)
  BY SameAmounts DEF After!CloseSession, Now!CloseSession
<1>3. \A g : Now!SetRegisterActive(g) => After!SetRegisterActive(g)
  BY DEF After!SetRegisterActive, Now!SetRegisterActive
<1> QED BY <1>1, <1>2, <1>3 DEF After!CashNext, Now!CashNext

LEMMA SameOperations == Now!PaymentsNext => After!PaymentsNext
<1>1. /\ \A d : Now!PostSaleDoc(d) => After!PostSaleDoc(d)
      /\ \A t : Now!PostReturnDoc(t) => After!PostReturnDoc(t)
  BY DEF After!PostSaleDoc, Now!PostSaleDoc, After!PostReturnDoc, Now!PostReturnDoc,
     After!SetStatus, Now!SetStatus
<1>2. \A m : Now!SetMethodActive(m) => After!SetMethodActive(m)
  BY DEF After!SetMethodActive, Now!SetMethodActive
<1>3. After!Methods = Now!Methods /\ After!ReturnDocs = Now!ReturnDocs
  BY DEF After!Methods, Now!Methods, After!ReturnDocs, Now!ReturnDocs
<1> SUFFICES ASSUME Now!PaymentsNext PROVE After!PaymentsNext
  OBVIOUS
<1>4. CASE \E p \in Payers, s \in {Drawer} \cup {NoSession} :
              \E method \in Now!Methods, amount \in {Asks[q].amount : q \in Payers} :
                 \/ \E d \in SaleDocs : Now!SalePayment(p, d, method, s, amount)
                 \/ \E t \in SaleReturnDocs : Now!SaleRefund(p, t, method, s, amount)
  <2>1. \E p \in Payers, s \in {Drawer} \cup {NoSession} :
           \E method \in After!Methods, amount \in {Asks[q].amount : q \in Payers} :
              \/ \E d \in SaleDocs : After!SalePayment(p, d, method, s, amount)
              \/ \E t \in SaleReturnDocs : After!SaleRefund(p, t, method, s, amount)
    BY <1>3, <1>4, SameTakings
  <2> QED BY <2>1 DEF After!PaymentsNext
<1>5. CASE \E p \in Payers, s \in {Drawer} \cup {NoSession} : Now!Reverse(p, s)
  BY <1>5, SameReversals DEF After!PaymentsNext
<1>6. CASE \/ \E d \in SaleDocs : Now!PostSaleDoc(d)
           \/ \E t \in Now!ReturnDocs : Now!PostReturnDoc(t)
           \/ \E method \in Now!Methods : Now!SetMethodActive(method)
  BY <1>1, <1>2, <1>3, <1>6 DEF After!PaymentsNext
<1>7. CASE Now!CashNext /\ UNCHANGED <<[d \in SaleDocs \cup SaleReturnDocs |-> "POSTED"],
                                      {Cash, Card}, [p \in Payers |-> Row(committed, p)]>>
  BY <1>7, SameCash DEF After!PaymentsNext
<1> QED BY <1>4, <1>5, <1>6, <1>7 DEF Now!PaymentsNext

-----------------------------------------------------------------------------
(* The committed data stays sound *)

LEMMA RowShapes ==
    ASSUME NEW S, NEW p \in Payers
    PROVE  /\ p \notin S => /\ Row(S, p).status = "NONE" /\ Row(S, p).document = NoDocument
                            /\ Row(S, p).return = NoDocument
                            /\ Row(S, p).session = NoSession
           /\ p \in S => /\ Row(S, p).status \in {"POSTED", "REVERSED"}
                         /\ Row(S, p).type = Kind(p) /\ Row(S, p).document = SaleOf(p)
                         /\ Row(S, p).amount = Asks[p].amount
                         /\ Kind(p) = "SALE_PAYMENT" => /\ SaleOf(p) \in SaleDocs
                                                        /\ Row(S, p).return = NoDocument
                         /\ Kind(p) = "SALE_REFUND" =>
                                /\ Row(S, p).return \in SaleReturnDocs
                                /\ SaleOf(p) = DocumentOf[Row(S, p).return]
                                /\ SaleOf(p) \in SaleDocs
           /\ Row(S, p) \in After!PaymentRows
<1>1. /\ p \in Requests /\ PaymentOf(p) = p /\ Kind(p) \in {"SALE_PAYMENT", "SALE_REFUND"}
      /\ Kind(p) = "SALE_PAYMENT" => Asks[p].on \in SaleDocs /\ SaleOf(p) = Asks[p].on
      /\ Kind(p) = "SALE_REFUND" => /\ Asks[p].on \in SaleReturnDocs
                                    /\ SaleOf(p) = DocumentOf[Asks[p].on]
                                    /\ SaleOf(p) \in SaleDocs
  BY TxAssumption DEF Payers, PaymentOf, SaleOf, Kind
<1>2. CASE p \notin S
  <2>1. Row(S, p) \in After!PaymentRows
    BY <1>2 DEF Row, After!PaymentRows, After!PaymentTypes, After!Documents, After!ReturnDocs,
       After!Methods
  <2> QED BY <1>2, <2>1 DEF Row
<1>3. CASE p \in S
  <2>1. Row(S, p) \in After!PaymentRows
    BY <1>1, <1>3 DEF Row, After!PaymentRows, After!PaymentTypes, After!Documents,
       After!ReturnDocs, After!Methods
  <2> QED BY <1>1, <1>3, <2>1 DEF Row
<1> QED BY <1>2, <1>3

\* Committed data that keeps the promises of Payments satisfies the invariant they
\* are proved with: its rows have the shape Row and RowsOfCash give them.
LEMMA SoundMeansSettled ==
    ASSUME TxInv, CommittedIsSound
    PROVE  After!SettledInv
<1>0. committed \subseteq Requests /\ expectedAmount \in Int
  BY DEF TxInv, TxTypeOK
<1>1. After!CashTypeOK
  <2>1. [s \in {Drawer} |-> SessionIn(committed)] \in [{Drawer} -> After!SessionRows]
    BY <1>0 DEF SessionIn, After!SessionRows
  <2>2. ASSUME NEW m \in RowsOfCash(committed)
        PROVE  /\ m.session = Drawer /\ m.type \in After!MovementTypes
               /\ m.amount \in {Asks[p].amount : p \in Payers}
    <3>1. PICK r \in committed : UsesCash(r) /\ m = CashRow(r)
      BY RowsAreOfRequests
    <3>2. r \in Requests /\ PaymentOf(r) \in Payers
      BY <1>0, <3>1, RequestRows DEF UsesCash, Payers
    <3>3. /\ m.session = Drawer /\ m.amount = Asks[PaymentOf(r)].amount
          /\ m.type \in {"SALE_PAYMENT", "SALE_REFUND", "SALE_PAYMENT_REVERSAL",
                         "SALE_REFUND_REVERSAL"}
      BY <3>1, <3>2, CashRowTypes
    <3> QED BY <3>2, <3>3 DEF After!MovementTypes, After!Inflows, After!Outflows
  <2>3. SessionIn(committed).status # "NONE" /\ SessionIn(committed).register = Register
    BY DEF SessionIn
  <2> QED BY <2>1, <2>2, <2>3 DEF After!CashTypeOK
<1>2. After!IsFiniteSet(RowsOfCash(committed))
  <2>1. IsFiniteSet(RowsOfCash(committed))
    BY <1>0, CashRowsAreMoney
  <2> QED BY <2>1 DEF After!IsFiniteSet, IsFiniteSet
<1>3. After!OneOpenSession
  BY DEF After!OneOpenSession
<1>4. After!ClosingSnapshotHolds /\ After!DrawerNeverNegative
  BY SameAmounts DEF CommittedIsSound, After!ClosingSnapshotHolds, Now!ClosingSnapshotHolds,
     After!DrawerNeverNegative, Now!DrawerNeverNegative
<1>5. After!PaymentsTypeOK
  <2>1. [p \in Payers |-> Row(committed, p)] \in [Payers -> After!PaymentRows]
    BY RowShapes
  <2>2. \A p \in Payers : Row(committed, p).return # NoDocument =>
            Row(committed, p).document = DocumentOf[Row(committed, p).return]
    <3>1. \A p \in Payers : Kind(p) \in {"SALE_PAYMENT", "SALE_REFUND"}
      BY DEF Payers
    <3> QED BY <3>1, RowShapes
  <2>3. [d \in SaleDocs \cup SaleReturnDocs |-> "POSTED"] \in
            [After!Documents \cup After!ReturnDocs ->
                {"DRAFT", "CONFIRMED", "RECEIVING", "POSTED", "CANCELLED"}]
    BY DEF After!Documents, After!ReturnDocs
  <2>4. {Cash, Card} \subseteq After!Methods
    BY DEF After!Methods
  <2> QED BY <1>1, <2>1, <2>2, <2>3, <2>4 DEF After!PaymentsTypeOK
<1>6. After!RowsFit
  <2>1. ASSUME NEW p \in Payers
        PROVE  /\ Row(committed, p).status = "NONE" =>
                      /\ Row(committed, p).document = NoDocument
                      /\ Row(committed, p).session = NoSession
               /\ Row(committed, p).status # "NONE" =>
                      /\ Row(committed, p).amount \in {Asks[q].amount : q \in Payers}
                      /\ After!Fits(Row(committed, p).type, Row(committed, p).document,
                                    Row(committed, p).return)
    <3>1. Kind(p) \in {"SALE_PAYMENT", "SALE_REFUND"}
      BY DEF Payers
    <3>2. CASE p \notin committed
      BY <3>2, RowShapes
    <3>3. CASE p \in committed
      <4> DEFINE type == Row(committed, p).type
                 d == Row(committed, p).document
                 t == Row(committed, p).return
      <4>1. type = Kind(p) /\ d \in SaleDocs
        BY <3>1, <3>3, RowShapes
      <4>2. /\ type = "SALE_PAYMENT" => t = NoDocument
            /\ type = "SALE_REFUND" => t \in SaleReturnDocs /\ d = DocumentOf[t]
        BY <3>1, <3>3, <4>1, RowShapes
      <4>3. Row(committed, p).amount \in {Asks[q].amount : q \in Payers}
        BY <3>3, RowShapes
      <4>4. Row(committed, p).status # "NONE"
        BY <3>3, RowShapes
      <4> HIDE DEF type, d, t
      <4>5. After!Fits(type, d, t)
        BY <3>1, <4>1, <4>2 DEF After!Fits, After!Collected, After!GivenBack, After!ReturnDocs
      <4> QED BY <4>3, <4>4, <4>5 DEF type, d, t
    <3> QED BY <3>2, <3>3
  <2> QED BY <2>1 DEF After!RowsFit
<1>7. After!ReturnsFit
  BY TxAssumption DEF After!ReturnsFit, After!ReturnDocs
<1>8. After!CancelledPurchaseUnpaid
  BY DEF After!CancelledPurchaseUnpaid
<1>9. After!CashMatchesPayments
  <2>1. After!ReversalType = Now!ReversalType
    BY DEF After!ReversalType, Now!ReversalType
  <2>2. \A k, s, type, a : After!CashMovement(k, s, type, a) = Now!CashMovement(k, s, type, a)
    BY DEF After!CashMovement, Now!CashMovement
  <2>3. \A p : After!Amount(p) = Now!Amount(p)
    BY DEF After!Amount, Now!Amount
  <2> QED BY <2>1, <2>2, <2>3
      DEF CommittedIsSound, After!CashMatchesPayments, Now!CashMatchesPayments
<1>10. After!SaleSettlementSound
  BY SameAmounts DEF CommittedIsSound, After!SaleSettlementSound, Now!SaleSettlementSound
<1>11. After!RowsInv
  BY <1>1, <1>2, <1>3, <1>4, <1>5, <1>6, <1>7, <1>8, <1>9 DEF After!RowsInv, After!CashInv
<1> QED BY <1>10, <1>11 DEF After!SettledInv

LEMMA SettledMeansCommittedSound ==
    ASSUME After!SettledInv PROVE CommittedIsSound
<1>1. /\ After!SaleSettlementSound /\ After!ClosingSnapshotHolds /\ After!DrawerNeverNegative
      /\ After!CashMatchesPayments
  BY DEF After!SettledInv, After!RowsInv, After!CashInv
<1>2. After!ReversalType = Now!ReversalType
  BY DEF After!ReversalType, Now!ReversalType
<1>3. \A k, s, type, a : After!CashMovement(k, s, type, a) = Now!CashMovement(k, s, type, a)
  BY DEF After!CashMovement, Now!CashMovement
<1>4. \A p : After!Amount(p) = Now!Amount(p)
  BY DEF After!Amount, Now!Amount
<1>5. Now!CashMatchesPayments
  BY <1>1, <1>2, <1>3, <1>4 DEF After!CashMatchesPayments, Now!CashMatchesPayments
<1>6. Now!SaleSettlementSound
  BY <1>1, SameAmounts DEF After!SaleSettlementSound, Now!SaleSettlementSound
<1>7. Now!ClosingSnapshotHolds /\ Now!DrawerNeverNegative
  BY <1>1, SameAmounts DEF After!ClosingSnapshotHolds, Now!ClosingSnapshotHolds,
     After!DrawerNeverNegative, Now!DrawerNeverNegative
<1> QED BY <1>5, <1>6, <1>7 DEF CommittedIsSound

LEMMA SettledStaysSettled ==
    ASSUME LocksInv, After!SettledInv, [TxNext]_txVars
    PROVE  After!SettledInv'
<1>1. UNCHANGED <<committed, expectedAmount>> \/ After!PaymentsNext
  BY StepIsOperation, SameOperations DEF txVars
<1>2. ASSUME UNCHANGED <<committed, expectedAmount>> PROVE UNCHANGED After!paymentVars
  BY <1>2 DEF After!paymentVars, SessionIn, RowsOfCash, Row, ReversedIn, SaleOf, PaymentOf,
     Kind, UsesCash, Payers, Closings
<1>3. [After!PaymentsNext]_(After!paymentVars)
  BY <1>1, <1>2
<1> QED BY <1>3, After!SettledStep, AfterCash, AfterPayments

\* Data that keeps the promises of Payments goes on keeping them, whichever
\* requests run at once, wait for each other's rows, fail and are tried again.
THEOREM CommittedStaysSound == TxSpec /\ CommittedIsSound => []CommittedIsSound
<1>1. LocksInv /\ CommittedIsSound => After!SettledInv
  BY SoundMeansSettled DEF LocksInv
<1>2. LocksInv /\ After!SettledInv /\ [TxNext]_txVars => After!SettledInv'
  BY SettledStaysSettled
<1>3. After!SettledInv => CommittedIsSound
  BY SettledMeansCommittedSound
<1> QED BY <1>1, <1>2, <1>3, LocksInvariant, PTL DEF TxSpec

LEMMA NothingIsSound == ASSUME committed = {} PROVE CommittedIsSound
<1>1. \A p \in Payers : Row(committed, p).status = "NONE" /\ Row(committed, p).session = NoSession
  BY DEF Row
<1>2. /\ \A type, d : ActiveOf(committed, type, d) = {}
      /\ \A type, t : ActiveFor(committed, type, t) = {}
  BY <1>1 DEF ActiveOf, ActiveFor, Active
<1>3. AmountIn(committed, {}) = 0
  BY SumEmpty DEF AmountIn
<1>4. \A type, x : Now!Paid(type, x) = 0 /\ Now!Refunded(type, x) = 0
  BY <1>2, <1>3, NowPaid
<1>5. Now!SaleSettlementSound
  BY <1>4, TxAssumption DEF Now!SaleSettlementSound
<1>6. RowsOfCash(committed) = {}
  BY DEF RowsOfCash
<1>7. CashIn(committed) = 0
  BY <1>6, SumEmpty DEF CashIn
<1>8. Now!DrawerNeverNegative
  <2>1. Now!Expected(Drawer) = Opening + CashIn(committed)
    BY NowExpected
  <2> QED BY <1>7, <2>1, TxAssumption DEF Now!DrawerNeverNegative
<1>9. Now!ClosingSnapshotHolds
  BY DEF Now!ClosingSnapshotHolds, SessionIn
<1>10. Now!CashMatchesPayments
  BY <1>1, <1>6 DEF Now!CashMatchesPayments
<1> QED BY <1>5, <1>8, <1>9, <1>10 DEF CommittedIsSound

\* In particular when nothing was paid before: then the data is sound always.
THEOREM SoundFromNothing ==
    ASSUME Before = {}
    PROVE  TxSpec => []CommittedIsSound
<1>1. TxInit => committed = {}
  BY DEF TxInit
<1>2. committed = {} => CommittedIsSound
  BY NothingIsSound
<1> QED BY <1>1, <1>2, CommittedStaysSound, PTL DEF TxSpec
=============================================================================
