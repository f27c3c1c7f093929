-------------------------- MODULE InventoryProofs --------------------------
(***************************************************************************)
(* Proofs about Inventory, for every set of products and locations, every  *)
(* set of request quantities, every column width and every bound on the    *)
(* log.                                                                    *)
(***************************************************************************)
EXTENDS Inventory, Sums

\* What an accepted request writes: balances in the column's range, for cells
\* of the ledger only.
LEMMA AfterInRange ==
    ASSUME NEW balances \in [Cells -> 0..MaxInt \cup {NoRow}],
           NEW r \in Requests, Accepts(balances, r)
    PROVE  /\ Touched(r) \subseteq Cells
           /\ After(balances, r) \in [Touched(r) -> 0..MaxInt]
           /\ [c \in Touched(r) |-> QuantityAt(balances, c)]
                  \in [Touched(r) -> 0..MaxInt]
<1>1. Touched(r) \subseteq Cells
  BY DEF Touched, Cells, Requests
<1>2. ASSUME NEW c \in Touched(r)
      PROVE  QuantityAt(balances, c) \in 0..MaxInt
  BY <1>1, InventoryAssumption DEF QuantityAt
<1>3. ASSUME NEW c \in Touched(r)
      PROVE  After(balances, r)[c] \in 0..MaxInt
  <2>1. After(balances, r)[c] <= MaxInt
    BY DEF Accepts
  <2>2. r.quantity \in Nat
    BY DEF Requests
  <2>3. CASE c = SourceCell(r)
    <3>1. r.source # NoLocation
      BY <2>3, InventoryAssumption
         DEF SourceCell, Touched, Requests
    <3>2. r.type \in {"OUT", "TRANSFER"}
      BY <3>1 DEF Accepts, WellShaped, Requests, Types
    <3>3. balances[c] \in 0..MaxInt /\ balances[c] >= r.quantity
      BY <3>2, <2>3, <1>1 DEF Accepts, SourceCovers
    <3> QED
      BY <3>3, <2>3, <2>2, <2>1, InventoryAssumption DEF After
  <2>4. CASE c # SourceCell(r)
    <3>1. After(balances, r)[c] =
              IF r.type \in {"INITIAL", "ADJUSTMENT"} THEN r.quantity
              ELSE QuantityAt(balances, c) + r.quantity
      BY <2>4 DEF After
    <3> QED
      BY <3>1, <2>1, <2>2, <1>2, InventoryAssumption
  <2> QED
    BY <2>3, <2>4
<1> QED
  BY <1>1, <1>2, <1>3 DEF After

-----------------------------------------------------------------------------
(* Type correctness *)

LEMMA ManualRequestsAreRequests == ManualRequests \subseteq Requests
BY InventoryAssumption DEF ManualRequests, Requests

\* The row a movement appends is well formed.
LEMMA MovementWellFormed ==
    ASSUME InventoryTypeOK, NEW r \in Requests, Accepts(stock, r)
    PROVE  /\ Movement(stock, r) \in MovementRows
           /\ DOMAIN Movement(stock, r).before = Touched(r)
           /\ DOMAIN Movement(stock, r).after = Touched(r)
           /\ Movement(stock, r).request = r
           /\ Movement(stock, r).after = After(stock, r)
<1>1. /\ Touched(r) \subseteq Cells
      /\ After(stock, r) \in [Touched(r) -> 0..MaxInt]
      /\ [c \in Touched(r) |-> QuantityAt(stock, c)] \in [Touched(r) -> 0..MaxInt]
  BY AfterInRange DEF InventoryTypeOK
<1>2. /\ After(stock, r) \in BalanceMaps
      /\ [c \in Touched(r) |-> QuantityAt(stock, c)] \in BalanceMaps
  BY <1>1 DEF BalanceMaps
<1> QED
  BY <1>1, <1>2 DEF Movement, MovementRows, After

LEMMA TypeStep ==
    InventoryTypeOK /\ [InventoryNext]_inventoryVars => InventoryTypeOK'
<1> SUFFICES ASSUME InventoryTypeOK, [InventoryNext]_inventoryVars
             PROVE  InventoryTypeOK'
  OBVIOUS
<1>1. ASSUME NEW r \in ManualRequests, CreateMovement(r)
      PROVE  InventoryTypeOK'
  <2>1. r \in Requests /\ Accepts(stock, r)
    BY <1>1, ManualRequestsAreRequests DEF CreateMovement
  <2> DEFINE m == Movement(stock, r)
  <2>2. /\ m \in MovementRows
        /\ DOMAIN m.before = Touched(r) /\ DOMAIN m.after = Touched(r)
        /\ m.request = r
    BY <2>1, MovementWellFormed
  <2>3. stock' \in [Cells -> 0..MaxInt \cup {NoRow}]
    <3>1. After(stock, r) \in [Touched(r) -> 0..MaxInt]
      BY <2>1, AfterInRange DEF InventoryTypeOK
    <3> QED
      BY <3>1, <1>1 DEF CreateMovement, Write, InventoryTypeOK
  <2>4. movements' = Append(movements, m) /\ movements \in Seq(MovementRows)
    BY <1>1 DEF CreateMovement, InventoryTypeOK
  <2>5. movements' \in Seq(MovementRows)
    BY <2>4, <2>2
  <2>6. ASSUME NEW i \in DOMAIN movements'
        PROVE  /\ DOMAIN movements'[i].before = Touched(movements'[i].request)
               /\ DOMAIN movements'[i].after = Touched(movements'[i].request)
    <3>1. CASE i \in DOMAIN movements
      BY <3>1, <2>4 DEF InventoryTypeOK
    <3>2. CASE i \notin DOMAIN movements
      <4>1. movements'[i] = m
        BY <3>2, <2>4, <2>2
      <4> QED
        BY <4>1, <2>2
    <3> QED
      BY <3>1, <3>2
  <2> QED
    BY <2>3, <2>5, <2>6, <1>1
       DEF InventoryTypeOK, CreateMovement, masterVars, Touched
<1>2. ASSUME NEW p \in Products, SetProductActive(p)
      PROVE  InventoryTypeOK'
  BY <1>2 DEF SetProductActive, InventoryTypeOK, Touched
<1>3. ASSUME NEW l \in Locations, SetLocationActive(l)
      PROVE  InventoryTypeOK'
  BY <1>3 DEF SetLocationActive, InventoryTypeOK, Touched
<1>4. CASE UNCHANGED inventoryVars
  BY <1>4 DEF inventoryVars, InventoryTypeOK, Touched
<1> QED
  BY <1>1, <1>2, <1>3, <1>4 DEF InventoryNext

LEMMA TypeInit == InventoryInit => InventoryTypeOK
BY DEF InventoryInit, InventoryTypeOK, MovementRows

\* No balance is ever negative or too wide, in the rows or in the log.
THEOREM InventoryTypeCorrect == InventorySpec => []InventoryTypeOK
BY TypeInit, TypeStep, PTL DEF InventorySpec

-----------------------------------------------------------------------------
(* The balances and the log *)

\* What CreateMovement leaves, cell by cell and row by row: the facts about the
\* step that both ledger invariants rest on.
LEMMA MovementStep ==
    ASSUME InventoryTypeOK, NEW r \in ManualRequests, CreateMovement(r)
    PROVE  /\ movements' = Append(movements, Movement(stock, r))
           /\ Len(movements) \in Nat
           /\ DOMAIN movements = 1..Len(movements)
           /\ DOMAIN movements' = 1..(Len(movements) + 1)
           /\ \A i \in DOMAIN movements : movements'[i] = movements[i]
           /\ movements'[Len(movements) + 1] = Movement(stock, r)
           /\ Movement(stock, r).request = r
           /\ Touched(r) \subseteq Cells
           /\ \A c \in Touched(r) :
                  /\ stock'[c] = Movement(stock, r).after[c]
                  /\ stock'[c] # NoRow
                  /\ Movement(stock, r).before[c] =
                         IF stock[c] = NoRow THEN 0 ELSE stock[c]
           /\ \A c \in Cells \ Touched(r) : stock'[c] = stock[c]
<1>1. r \in Requests /\ Accepts(stock, r)
  BY ManualRequestsAreRequests DEF CreateMovement
<1>2. /\ Movement(stock, r) \in MovementRows
      /\ Movement(stock, r).request = r
      /\ Movement(stock, r).after = After(stock, r)
  BY <1>1, MovementWellFormed
<1>3. movements' = Append(movements, Movement(stock, r))
  BY DEF CreateMovement
<1>4. movements \in Seq(MovementRows)
  BY DEF InventoryTypeOK
<1>5. /\ Len(movements) \in Nat
      /\ DOMAIN movements = 1..Len(movements)
      /\ DOMAIN movements' = 1..(Len(movements) + 1)
      /\ \A i \in DOMAIN movements : movements'[i] = movements[i]
      /\ movements'[Len(movements) + 1] = Movement(stock, r)
  BY <1>2, <1>3, <1>4
<1>6. /\ Touched(r) \subseteq Cells
      /\ After(stock, r) \in [Touched(r) -> 0..MaxInt]
  BY <1>1, AfterInRange DEF InventoryTypeOK
<1>7. stock' = [c \in Cells |-> IF c \in Touched(r) THEN After(stock, r)[c]
                                ELSE stock[c]]
  BY DEF CreateMovement, Write
<1>8. ASSUME NEW c \in Touched(r)
      PROVE  /\ stock'[c] = Movement(stock, r).after[c]
             /\ stock'[c] # NoRow
             /\ Movement(stock, r).before[c] =
                    IF stock[c] = NoRow THEN 0 ELSE stock[c]
  <2>1. stock'[c] = After(stock, r)[c]
    BY <1>6, <1>7
  <2>2. After(stock, r)[c] \in 0..MaxInt
    BY <1>6
  <2> QED
    BY <2>1, <2>2, <1>2, InventoryAssumption DEF Movement, QuantityAt
<1>9. \A c \in Cells \ Touched(r) : stock'[c] = stock[c]
  BY <1>7
<1> QED
  BY <1>2, <1>3, <1>5, <1>6, <1>8, <1>9

LEMMA StockStep ==
    ASSUME InventoryTypeOK, StockMatchesLedger,
           NEW r \in ManualRequests, CreateMovement(r)
    PROVE  StockMatchesLedger'
<1>n. PICK n \in Nat : n = Len(movements) + 1
  BY MovementStep
<1> SUFFICES ASSUME NEW c \in Cells
             PROVE  /\ stock'[c] = NoRow =>
                          \A i \in DOMAIN movements' : ~Touches(i, c)'
                    /\ stock'[c] # NoRow =>
                          \E i \in DOMAIN movements' :
                              LastTouch(i, c)' /\ stock'[c] = movements'[i].after[c]
  BY DEF StockMatchesLedger
<1>1. /\ n \in DOMAIN movements'
      /\ \A i \in DOMAIN movements' :
             i \in Nat /\ i <= n /\ (i # n => i \in DOMAIN movements)
      /\ \A i \in DOMAIN movements :
             /\ i \in DOMAIN movements' /\ i \in Nat /\ i < n
             /\ movements'[i] = movements[i]
      /\ movements'[n].request = r
  BY <1>n, MovementStep
<1>2. CASE c \in Touched(r)
  <2>1. LastTouch(n, c)'
    BY <1>1, <1>2 DEF LastTouch, Touches, Touched
  <2>2. stock'[c] = movements'[n].after[c] /\ stock'[c] # NoRow
    BY <1>n, <1>2, MovementStep
  <2> QED
    BY <2>1, <2>2, <1>1
<1>3. CASE c \notin Touched(r)
  <2>1. stock'[c] = stock[c]
    BY <1>3, MovementStep
  <2>2. CASE stock[c] = NoRow
    <3>1. \A i \in DOMAIN movements : c \notin Touched(movements[i].request)
      BY <2>2 DEF StockMatchesLedger, Touches
    <3>2. \A i \in DOMAIN movements' : c \notin Touched(movements'[i].request)
      BY <3>1, <1>1, <1>3
    <3> QED
      BY <3>2, <2>1, <2>2 DEF Touches, Touched
  <2>3. CASE stock[c] # NoRow
    <3>1. PICK i \in DOMAIN movements :
              LastTouch(i, c) /\ stock[c] = movements[i].after[c]
      BY <2>3 DEF StockMatchesLedger
    <3>2. /\ c \in Touched(movements[i].request)
          /\ \A j \in DOMAIN movements :
                 j > i => c \notin Touched(movements[j].request)
      BY <3>1 DEF LastTouch, Touches
    <3>3. i \in DOMAIN movements' /\ movements'[i] = movements[i]
      BY <1>1
    <3>4. \A j \in DOMAIN movements' :
              j > i => c \notin Touched(movements'[j].request)
      BY <3>2, <1>1, <1>3
    <3>5. LastTouch(i, c)'
      BY <3>2, <3>3, <3>4 DEF LastTouch, Touches, Touched
    <3> QED
      BY <3>1, <3>3, <3>5, <2>1, <2>3
  <2> QED
    BY <2>2, <2>3
<1> QED
  BY <1>2, <1>3

LEMMA ChainStep ==
    ASSUME InventoryTypeOK, StockMatchesLedger, LedgerChains,
           NEW r \in ManualRequests, CreateMovement(r)
    PROVE  LedgerChains'
<1> DEFINE n == Len(movements) + 1
<1> SUFFICES ASSUME NEW i \in DOMAIN movements',
                    NEW c \in Touched(movements'[i].request)
             PROVE  /\ \A j \in 1..(i - 1) :
                          /\ Touches(j, c)'
                          /\ \A k \in (j + 1)..(i - 1) : ~Touches(k, c)'
                          => movements'[i].before[c] = movements'[j].after[c]
                    /\ (\A j \in 1..(i - 1) : ~Touches(j, c)')
                          => movements'[i].before[c] = 0
  BY DEF LedgerChains, Touched
<1>1. /\ i \in 1..n /\ n \in Nat
      /\ i # n => i \in DOMAIN movements
      /\ DOMAIN movements = 1..(n - 1)
      /\ \A j \in DOMAIN movements :
             (Touches(j, c)' <=> Touches(j, c)) /\ movements'[j] = movements[j]
  BY MovementStep DEF Touches, Touched
<1>2. CASE i # n
  <2>1. /\ movements'[i] = movements[i] /\ i \in DOMAIN movements
        /\ \A j \in 1..(i - 1) : j \in DOMAIN movements
    BY <1>1, <1>2
  <2>2. /\ \A j \in 1..(i - 1) :
               /\ Touches(j, c)
               /\ \A k \in (j + 1)..(i - 1) : ~Touches(k, c)
               => movements[i].before[c] = movements[j].after[c]
        /\ (\A j \in 1..(i - 1) : ~Touches(j, c)) => movements[i].before[c] = 0
    BY <2>1 DEF LedgerChains
  <2>3. \A j \in 1..(i - 1) : /\ Touches(j, c)' <=> Touches(j, c)
                             /\ movements'[j] = movements[j]
    BY <2>1, <1>1
  <2>4. \A j \in 1..(i - 1) : \A k \in (j + 1)..(i - 1) : k \in 1..(i - 1)
    BY <1>1
  <2> QED
    BY <2>1, <2>2, <2>3, <2>4
<1>3. CASE i = n
  <2>1. movements'[i] = Movement(stock, r) /\ c \in Touched(r) /\ c \in Cells
    BY <1>3, MovementStep
  <2>2. movements'[i].before[c] = IF stock[c] = NoRow THEN 0 ELSE stock[c]
    BY <2>1, MovementStep
  <2>3. ASSUME NEW j \in 1..(i - 1), Touches(j, c)',
               \A k \in (j + 1)..(i - 1) : ~Touches(k, c)'
        PROVE  movements'[i].before[c] = movements'[j].after[c]
    <3>1. j \in DOMAIN movements /\ Touches(j, c)
      BY <2>3, <1>1, <1>3
    <3>2. stock[c] # NoRow
      BY <3>1, <2>1 DEF StockMatchesLedger
    <3>3. PICK k \in DOMAIN movements :
              LastTouch(k, c) /\ stock[c] = movements[k].after[c]
      BY <3>2, <2>1 DEF StockMatchesLedger
    <3>4. k = j
      <4>1. k >= j
        BY <3>1, <3>3, <1>1 DEF LastTouch
      <4>2. ~(k > j)
        BY <2>3, <3>3, <1>1, <1>3 DEF LastTouch
      <4> QED
        BY <4>1, <4>2, <1>1
    <3> QED
      BY <3>1, <3>2, <3>3, <3>4, <2>2, <1>1
  <2>4. ASSUME \A j \in 1..(i - 1) : ~Touches(j, c)'
        PROVE  movements'[i].before[c] = 0
    <3>1. \A j \in DOMAIN movements : ~Touches(j, c)
      BY <2>4, <1>1, <1>3
    <3>2. stock[c] = NoRow
      BY <3>1, <2>1 DEF StockMatchesLedger, LastTouch
    <3> QED
      BY <3>2, <2>2
  <2> QED
    BY <2>3, <2>4
<1> QED
  BY <1>2, <1>3

\* The inductive invariant: the chain needs the balances to agree with the log
\* (the next movement starts from the balance row), and both need the types.
LedgerInv == InventoryTypeOK /\ StockMatchesLedger /\ LedgerChains

LEMMA LedgerInit == InventoryInit => LedgerInv
BY TypeInit
   DEF InventoryInit, LedgerInv, StockMatchesLedger, LedgerChains

LEMMA LedgerStep == LedgerInv /\ [InventoryNext]_inventoryVars => LedgerInv'
<1> SUFFICES ASSUME LedgerInv, [InventoryNext]_inventoryVars
             PROVE  LedgerInv'
  OBVIOUS
<1>1. InventoryTypeOK'
  BY TypeStep DEF LedgerInv
<1>2. ASSUME NEW r \in ManualRequests, CreateMovement(r)
      PROVE  StockMatchesLedger' /\ LedgerChains'
  BY <1>2, StockStep, ChainStep DEF LedgerInv
<1>3. ASSUME UNCHANGED ledgerVars
      PROVE  StockMatchesLedger' /\ LedgerChains'
  BY <1>3 DEF ledgerVars, LedgerInv, StockMatchesLedger, LedgerChains,
              LastTouch, Touches, Touched
<1> QED
  BY <1>1, <1>2, <1>3
     DEF InventoryNext, SetProductActive, SetLocationActive, inventoryVars,
         ledgerVars, LedgerInv

LEMMA LedgerInvariant == InventorySpec => []LedgerInv
BY LedgerInit, LedgerStep, PTL DEF InventorySpec

\* A balance row always holds what the last movement on its cell recorded.
THEOREM BalancesFollowLedger == InventorySpec => []StockMatchesLedger
BY LedgerInvariant, PTL DEF LedgerInv

\* The log of every cell can be replayed from zero without a gap.
THEOREM LedgerReplays == InventorySpec => []LedgerChains
BY LedgerInvariant, PTL DEF LedgerInv

-----------------------------------------------------------------------------
(* Documents: requests applied one after the other *)

\* the ledgers one request leaves of a set of ledgers
Applied(ledgers, r) ==
    {[stock |-> Write(g.stock, r), movements |-> Append(g.movements, Movement(g.stock, r))] :
        g \in {g \in ledgers : Accepts(g.stock, r) /\ RefUnused(g.movements, r)}}

Applies(h, ledgers, requests, S) ==
    h = [s \in SUBSET S |->
            IF s = {} THEN ledgers ELSE Applied(h[s \ {Max(s)}], requests[Max(s)])]

\* the value of such a function at s
AppliesAt(h, ledgers, requests, s) ==
    h[s] = IF s = {} THEN ledgers ELSE Applied(h[s \ {Max(s)}], requests[Max(s)])

\* the ledgers after the requests with an index in S
Stage(ledgers, requests, S) == (CHOOSE h : Applies(h, ledgers, requests, S))[S]

StageAt(ledgers, requests, T) ==
    Stage(ledgers, requests, T) =
        IF T = {} THEN ledgers
        ELSE Applied(Stage(ledgers, requests, T \ {Max(T)}), requests[Max(T)])

LEMMA ApplyAllIsStage ==
    ASSUME NEW balances, NEW log, NEW requests
    PROVE  ApplyAll(balances, log, requests) =
               Stage({[stock |-> balances, movements |-> log]}, requests, DOMAIN requests)
BY DEF ApplyAll, FoldLeft, MapThenFoldSet, Stage, Applies, Applied

Indices(S) == IsFiniteSet(S) /\ S \subseteq Int

LEMMA MaxIsElement ==
    ASSUME NEW S, Indices(S), S # {}
    PROVE  Max(S) \in S /\ \A y \in S : Max(S) >= y
<1> USE DEF Indices
<1> DEFINE C == {T \in SUBSET S : T # {} => \E m \in T : \A y \in T : m >= y}
<1>1. {} \in C
  OBVIOUS
<1>2. ASSUME NEW T \in SUBSET S, NEW x \in T, T \ {x} \in C PROVE T \in C
  <2>1. CASE T \ {x} = {}
    <3>1. \A y \in T : x >= y
      BY <2>1
    <3> QED BY <3>1
  <2>2. CASE T \ {x} # {}
    <3>1. PICK m \in T \ {x} : \A y \in T \ {x} : m >= y
      BY <1>2, <2>2
    <3>2. m \in Int /\ x \in Int /\ m \in T /\ T \subseteq Int
      OBVIOUS
    <3>3. CASE m >= x
      <4>1. \A y \in T : m >= y
        BY <3>1, <3>3
      <4> QED BY <3>2, <4>1
    <3>4. CASE ~(m >= x)
      <4>1. \A y \in T : x >= y
        BY <3>1, <3>2, <3>4
      <4> QED BY <4>1
    <3> QED BY <3>3, <3>4
  <2> QED BY <2>1, <2>2
<1> HIDE DEF C
<1>3. S \in C
  BY <1>1, <1>2, ElementInduction
<1>4. \E m \in S : \A y \in S : m >= y
  BY <1>3 DEF C
<1> QED BY <1>4 DEF Max

LEMMA AppliesEverywhere ==
    ASSUME NEW ledgers, NEW requests, NEW S, NEW h, Applies(h, ledgers, requests, S),
           NEW s \in SUBSET S
    PROVE  AppliesAt(h, ledgers, requests, s)
<1> DEFINE k == [t \in SUBSET S |->
                    IF t = {} THEN ledgers ELSE Applied(h[t \ {Max(t)}], requests[Max(t)])]
<1>1. h = k
  BY DEF Applies
<1>2. k[s] = IF s = {} THEN ledgers ELSE Applied(h[s \ {Max(s)}], requests[Max(s)])
  OBVIOUS
<1> QED BY <1>1, <1>2 DEF AppliesAt

\* Two such functions agree wherever both are defined.
LEMMA AppliesAgree ==
    ASSUME NEW ledgers, NEW requests, NEW S, Indices(S),
           NEW T \in SUBSET S, NEW g, Applies(g, ledgers, requests, S),
           NEW h, Applies(h, ledgers, requests, T)
    PROVE  \A U \in SUBSET T : g[U] = h[U]
<1> DEFINE C == {U \in SUBSET T : g[U] = h[U]}
<1>0. \A U \in SUBSET T : /\ AppliesAt(g, ledgers, requests, U)
                           /\ AppliesAt(h, ledgers, requests, U)
  BY AppliesEverywhere
<1>1. ASSUME NEW U \in SUBSET T, \A V \in SUBSET U : V # U => V \in C
      PROVE  U \in C
  <2>1. CASE U = {}
    <3>1. g[U] = ledgers /\ h[U] = ledgers
      BY <2>1, <1>0 DEF AppliesAt
    <3> QED BY <3>1
  <2>2. CASE U # {}
    <3> DEFINE V == U \ {Max(U)}
    <3>0. Indices(U)
      BY FS_Subset DEF Indices
    <3>1. V \in SUBSET U /\ V # U
      BY <2>2, <3>0, MaxIsElement
    <3>2. g[V] = h[V]
      BY <1>1, <3>1
    <3>3. /\ g[U] = Applied(g[V], requests[Max(U)])
          /\ h[U] = Applied(h[V], requests[Max(U)])
      BY <2>2, <1>0 DEF AppliesAt
    <3> HIDE DEF V
    <3> QED BY <3>2, <3>3
  <2> QED BY <2>1, <2>2
<1>2. IsFiniteSet(T)
  BY FS_Subset DEF Indices
<1> HIDE DEF C
<1>3. SUBSET T \subseteq C
  BY <1>1, <1>2, SubsetInduction
<1> QED BY <1>3 DEF C

LEMMA StageBelow ==
    ASSUME NEW ledgers, NEW requests, NEW S, Indices(S),
           NEW T \in SUBSET S, \A U \in SUBSET T : \E h : Applies(h, ledgers, requests, U)
    PROVE  StageAt(ledgers, requests, T)
<1> DEFINE It(U) == CHOOSE h : Applies(h, ledgers, requests, U)
<1>1. \A U \in SUBSET T : Applies(It(U), ledgers, requests, U)
  OBVIOUS
<1>2. \A U \in SUBSET T : Stage(ledgers, requests, U) = It(U)[U]
  BY DEF Stage
<1> HIDE DEF It
<1>3. AppliesAt(It(T), ledgers, requests, T)
  BY <1>1, AppliesEverywhere
<1>4. CASE T = {}
  BY <1>2, <1>3, <1>4 DEF AppliesAt, StageAt
<1>5. CASE T # {}
  <2> DEFINE V == T \ {Max(T)}
  <2>1. V \in SUBSET T /\ Indices(T)
    BY FS_Subset DEF Indices
  <2> HIDE DEF V
  <2>2. /\ Applies(It(T), ledgers, requests, T)
        /\ Applies(It(V), ledgers, requests, V)
    BY <1>1, <2>1
  <2>3. ASSUME NEW g, NEW h,
               Applies(g, ledgers, requests, T), Applies(h, ledgers, requests, V)
        PROVE  g[V] = h[V]
    <3>1. \A U \in SUBSET V : g[U] = h[U]
      BY <2>1, <2>3, AppliesAgree
    <3> QED BY <3>1
  <2>4. It(T)[V] = It(V)[V]
    BY <2>2, <2>3
  <2> QED BY <1>2, <1>3, <1>5, <2>1, <2>4 DEF V, AppliesAt, StageAt
<1> QED BY <1>4, <1>5

LEMMA AppliesExists ==
    ASSUME NEW ledgers, NEW requests, NEW S, Indices(S)
    PROVE  \A T \in SUBSET S : \E h : Applies(h, ledgers, requests, T)
<1> DEFINE C == {T \in SUBSET S : \E h : Applies(h, ledgers, requests, T)}
           Left(U) == IF U = {} THEN ledgers
                      ELSE Applied(Stage(ledgers, requests, U \ {Max(U)}), requests[Max(U)])
<1>1. ASSUME NEW T \in SUBSET S, \A U \in SUBSET T : U # T => U \in C
      PROVE  T \in C
  <2> DEFINE h == [U \in SUBSET T |-> Left(U)]
  <2>1. ASSUME NEW U \in SUBSET T, U # {}
        PROVE  h[U \ {Max(U)}] = Stage(ledgers, requests, U \ {Max(U)})
    <3> DEFINE V == U \ {Max(U)}
    <3>0. Indices(U)
      BY FS_Subset DEF Indices
    <3>1. V \in SUBSET T /\ V # T
      BY <2>1, <3>0, MaxIsElement
    <3>2. \A W \in SUBSET V : \E g : Applies(g, ledgers, requests, W)
      BY <1>1, <3>1
    <3>3. h[V] = Left(V)
      BY <3>1
    <3> HIDE DEF V, h
    <3>4. StageAt(ledgers, requests, V)
      BY <3>1, <3>2, StageBelow
    <3>5. Stage(ledgers, requests, V) = Left(V)
      BY <3>4 DEF StageAt
    <3> QED BY <3>3, <3>5 DEF V
  <2>2. Applies(h, ledgers, requests, T)
    <3> DEFINE Body(U) == IF U = {} THEN ledgers
                          ELSE Applied(h[U \ {Max(U)}], requests[Max(U)])
    <3>1. \A U \in SUBSET T : h[U] = Body(U)
      BY <2>1
    <3>2. h = [U \in SUBSET T |-> h[U]]
      OBVIOUS
    <3> HIDE DEF h
    <3>3. h = [U \in SUBSET T |-> Body(U)]
      <4> HIDE DEF Body
      <4> QED BY <3>1, <3>2
    <3> QED BY <3>3 DEF Applies
  <2> HIDE DEF h
  <2> QED BY <2>2
<1> HIDE DEF C
<1>2. SUBSET S \subseteq C
  BY <1>1, SubsetInduction DEF Indices
<1> QED BY <1>2 DEF C

\* The stages follow one another: nothing is applied at first, then one request
\* after the other.
LEMMA StageStep ==
    ASSUME NEW ledgers, NEW requests, NEW k \in Nat
    PROVE  Stage(ledgers, requests, 1..k) =
               IF k = 0 THEN ledgers
               ELSE Applied(Stage(ledgers, requests, 1..(k - 1)), requests[k])
<1> DEFINE S == 1..k
<1>1. Indices(S)
  BY FS_Interval DEF Indices
<1>2. StageAt(ledgers, requests, S)
  <2> HIDE DEF S
  <2> QED BY <1>1, AppliesExists, StageBelow
<1>3. S = {} <=> k = 0
  OBVIOUS
<1>4. ASSUME k # 0 PROVE Max(S) = k /\ S \ {Max(S)} = 1..(k - 1)
  <2>1. Max(S) \in S /\ \A y \in S : Max(S) >= y
    BY <1>1, <1>3, <1>4, MaxIsElement
  <2>2. k \in S
    BY <1>4
  <2>3. Max(S) = k
    BY <2>1, <2>2
  <2> QED BY <2>3
<1> QED BY <1>2, <1>3, <1>4 DEF StageAt

\* What holds of a ledger before a document and after each accepted line of it
\* holds of the ledger the document leaves: C[k] collects the ledgers that are
\* fine after k lines.
LEMMA ApplyInduction ==
    ASSUME NEW balances, NEW log, NEW n \in Nat, NEW requests, DOMAIN requests = 1..n,
           NEW C, [stock |-> balances, movements |-> log] \in C[0],
           \A k \in 1..n : \A g \in C[k - 1] :
               Accepts(g.stock, requests[k]) /\ RefUnused(g.movements, requests[k]) =>
                   [stock |-> Write(g.stock, requests[k]),
                    movements |-> Append(g.movements, Movement(g.stock, requests[k]))]
                       \in C[k]
    PROVE  ApplyAll(balances, log, requests) \subseteq C[n]
<1> DEFINE base == {[stock |-> balances, movements |-> log]}
           Fine(k) == Stage(base, requests, 1..k) \subseteq C[k]
           F == {T \in SUBSET (1..n) : \A k \in 0..n : T = 1..k => Fine(k)}
<1>1. ASSUME NEW T \in SUBSET (1..n), \A U \in SUBSET T : U # T => U \in F
      PROVE  T \in F
  <2> SUFFICES ASSUME NEW k \in 0..n, T = 1..k PROVE Fine(k)
    OBVIOUS
  <2>1. CASE k = 0
    <3>1. Stage(base, requests, 1..k) = base
      BY <2>1, StageStep
    <3> QED BY <2>1, <3>1
  <2>2. CASE k # 0
    <3>1. k \in 1..n /\ k - 1 \in 0..n /\ 1..(k - 1) \subseteq T /\ 1..(k - 1) # T
      BY <2>2
    <3>2. Fine(k - 1)
      BY <1>1, <3>1
    <3>3. Stage(base, requests, 1..k) =
              Applied(Stage(base, requests, 1..(k - 1)), requests[k])
      BY <2>2, StageStep
    <3>4. \A L : L \subseteq C[k - 1] => Applied(L, requests[k]) \subseteq C[k]
      BY <3>1 DEF Applied
    <3> QED BY <3>2, <3>3, <3>4
  <2> QED BY <2>1, <2>2
<1>2. IsFiniteSet(1..n)
  BY FS_Interval
<1>3. SUBSET (1..n) \subseteq F
  <2> DEFINE D == 1..n
  <2>1. /\ IsFiniteSet(D)
        /\ \A T \in SUBSET D : (\A U \in SUBSET T : U # T => U \in F) => T \in F
    BY <1>1, <1>2
  <2> HIDE DEF D, F
  <2>2. SUBSET D \subseteq F
    BY <2>1, SubsetInduction
  <2> QED BY <2>2 DEF D
<1>4. Fine(n)
  <2>1. 1..n \in F /\ n \in 0..n
    <3> HIDE DEF F
    <3> QED BY <1>3
  <2> HIDE DEF Fine
  <2> QED BY <2>1
<1> QED BY <1>4, ApplyAllIsStage

-----------------------------------------------------------------------------
(* The units on hand and the units the log brought in *)

BalanceRows == [Cells -> 0..MaxInt \cup {NoRow}]
ByLocation(balances, p) == [l \in Locations |-> QuantityAt(balances, <<p, l>>)]
OnHand(balances, p) == SumFunctionOnSet(ByLocation(balances, p), Locations)

RowsOf(log, p) == {i \in DOMAIN log : log[i].request.product = p}
Entries(log) == [i \in DOMAIN log |-> Entering(log[i])]
Entered(log, p) == SumFunctionOnSet(Entries(log), RowsOf(log, p))

LEMMA QuantityIsNatural ==
    ASSUME NEW balances \in BalanceRows, NEW c \in Cells
    PROVE  QuantityAt(balances, c) \in Nat
BY InventoryAssumption DEF BalanceRows, QuantityAt

\* what the request makes of the quantity at a cell
LEMMA WriteAt ==
    ASSUME NEW balances \in BalanceRows, NEW r \in Requests, Accepts(balances, r),
           NEW c \in Cells
    PROVE  QuantityAt(Write(balances, r), c) =
               IF c \in Touched(r) THEN After(balances, r)[c] ELSE QuantityAt(balances, c)
<1>1. c \in Touched(r) => After(balances, r)[c] \in 0..MaxInt
  BY AfterInRange DEF BalanceRows
<1>2. Write(balances, r)[c] = IF c \in Touched(r) THEN After(balances, r)[c] ELSE balances[c]
  BY DEF Write
<1> QED BY <1>1, <1>2, InventoryAssumption DEF QuantityAt

LEMMA WriteIsTyped ==
    ASSUME NEW balances \in BalanceRows, NEW r \in Requests, Accepts(balances, r)
    PROVE  Write(balances, r) \in BalanceRows
<1>1. \A c \in Touched(r) : After(balances, r)[c] \in 0..MaxInt
  BY AfterInRange DEF BalanceRows
<1> QED BY <1>1 DEF Write, BalanceRows

\* A movement changes the units on hand of its product by what it says it
\* brings in, and no other product; a transfer brings in nothing.
LEMMA OnHandStep ==
    ASSUME NEW balances \in BalanceRows, NEW r \in Requests, Accepts(balances, r),
           NEW p \in Products
    PROVE  OnHand(Write(balances, r), p) =
               OnHand(balances, p) +
                   IF r.product = p THEN Entering(Movement(balances, r)) ELSE 0
<1> DEFINE f == ByLocation(balances, p)
           g == ByLocation(Write(balances, r), p)
           q == r.quantity
<1>1. /\ \A l \in Locations : f[l] = QuantityAt(balances, <<p, l>>) /\ f[l] \in Nat
      /\ \A l \in Locations : g[l] = QuantityAt(Write(balances, r), <<p, l>>) /\ g[l] \in Nat
  BY WriteIsTyped, QuantityIsNatural DEF ByLocation, Cells
<1>2. /\ IsFiniteSet(Locations) /\ Integral(f, Locations) /\ Integral(g, Locations)
      /\ SumFunctionOnSet(f, Locations) \in Int
  <2> HIDE DEF f, g
  <2>1. Integral(f, Locations) /\ Integral(g, Locations)
    <3>1. \A l \in Locations : f[l] \in Nat /\ g[l] \in Nat
      BY <1>1
    <3> QED BY <3>1 DEF Integral
  <2>2. IsFiniteSet(Locations)
    BY InventoryAssumption
  <2> QED BY <2>1, <2>2, SumInt
<1>3. \A l \in Locations :
          g[l] = IF <<p, l>> \in Touched(r) THEN After(balances, r)[<<p, l>>] ELSE f[l]
  BY <1>1, WriteAt DEF Cells
<1>4. q \in Nat /\ r.type \in Types /\ WellShaped(r) /\ RowRule(balances, r)
  BY DEF Requests, Accepts
<1>5. /\ Movement(balances, r).request = r
      /\ Movement(balances, r).before = [c \in Touched(r) |-> QuantityAt(balances, c)]
  BY DEF Movement
<1>6. OnHand(balances, p) = SumFunctionOnSet(f, Locations)
      /\ OnHand(Write(balances, r), p) = SumFunctionOnSet(g, Locations)
  BY DEF OnHand
<1> HIDE DEF f, g, q
<1>7. CASE r.product # p
  <2>1. \A l \in Locations : g[l] = f[l]
    BY <1>3, <1>7 DEF Touched
  <2>2. SumFunctionOnSet(f, Locations) = SumFunctionOnSet(g, Locations)
    BY <1>2, <2>1, SumAgree
  <2> QED BY <1>2, <1>6, <1>7, <2>2
<1>8. CASE r.product = p /\ r.type \in {"INITIAL", "IN", "ADJUSTMENT"}
  <2>1. /\ r.source = NoLocation /\ r.destination \in Locations
        /\ DestinationCell(r) = <<p, r.destination>>
        /\ Touched(r) = {<<p, r.destination>>}
        /\ <<p, r.destination>> # SourceCell(r)
    BY <1>4, <1>8, InventoryAssumption
       DEF WellShaped, Requests, DestinationCell, SourceCell, Touched
  <2> DEFINE d == r.destination
  <2>2. /\ \A l \in Locations \ {d} : g[l] = f[l]
        /\ g[d] = IF r.type \in {"INITIAL", "ADJUSTMENT"} THEN q ELSE f[d] + q
    BY <1>1, <1>3, <2>1 DEF After, q
  <2>3. Entering(Movement(balances, r)) =
            IF r.type = "ADJUSTMENT" THEN q - f[d] ELSE q
    BY <1>1, <1>5, <1>8, <2>1 DEF Entering, q
  <2>4. r.type = "INITIAL" => f[d] = 0
    BY <1>1, <1>4, <2>1 DEF RowRule, QuantityAt
  <2>5. SumFunctionOnSet(g, Locations) = SumFunctionOnSet(f, Locations) + g[d] - f[d]
    BY <1>2, <2>1, <2>2, SumReplace
  <2>6. f[d] \in Nat /\ g[d] \in Nat
    BY <1>1, <2>1
  <2> HIDE DEF d
  <2>7. g[d] - f[d] = Entering(Movement(balances, r))
    BY <1>4, <1>8, <2>2, <2>3, <2>4, <2>6
  <2> QED BY <1>2, <1>6, <1>8, <2>5, <2>6, <2>7
<1>9. CASE r.product = p /\ r.type = "OUT"
  <2>1. /\ r.destination = NoLocation /\ r.source \in Locations
        /\ Touched(r) = {<<p, r.source>>}
        /\ SourceCell(r) = <<p, r.source>>
        /\ balances[<<p, r.source>>] # NoRow
    BY <1>4, <1>9, InventoryAssumption
       DEF WellShaped, Requests, SourceCell, Touched, Accepts, SourceCovers
  <2> DEFINE d == r.source
  <2>2. \A l \in Locations \ {d} : g[l] = f[l]
    BY <1>3, <2>1
  <2>3. g[d] = f[d] - q
    BY <1>1, <1>3, <2>1 DEF After, q, QuantityAt
  <2>4. Entering(Movement(balances, r)) = -q
    BY <1>5, <1>9 DEF Entering, q
  <2>5. SumFunctionOnSet(g, Locations) = SumFunctionOnSet(f, Locations) + g[d] - f[d]
    BY <1>2, <2>1, <2>2, SumReplace
  <2>6. f[d] \in Nat /\ g[d] \in Nat
    BY <1>1, <2>1
  <2> HIDE DEF d
  <2> QED BY <1>2, <1>4, <1>6, <1>9, <2>3, <2>4, <2>5, <2>6
<1>10. CASE r.product = p /\ r.type = "TRANSFER"
  <2> DEFINE d == r.source
             e == r.destination
             h == [l \in Locations |-> IF l = d THEN f[d] - q ELSE f[l]]
  <2>1. /\ d \in Locations /\ e \in Locations /\ d # e
        /\ Touched(r) = {<<p, d>>, <<p, e>>}
        /\ SourceCell(r) = <<p, d>>
        /\ balances[<<p, d>>] # NoRow
    BY <1>4, <1>10, InventoryAssumption
       DEF WellShaped, Requests, SourceCell, Touched, Accepts, SourceCovers
  <2>2. g[d] = f[d] - q
    BY <1>1, <1>3, <2>1 DEF After, q, QuantityAt
  <2>3. g[e] = f[e] + q
    <3>1. <<p, e>> \in Touched(r) /\ <<p, e>> # SourceCell(r)
      BY <2>1
    <3>2. After(balances, r)[<<p, e>>] = QuantityAt(balances, <<p, e>>) + q
      BY <1>10, <3>1 DEF After, q
    <3>3. g[e] = After(balances, r)[<<p, e>>]
      BY <1>3, <2>1, <3>1
    <3>4. f[e] = QuantityAt(balances, <<p, e>>)
      BY <1>1, <2>1
    <3> QED BY <3>2, <3>3, <3>4
  <2>4. \A l \in Locations : l # d /\ l # e => g[l] = f[l]
    BY <1>3, <2>1
  <2>5. \A l \in Locations : f[l] \in Nat /\ g[l] \in Nat
    BY <1>1
  <2>6. /\ h[d] = f[d] - q /\ h[e] = f[e]
        /\ \A l \in Locations \ {d} : h[l] = f[l]
        /\ \A l \in Locations \ {e} : g[l] = h[l]
    BY <2>1, <2>2, <2>4
  <2>7. Integral(h, Locations)
    BY <1>4, <2>5 DEF Integral
  <2>8. Entering(Movement(balances, r)) = 0
    BY <1>5, <1>10 DEF Entering
  <2> HIDE DEF h, d, e
  <2>9. SumFunctionOnSet(h, Locations) = SumFunctionOnSet(f, Locations) + h[d] - f[d]
    BY <1>2, <2>1, <2>6, <2>7, SumReplace
  <2>10. SumFunctionOnSet(g, Locations) = SumFunctionOnSet(h, Locations) + g[e] - h[e]
    BY <1>2, <2>1, <2>6, <2>7, SumReplace
  <2>11. f[d] \in Nat /\ f[e] \in Nat
    BY <2>1, <2>5
  <2>12. SumFunctionOnSet(h, Locations) = SumFunctionOnSet(f, Locations) - q
    BY <1>2, <1>4, <2>6, <2>9, <2>11
  <2>13. SumFunctionOnSet(g, Locations) = SumFunctionOnSet(f, Locations)
    BY <1>2, <1>4, <2>3, <2>6, <2>10, <2>11, <2>12
  <2> QED BY <1>2, <1>6, <1>10, <2>8, <2>13
<1> QED BY <1>4, <1>7, <1>8, <1>9, <1>10 DEF Types

LEMMA EnteringIsInteger ==
    ASSUME NEW balances \in BalanceRows, NEW r \in Requests, Accepts(balances, r)
    PROVE  Entering(Movement(balances, r)) \in Int
<1>1. /\ Movement(balances, r).request = r
      /\ Movement(balances, r).before = [c \in Touched(r) |-> QuantityAt(balances, c)]
  BY DEF Movement
<1>2. r.quantity \in Nat /\ r.type \in Types /\ r.product \in Products
  BY DEF Requests
<1>3. ASSUME r.type = "ADJUSTMENT"
      PROVE  Movement(balances, r).before[DestinationCell(r)] \in Nat
  <2>1. DestinationCell(r) \in Touched(r) /\ DestinationCell(r) \in Cells
    BY <1>3 DEF Accepts, WellShaped, DestinationCell, Touched, Requests, Cells
  <2> QED BY <1>1, <2>1, QuantityIsNatural
<1> QED BY <1>1, <1>2, <1>3 DEF Entering, Types

\* A row added to a log of finite length brings in what it brings in.
LEMMA EnteredStep ==
    ASSUME NEW log, NEW n \in Nat, DOMAIN log = 1..n,
           \A i \in 1..n : Entering(log[i]) \in Int,
           NEW more, DOMAIN more = 1..(n + 1), \A i \in 1..n : more[i] = log[i],
           Entering(more[n + 1]) \in Int, NEW p
    PROVE  Entered(more, p) =
               Entered(log, p) +
                   IF more[n + 1].request.product = p THEN Entering(more[n + 1]) ELSE 0
<1> DEFINE f == Entries(log)
           g == Entries(more)
           S == RowsOf(log, p)
           T == RowsOf(more, p)
           m == n + 1
<1>1. /\ S \subseteq 1..n /\ m \notin S /\ IsFiniteSet(S)
      /\ T = IF more[m].request.product = p THEN S \cup {m} ELSE S
  <2>1. IsFiniteSet(1..n) /\ S \subseteq 1..n
    BY FS_Interval DEF RowsOf
  <2>2. m \notin 1..n /\ 1..m = 1..n \cup {m} /\ DOMAIN more = 1..m
    OBVIOUS
  <2>3. S = {i \in 1..n : log[i].request.product = p}
        /\ T = {i \in 1..n \cup {m} : more[i].request.product = p}
    BY <2>2 DEF RowsOf
  <2> HIDE DEF S, T, m
  <2> QED BY <2>1, <2>2, <2>3, FS_Subset
<1>2. /\ \A i \in 1..n : f[i] \in Int /\ g[i] = f[i]
      /\ g[m] = Entering(more[m]) /\ g[m] \in Int
  BY DEF Entries
<1>3. Entered(log, p) = SumFunctionOnSet(f, S) /\ Entered(more, p) = SumFunctionOnSet(g, T)
  BY DEF Entered
<1> HIDE DEF f, g, S, T, m
<1>4. Integral(f, S) /\ Integral(g, S) /\ \A i \in S : f[i] = g[i]
  BY <1>1, <1>2 DEF Integral
<1>5. SumFunctionOnSet(f, S) = SumFunctionOnSet(g, S)
  BY <1>1, <1>4, SumAgree
<1>6. SumFunctionOnSet(g, S) \in Int /\
      SumFunctionOnSet(g, S \cup {m}) = SumFunctionOnSet(g, S) + g[m]
  BY <1>1, <1>2, <1>4, SumInt, SumAdd
<1> QED BY <1>1, <1>2, <1>3, <1>5, <1>6 DEF m

-----------------------------------------------------------------------------
(* What every operation keeps of the two tables *)

\* Typed tables, one row at most per document line, and no unit on hand that
\* the log did not bring in.
LedgerOK(balances, log) ==
    /\ balances \in BalanceRows
    /\ log \in Seq(MovementRows)
    /\ \A i \in DOMAIN log :
           /\ DOMAIN log[i].before = Touched(log[i].request)
           /\ DOMAIN log[i].after = Touched(log[i].request)
           /\ Entering(log[i]) \in Int
    /\ \A i, j \in DOMAIN log :
           log[i].request.ref # NoRef /\ log[i].request.ref = log[j].request.ref => i = j
    /\ \A p \in Products : OnHand(balances, p) = Entered(log, p)

LEMMA LedgerOKInit == LedgerOK([c \in Cells |-> NoRow], <<>>)
<1> DEFINE balances == [c \in Cells |-> NoRow]
<1>1. balances \in BalanceRows /\ <<>> \in Seq(MovementRows) /\ DOMAIN <<>> = {}
  BY DEF BalanceRows
<1>2. ASSUME NEW p \in Products PROVE OnHand(balances, p) = Entered(<<>>, p)
  <2>1. \A l \in Locations : ByLocation(balances, p)[l] = 0
    BY DEF ByLocation, QuantityAt, Cells
  <2>2. SumFunctionOnSet(ByLocation(balances, p), Locations) = 0
    <3> HIDE DEF balances
    <3> QED BY <2>1, SumZero, InventoryAssumption
  <2>3. RowsOf(<<>>, p) = {}
    BY DEF RowsOf
  <2> QED BY <2>2, <2>3, SumEmpty DEF OnHand, Entered
<1> QED BY <1>1, <1>2 DEF LedgerOK

LEMMA LedgerOKStep ==
    ASSUME NEW balances, NEW log, LedgerOK(balances, log), NEW r \in Requests,
           Accepts(balances, r), RefUnused(log, r)
    PROVE  LedgerOK(Write(balances, r), Append(log, Movement(balances, r)))
<1> DEFINE m == Movement(balances, r)
           more == Append(log, m)
           n == Len(log)
<1>1. balances \in BalanceRows /\ log \in Seq(MovementRows)
  BY DEF LedgerOK
<1>2. /\ Touched(r) \subseteq Cells
      /\ After(balances, r) \in [Touched(r) -> 0..MaxInt]
      /\ [c \in Touched(r) |-> QuantityAt(balances, c)] \in [Touched(r) -> 0..MaxInt]
  BY <1>1, AfterInRange DEF BalanceRows
<1>3. /\ m.request = r /\ DOMAIN m.before = Touched(r) /\ DOMAIN m.after = Touched(r)
      /\ m \in MovementRows
  BY <1>2 DEF Movement, MovementRows, BalanceMaps, After
<1>4. Entering(m) \in Int
  BY <1>1, EnteringIsInteger
<1> HIDE DEF m
<1>5. /\ n \in Nat /\ DOMAIN log = 1..n /\ DOMAIN more = 1..(n + 1)
      /\ \A i \in 1..n : more[i] = log[i]
      /\ more[n + 1] = m /\ more \in Seq(MovementRows)
  BY <1>1, <1>3
<1>6. /\ \A i \in 1..n : Entering(log[i]) \in Int
      /\ \A i \in 1..n : /\ DOMAIN log[i].before = Touched(log[i].request)
                         /\ DOMAIN log[i].after = Touched(log[i].request)
  BY <1>5 DEF LedgerOK
<1> HIDE DEF more, n
<1>7. ASSUME NEW p \in Products
      PROVE  OnHand(Write(balances, r), p) = Entered(more, p)
  <2>1. OnHand(Write(balances, r), p) =
            OnHand(balances, p) + IF r.product = p THEN Entering(m) ELSE 0
    BY <1>1, OnHandStep DEF m
  <2>2. Entered(more, p) =
            Entered(log, p) + IF r.product = p THEN Entering(m) ELSE 0
    <3>1. /\ n \in Nat /\ DOMAIN log = 1..n /\ DOMAIN more = 1..(n + 1)
          /\ \A i \in 1..n : more[i] = log[i]
          /\ \A i \in 1..n : Entering(log[i]) \in Int
          /\ Entering(more[n + 1]) \in Int
      BY <1>4, <1>5, <1>6
    <3>2. Entered(more, p) =
              Entered(log, p) +
                  IF more[n + 1].request.product = p THEN Entering(more[n + 1]) ELSE 0
      BY <3>1, EnteredStep
    <3> QED BY <1>3, <1>5, <3>2
  <2> QED BY <2>1, <2>2 DEF LedgerOK
<1>8. \A i \in DOMAIN more : /\ DOMAIN more[i].before = Touched(more[i].request)
                             /\ DOMAIN more[i].after = Touched(more[i].request)
                             /\ Entering(more[i]) \in Int
  BY <1>3, <1>4, <1>5, <1>6
<1>9. ASSUME NEW i \in DOMAIN more, NEW j \in DOMAIN more,
             more[i].request.ref # NoRef, more[i].request.ref = more[j].request.ref
      PROVE  i = j
  <2>1. \A k \in 1..n : r.ref # NoRef => log[k].request.ref # r.ref
    BY <1>5 DEF RefUnused
  <2>2. CASE i \in 1..n /\ j \in 1..n
    BY <1>5, <1>9, <2>2 DEF LedgerOK
  <2>3. CASE i \in 1..n /\ j = n + 1
    BY <1>3, <1>5, <1>9, <2>1, <2>3
  <2>4. CASE i = n + 1 /\ j \in 1..n
    BY <1>3, <1>5, <1>9, <2>1, <2>4
  <2> QED BY <1>5, <2>2, <2>3, <2>4
<1>10. Write(balances, r) \in BalanceRows
  BY <1>1, WriteIsTyped
<1> QED BY <1>5, <1>7, <1>8, <1>9, <1>10 DEF LedgerOK, more, m

\* The sequence of a finite set lists its elements.
LEMMA SequenceOfSet ==
    ASSUME NEW S, IsFiniteSet(S)
    PROVE  /\ Cardinality(S) \in Nat
           /\ DOMAIN SetToSeq(S) = 1..Cardinality(S)
           /\ \A i \in 1..Cardinality(S) : SetToSeq(S)[i] \in S
           /\ \A x \in S : \E i \in 1..Cardinality(S) : SetToSeq(S)[i] = x
<1> DEFINE n == Cardinality(S)
           q == SetToSeq(S)
<1>1. n \in Nat /\ ExistsBijection(1..n, S)
  BY FS_CardinalityType
<1>2. \E f \in [1..n -> S] : IsInjective(f)
  BY <1>1 DEF ExistsBijection, Bijection, Injection
<1>3. q \in [1..n -> S] /\ IsInjective(q)
  BY <1>2 DEF SetToSeq
<1>4. Cardinality(1..n) = n
  BY <1>1, FS_Interval
<1> HIDE DEF q, n
<1>5. q \in Surjection(1..n, S)
  <2>1. q \in Injection(1..n, S)
    BY <1>3 DEF Injection
  <2> DEFINE D == 1..n
  <2>2. Cardinality(D) = Cardinality(S)
    BY <1>4 DEF n
  <2> HIDE DEF D
  <2>3. q \in Injection(D, S)
    BY <2>1 DEF D
  <2>4. q \in Surjection(D, S)
    BY <2>2, <2>3, FS_Injection
  <2> QED BY <2>4 DEF D
<1> QED BY <1>1, <1>3, <1>5 DEF n, q, Surjection

\* the log is longer by the first k requests
Extends(log, more, requests, k) ==
    /\ Len(more) = Len(log) + k
    /\ \A i \in 1..Len(log) : more[i] = log[i]
    /\ \A i \in 1..k : more[Len(log) + i].request = requests[i]

\* the log is longer by rows for the requests in S and no others
GrowsBy(log, more, S) ==
    /\ DOMAIN log \subseteq DOMAIN more
    /\ \A i \in DOMAIN log : more[i] = log[i]
    /\ \A i \in DOMAIN more \ DOMAIN log : more[i].request \in S
    /\ \A r \in S : \E i \in DOMAIN more \ DOMAIN log : more[i].request = r

\* A document that is posted adds one row per line to the log and nothing else,
\* and leaves the two tables in order.
LEMMA DocumentStep ==
    ASSUME NEW balances, NEW log, LedgerOK(balances, log),
           NEW S, IsFiniteSet(S), S \subseteq Requests,
           NEW g \in ApplyAll(balances, log, SetToSeq(S))
    PROVE  LedgerOK(g.stock, g.movements) /\ GrowsBy(log, g.movements, S)
<1> DEFINE n == Cardinality(S)
           q == SetToSeq(S)
           Ledgers == [stock: BalanceRows, movements: Seq(MovementRows)]
           Good(h, k) == /\ LedgerOK(h.stock, h.movements)
                         /\ Extends(log, h.movements, q, k)
           C == [k \in 0..n |-> {h \in Ledgers : Good(h, k)}]
<1>1. /\ n \in Nat /\ DOMAIN q = 1..n /\ \A i \in 1..n : q[i] \in S
      /\ \A x \in S : \E i \in 1..n : q[i] = x
  BY SequenceOfSet
<1> HIDE DEF n, q
<1>2. balances \in BalanceRows /\ log \in Seq(MovementRows) /\ Len(log) \in Nat
  BY DEF LedgerOK
<1>3. \A k \in 0..n : C[k] = {h \in Ledgers : Good(h, k)}
  OBVIOUS
<1>4. [stock |-> balances, movements |-> log] \in C[0]
  <2> DEFINE h == [stock |-> balances, movements |-> log]
  <2>1. h \in Ledgers /\ h.stock = balances /\ h.movements = log
    BY <1>2
  <2>2. Extends(log, log, q, 0)
    BY <1>2 DEF Extends
  <2>3. Good(h, 0)
    BY <2>1, <2>2
  <2> QED BY <1>1, <1>3, <2>1, <2>3
<1>5. ASSUME NEW k \in 1..n, NEW h \in C[k - 1], Accepts(h.stock, q[k]),
             RefUnused(h.movements, q[k])
      PROVE  [stock |-> Write(h.stock, q[k]),
              movements |-> Append(h.movements, Movement(h.stock, q[k]))] \in C[k]
  <2> DEFINE r == q[k]
             b == Write(h.stock, r)
             more == Append(h.movements, Movement(h.stock, r))
  <2>1. k - 1 \in 0..n /\ k \in 0..n /\ r \in Requests
    BY <1>1
  <2>2. h \in Ledgers /\ Good(h, k - 1)
    BY <1>3, <2>1
  <2>3. LedgerOK(b, more)
    BY <1>5, <2>1, <2>2, LedgerOKStep
  <2>4. b \in BalanceRows /\ more \in Seq(MovementRows)
    BY <2>3 DEF LedgerOK
  <2>5. Movement(h.stock, r).request = r
    BY DEF Movement
  <2>6. h.movements \in Seq(MovementRows) /\ Len(h.movements) = Len(log) + (k - 1)
    BY <2>2 DEF Extends
  <2>7. /\ Len(more) = Len(log) + k
        /\ \A i \in 1..(Len(log) + (k - 1)) : more[i] = h.movements[i]
        /\ more[Len(log) + k] = Movement(h.stock, r)
    <3>1. Len(h.movements) + 1 = Len(log) + k
      BY <1>2, <2>6
    <3> QED BY <2>6, <3>1
  <2> HIDE DEF more, b
  <2>8. Extends(log, more, q, k)
    <3>1. \A i \in 1..Len(log) : i \in 1..(Len(log) + (k - 1)) /\ h.movements[i] = log[i]
      BY <1>2, <2>2 DEF Extends
    <3>2. \A i \in 1..(k - 1) : /\ Len(log) + i \in 1..(Len(log) + (k - 1))
                                /\ h.movements[Len(log) + i].request = q[i]
      BY <1>2, <2>2 DEF Extends
    <3>3. ASSUME NEW i \in 1..k PROVE more[Len(log) + i].request = q[i]
      <4>1. CASE i = k
        BY <2>5, <2>7, <4>1
      <4>2. CASE i # k
        <5>1. i \in 1..(k - 1)
          BY <4>2
        <5> QED BY <2>7, <3>2, <5>1
      <4> QED BY <4>1, <4>2
    <3> QED BY <2>7, <3>1, <3>3 DEF Extends
  <2>9. [stock |-> b, movements |-> more] \in Ledgers
    BY <2>4
  <2> QED BY <1>3, <2>1, <2>3, <2>8, <2>9 DEF b, more
<1>6. g \in C[n]
  <2> HIDE DEF C
  <2>1. ApplyAll(balances, log, q) \subseteq C[n]
    BY <1>1, <1>4, <1>5, ApplyInduction
  <2> QED BY <2>1 DEF q
<1>7. LedgerOK(g.stock, g.movements) /\ Extends(log, g.movements, q, n)
      /\ g.movements \in Seq(MovementRows)
  BY <1>1, <1>3, <1>6
<1> DEFINE more == g.movements
           m == Len(log)
<1>8. /\ m \in Nat /\ DOMAIN log = 1..m /\ DOMAIN more = 1..(m + n)
      /\ \A i \in 1..m : more[i] = log[i]
      /\ \A i \in 1..n : more[m + i].request = q[i]
  BY <1>1, <1>2, <1>7 DEF Extends
<1> HIDE DEF more, m
<1>9. ASSUME NEW i \in DOMAIN more \ DOMAIN log PROVE more[i].request \in S
  <2>1. i - m \in 1..n /\ m + (i - m) = i
    BY <1>1, <1>8
  <2>2. more[m + (i - m)].request = q[i - m]
    BY <1>8, <2>1
  <2> QED BY <1>1, <2>1, <2>2
<1>10. ASSUME NEW r \in S
       PROVE  \E i \in DOMAIN more \ DOMAIN log : more[i].request = r
  <2>1. PICK i \in 1..n : q[i] = r
    BY <1>1
  <2>2. m + i \in DOMAIN more \ DOMAIN log
    BY <1>1, <1>8
  <2> QED BY <1>8, <2>1, <2>2
<1>11. DOMAIN log \subseteq DOMAIN more
  BY <1>1, <1>8
<1> QED BY <1>7, <1>8, <1>9, <1>10, <1>11 DEF more, m, GrowsBy

\* the two tables and the master data, as every operation of the service that
\* writes stock keeps them
StockKept ==
    /\ LedgerOK(stock, movements)
    /\ activeProducts \subseteq Products /\ activeLocations \subseteq Locations

LEMMA StockKeptIsTyped == StockKept => InventoryTypeOK
BY DEF StockKept, LedgerOK, BalanceRows, InventoryTypeOK

LEMMA StockKeptInit == InventoryInit => StockKept /\ movements = <<>>
BY LedgerOKInit DEF InventoryInit, StockKept

LEMMA DocumentPosted ==
    ASSUME StockKept, NEW S, IsFiniteSet(S), S \subseteq Requests, UNCHANGED masterVars,
           \E g \in ApplyAll(stock, movements, SetToSeq(S)) :
               stock' = g.stock /\ movements' = g.movements
    PROVE  StockKept' /\ GrowsBy(movements, movements', S)
<1>1. LedgerOK(stock, movements)
  BY DEF StockKept
<1>2. PICK g \in ApplyAll(stock, movements, SetToSeq(S)) :
          stock' = g.stock /\ movements' = g.movements
  OBVIOUS
<1>3. LedgerOK(g.stock, g.movements) /\ GrowsBy(movements, g.movements, S)
  BY <1>1, DocumentStep
<1>4. LedgerOK(stock', movements') /\ GrowsBy(movements, movements', S)
  BY <1>2, <1>3
<1> QED BY <1>4 DEF StockKept, masterVars, LedgerOK

LEMMA MovementPosted ==
    ASSUME StockKept, NEW r \in ManualRequests, CreateMovement(r)
    PROVE  StockKept' /\ GrowsBy(movements, movements', {r})
<1>1. r \in Requests /\ LedgerOK(stock, movements) /\ movements \in Seq(MovementRows)
  BY ManualRequestsAreRequests DEF StockKept, LedgerOK
<1>2. /\ Accepts(stock, r) /\ RefUnused(movements, r) /\ UNCHANGED masterVars
      /\ stock' = Write(stock, r) /\ movements' = Append(movements, Movement(stock, r))
  BY DEF CreateMovement
<1>3. LedgerOK(stock', movements')
  BY <1>1, <1>2, LedgerOKStep
<1>4. Movement(stock, r).request = r
  BY DEF Movement
<1> DEFINE m == Movement(stock, r)
<1> HIDE DEF m
<1>5. /\ Len(movements) \in Nat /\ DOMAIN movements = 1..Len(movements)
      /\ DOMAIN movements' = 1..(Len(movements) + 1)
      /\ \A i \in 1..Len(movements) : movements'[i] = movements[i]
      /\ movements'[Len(movements) + 1] = m
  <2>1. movements' = Append(movements, m)
    BY <1>2 DEF m
  <2> QED BY <1>1, <2>1
<1>6. DOMAIN movements' \ DOMAIN movements = {Len(movements) + 1}
  BY <1>5
<1>7. GrowsBy(movements, movements', {r})
  BY <1>4, <1>5, <1>6 DEF GrowsBy, m
<1> QED BY <1>2, <1>3, <1>7 DEF StockKept, masterVars, LedgerOK

LEMMA NothingMoved ==
    ASSUME StockKept, UNCHANGED ledgerVars,
           activeProducts' \subseteq Products, activeLocations' \subseteq Locations
    PROVE  StockKept' /\ GrowsBy(movements, movements', {})
<1>1. LedgerOK(stock', movements')
  BY DEF StockKept, ledgerVars
<1>2. GrowsBy(movements, movements', {})
  BY DEF GrowsBy, ledgerVars
<1> QED BY <1>1, <1>2 DEF StockKept, LedgerOK

\* The rows of the log with a reference in U are for the requests in asked, one
\* row for each.
Explains(log, asked, U) ==
    /\ \A x \in asked : \E i \in DOMAIN log : log[i].request = x
    /\ \A i \in DOMAIN log : log[i].request.ref \in U => log[i].request \in asked

LEMMA ExplainsStep ==
    ASSUME NEW log, NEW more, NEW S, GrowsBy(log, more, S),
           NEW U, NEW asked, NEW asked2, Explains(log, asked, U),
           asked \subseteq asked2, asked2 \subseteq asked \cup S,
           \A x \in S : x.ref \in U => x \in asked2
    PROVE  Explains(more, asked2, U)
<1>1. ASSUME NEW x \in asked2 PROVE \E i \in DOMAIN more : more[i].request = x
  BY DEF Explains, GrowsBy
<1>2. ASSUME NEW i \in DOMAIN more, more[i].request.ref \in U
      PROVE  more[i].request \in asked2
  BY <1>2 DEF Explains, GrowsBy
<1> QED BY <1>1, <1>2 DEF Explains

\* In a ledger that is in order, a request that was asked has exactly one row,
\* and a reference nobody asked for has none.
LEMMA OneRowEach ==
    ASSUME NEW balances, NEW log, LedgerOK(balances, log), NEW asked, NEW U,
           Explains(log, asked, U), NoRef \notin U
    PROVE  /\ \A x \in asked : x.ref \in U =>
                  \E i \in DOMAIN log :
                      /\ {j \in DOMAIN log : log[j].request.ref = x.ref} = {i}
                      /\ log[i].request = x
           /\ \A ref \in U : (\A x \in asked : x.ref # ref) =>
                  {j \in DOMAIN log : log[j].request.ref = ref} = {}
<1>1. ASSUME NEW x \in asked, x.ref \in U
      PROVE  \E i \in DOMAIN log :
                 /\ {j \in DOMAIN log : log[j].request.ref = x.ref} = {i}
                 /\ log[i].request = x
  <2>1. PICK i \in DOMAIN log : log[i].request = x
    BY DEF Explains
  <2>2. x.ref # NoRef
    BY <1>1
  <2>3. \A j \in DOMAIN log : log[j].request.ref = x.ref => i = j
    BY <2>1, <2>2 DEF LedgerOK
  <2>4. {j \in DOMAIN log : log[j].request.ref = x.ref} = {i}
    BY <2>1, <2>3
  <2> QED BY <2>1, <2>4
<1>2. ASSUME NEW ref \in U, \A x \in asked : x.ref # ref
      PROVE  {j \in DOMAIN log : log[j].request.ref = ref} = {}
  BY <1>2 DEF Explains
<1> QED BY <1>1, <1>2
=============================================================================
