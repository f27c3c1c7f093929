----------------------------- MODULE Inventory -----------------------------
(***************************************************************************)
(* The stock ledger of ms-autorepuesto (inventory/inventory.service.ts):   *)
(* one balance row per (product, location) cell and an append-only log of  *)
(* the movements that changed the balances.                                *)
(*                                                                         *)
(* A movement runs inside one serializable transaction, so a movement is   *)
(* one atomic action here; SettlementTx models what runs inside.  The    *)
(* operators that validate and apply a request are functions of the ledger *)
(* they are given, so that a document of several lines can apply them one  *)
(* after the other within one action.                                      *)
(***************************************************************************)
EXTENDS Integers, Sequences, SequencesExt

CONSTANTS
    Products, Locations,
    Quantities,     \* the quantities a request may carry
    MaxInt,         \* largest value of a quantity column (INTEGER)
    NoRow,          \* no balance row for the cell
    NoLocation,     \* the request leaves the location out
    Refs,           \* document lines: (referenceType, referenceItemId)
    NoRef,          \* a movement no document line asked for
    MaxMovements    \* bound of the model on the length of the log

\* the tables are finite
ASSUME InventoryAssumption ==
    /\ IsFiniteSet(Products) /\ IsFiniteSet(Locations)
    /\ MaxInt \in Nat
    /\ Quantities \subseteq Nat
    /\ NoRow \notin Int
    /\ NoLocation \notin Locations
    /\ NoRef \notin Refs

VARIABLES
    stock,              \* Inventory.quantity by cell, NoRow when absent
    movements,          \* InventoryMovement rows in the order they commit
    activeProducts,     \* Product.active
    activeLocations     \* Location.active

ledgerVars == <<stock, movements>>
masterVars == <<activeProducts, activeLocations>>
inventoryVars == <<stock, movements, activeProducts, activeLocations>>

Cells == Products \X Locations
Types == {"INITIAL", "IN", "OUT", "ADJUSTMENT", "TRANSFER"}

-----------------------------------------------------------------------------
(* Requests *)

Request(type, product, source, destination, quantity, ref) ==
    [type |-> type, product |-> product, source |-> source,
     destination |-> destination, quantity |-> quantity, ref |-> ref]

Requests ==
    [type: Types, product: Products, source: Locations \cup {NoLocation},
     destination: Locations \cup {NoLocation}, quantity: Nat,
     ref: Refs \cup {NoRef}]

\* the body of POST /inventory/movements, before it is validated
ManualRequests ==
    [type: Types, product: Products, source: Locations \cup {NoLocation},
     destination: Locations \cup {NoLocation}, quantity: Quantities,
     ref: {NoRef}]

SourceCell(r) == <<r.product, r.source>>
DestinationCell(r) == <<r.product, r.destination>>
Touched(r) ==
    {<<r.product, l>> : l \in {r.source, r.destination} \ {NoLocation}}

\* validateMovementShape
WellShaped(r) ==
    /\ r.type # "ADJUSTMENT" => r.quantity > 0
    /\ r.type \in {"INITIAL", "IN", "ADJUSTMENT"} =>
           r.source = NoLocation /\ r.destination # NoLocation
    /\ r.type = "OUT" => r.source # NoLocation /\ r.destination = NoLocation
    /\ r.type = "TRANSFER" =>
           /\ r.source # NoLocation
           /\ r.destination # NoLocation
           /\ r.source # r.destination

\* applyMovement: the product and the named locations are active
UsesActive(r) ==
    /\ r.product \in activeProducts
    /\ {r.source, r.destination} \ {NoLocation} \subseteq activeLocations

-----------------------------------------------------------------------------
(* One movement against the balances it reads *)

QuantityAt(balances, c) == IF balances[c] = NoRow THEN 0 ELSE balances[c]

FaultySourceCovers(balances, r) ==
    r.type \in {"OUT", "TRANSFER"} => balances[SourceCell(r)] # NoRow

\* the conditional decrement of applyOut and applyTransfer
SourceCovers(balances, r) ==
    r.type \in {"OUT", "TRANSFER"} =>
        /\ balances[SourceCell(r)] # NoRow
        /\ balances[SourceCell(r)] >= r.quantity

\* applyInitial creates the row, applyAdjustment needs it
RowRule(balances, r) ==
    /\ r.type = "INITIAL" => balances[DestinationCell(r)] = NoRow
    /\ r.type = "ADJUSTMENT" => balances[DestinationCell(r)] # NoRow

\* the balances the movement writes to the cells it touches
After(balances, r) ==
    [c \in Touched(r) |->
        IF c = SourceCell(r) THEN balances[c] - r.quantity
        ELSE IF r.type \in {"INITIAL", "ADJUSTMENT"} THEN r.quantity
        ELSE QuantityAt(balances, c) + r.quantity]

Accepts(balances, r) ==
    /\ WellShaped(r)
    /\ UsesActive(r)
    /\ RowRule(balances, r)
    /\ SourceCovers(balances, r)
    /\ \A c \in Touched(r) : After(balances, r)[c] <= MaxInt

FaultyWrite(balances, r) ==
    [c \in Cells |->
        IF c \in Touched(r) /\ (r.type = "TRANSFER" => c = SourceCell(r))
        THEN After(balances, r)[c] ELSE balances[c]]

Write(balances, r) ==
    [c \in Cells |->
        IF c \in Touched(r) THEN After(balances, r)[c] ELSE balances[c]]

FaultyMovement(balances, r) ==
    [request |-> r,
     before |-> [c \in Touched(r) |-> After(balances, r)[c]],
     after |-> After(balances, r)]

\* recordMovement: the row holds the request and each balance it saw and left
Movement(balances, r) ==
    [request |-> r,
     before |-> [c \in Touched(r) |-> QuantityAt(balances, c)],
     after |-> After(balances, r)]

\* unique (referenceType, referenceItemId)
RefUnused(log, r) ==
    r.ref # NoRef => \A i \in DOMAIN log : log[i].request.ref # r.ref

FaultyApplyAll(balances, log, requests) ==
    LET Apply(ledgers, r) ==
            {IF Accepts(g.stock, r) /\ RefUnused(g.movements, r)
             THEN [stock |-> Write(g.stock, r),
                   movements |-> Append(g.movements, Movement(g.stock, r))]
             ELSE g : g \in ledgers}
    IN  FoldLeft(Apply, {[stock |-> balances, movements |-> log]}, requests)

\* createMovementInTransaction, once per line of a document: every line sees the
\* balances the lines before it left, and one refused line rolls all of them
\* back.  The set of resulting ledgers: empty when refused, else one.
ApplyAll(balances, log, requests) ==
    LET Apply(ledgers, r) ==
            {[stock |-> Write(g.stock, r),
              movements |-> Append(g.movements, Movement(g.stock, r))] :
             g \in {g \in ledgers : /\ Accepts(g.stock, r)
                                   /\ RefUnused(g.movements, r)}}
    IN  FoldLeft(Apply, {[stock |-> balances, movements |-> log]}, requests)

-----------------------------------------------------------------------------
(* State machine of the inventory alone *)

InventoryInit ==
    /\ stock = [c \in Cells |-> NoRow]
    /\ movements = <<>>
    /\ activeProducts = Products
    /\ activeLocations = Locations

\* POST /inventory/movements: createMovement in a transaction of its own
CreateMovement(r) ==
    /\ Len(movements) < MaxMovements
    /\ Accepts(stock, r)
    /\ RefUnused(movements, r)
    /\ stock' = Write(stock, r)
    /\ movements' = Append(movements, Movement(stock, r))
    /\ UNCHANGED masterVars

\* PATCH /products/:id/(de)activate: no look at the stock that is left
SetProductActive(p) ==
    /\ activeProducts' = IF p \in activeProducts THEN activeProducts \ {p}
                         ELSE activeProducts \cup {p}
    /\ UNCHANGED <<stock, movements, activeLocations>>

\* PATCH /locations/:id/(de)activate: no look at the stock that is left
SetLocationActive(l) ==
    /\ activeLocations' = IF l \in activeLocations THEN activeLocations \ {l}
                          ELSE activeLocations \cup {l}
    /\ UNCHANGED <<stock, movements, activeProducts>>

InventoryNext ==
    \/ \E r \in ManualRequests : CreateMovement(r)
    \/ \E p \in Products : SetProductActive(p)
    \/ \E l \in Locations : SetLocationActive(l)

InventorySpec == InventoryInit /\ [][InventoryNext]_inventoryVars

-----------------------------------------------------------------------------
(* Properties *)

BalanceMaps == UNION {[S -> 0..MaxInt] : S \in SUBSET Cells}
MovementRows == [request: Requests, before: BalanceMaps, after: BalanceMaps]

\* No balance row and no balance written to the log is ever negative or wider
\* than its column: inventory.service.ts guards every decrement and the
\* migration repeats it as CHECK constraints.
InventoryTypeOK ==
    /\ stock \in [Cells -> 0..MaxInt \cup {NoRow}]
    /\ movements \in Seq(MovementRows)
    /\ \A i \in DOMAIN movements :
           /\ DOMAIN movements[i].before = Touched(movements[i].request)
           /\ DOMAIN movements[i].after = Touched(movements[i].request)
    /\ activeProducts \subseteq Products
    /\ activeLocations \subseteq Locations

Touches(i, c) == c \in Touched(movements[i].request)
LastTouch(i, c) ==
    Touches(i, c) /\ \A j \in DOMAIN movements : j > i => ~Touches(j, c)

\* The balance row of a cell exists exactly when the log touches the cell, and
\* it holds what the last movement on that cell says it left: the two tables
\* that every apply* method writes separately never part.
StockMatchesLedger ==
    \A c \in Cells :
        /\ stock[c] = NoRow => \A i \in DOMAIN movements : ~Touches(i, c)
        /\ stock[c] # NoRow =>
               \E i \in DOMAIN movements :
                   LastTouch(i, c) /\ stock[c] = movements[i].after[c]

\* Each movement starts from the balance the previous movement on the same cell
\* left, and from zero when there is none: the log of a cell can be replayed,
\* whatever other cells, transfers and deactivations came between.
LedgerChains ==
    \A i \in DOMAIN movements : \A c \in Touched(movements[i].request) :
        /\ \A j \in 1..(i - 1) :
               Touches(j, c) /\ (\A k \in (j + 1)..(i - 1) : ~Touches(k, c))
                   => movements[i].before[c] = movements[j].after[c]
        /\ (\A j \in 1..(i - 1) : ~Touches(j, c))
               => movements[i].before[c] = 0

\* units a movement brings into the business, negative when they leave it
Entering(m) ==
    LET r == m.request IN
    CASE r.type \in {"INITIAL", "IN"} -> r.quantity
      [] r.type = "OUT" -> -r.quantity
      [] r.type = "TRANSFER" -> 0
      [] r.type = "ADJUSTMENT" -> r.quantity - m.before[DestinationCell(r)]
=============================================================================
