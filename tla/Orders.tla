------------------------------- MODULE Orders -------------------------------
(***************************************************************************)
(* What the business promises of an order, whichever way the goods go: it  *)
(* is drafted, fixed, delivered up to what was ordered, given back up to   *)
(* what was delivered, and cancelled only while nothing was delivered.     *)
(* Purchases deliver in parts once they are confirmed, sales deliver all   *)
(* at once from the draft: Purchasing and Sales both implement this.       *)
(***************************************************************************)
EXTENDS Naturals

CONSTANTS
    Ids,            \* the orders
    Keys,           \* what an order has a quantity for
    Deliverable     \* the statuses in which goods may be delivered

VARIABLES
    status,         \* of every order
    ordered,        \* quantity by order and key, and so are the next two
    delivered,
    returned

orderVars == <<status, ordered, delivered, returned>>

\* only the row of o may change, and only to quantities
Rewrites(rows, o) ==
    /\ rows'[o] \in [Keys -> Nat]
    /\ rows' = [rows EXCEPT ![o] = rows'[o]]

Becomes(o, s) == status' = [status EXCEPT ![o] = s]

Init ==
    /\ status = [o \in Ids |-> "NONE"]
    /\ ordered = [o \in Ids |-> [k \in Keys |-> 0]]
    /\ delivered = [o \in Ids |-> [k \in Keys |-> 0]]
    /\ returned = [o \in Ids |-> [k \in Keys |-> 0]]

\* what is ordered may be rewritten until the order is fixed
Draft(o) ==
    /\ status[o] \in {"NONE", "DRAFT"}
    /\ Becomes(o, "DRAFT")
    /\ Rewrites(ordered, o)
    /\ UNCHANGED <<delivered, returned>>

Confirm(o) ==
    /\ status[o] = "DRAFT"
    /\ Becomes(o, "CONFIRMED")
    /\ UNCHANGED <<ordered, delivered, returned>>

\* a delivery adds to what was delivered, and the status tells whether all is
Deliver(o) ==
    /\ status[o] \in Deliverable
    /\ Rewrites(delivered, o)
    /\ \A k \in Keys : /\ delivered[o][k] <= delivered'[o][k]
                       /\ delivered'[o][k] <= ordered[o][k]
    /\ Becomes(o, IF \A k \in Keys : delivered'[o][k] = ordered[o][k]
                  THEN "DELIVERED" ELSE "PARTLY_DELIVERED")
    /\ UNCHANGED <<ordered, returned>>

GiveBack(o) ==
    /\ status[o] \in {"PARTLY_DELIVERED", "DELIVERED"}
    /\ Rewrites(returned, o)
    /\ \A k \in Keys : /\ returned[o][k] <= returned'[o][k]
                       /\ returned'[o][k] <= delivered[o][k]
    /\ UNCHANGED <<status, ordered, delivered>>

Cancel(o) ==
    /\ status[o] \in {"DRAFT", "CONFIRMED"}
    /\ \A k \in Keys : delivered[o][k] = 0
    /\ Becomes(o, "CANCELLED")
    /\ UNCHANGED <<ordered, delivered, returned>>

Next ==
    \E o \in Ids :
        Draft(o) \/ Confirm(o) \/ Deliver(o) \/ GiveBack(o) \/ Cancel(o)

Spec == Init /\ [][Next]_orderVars
=============================================================================
