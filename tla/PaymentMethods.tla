--------------------------- MODULE PaymentMethods ---------------------------
(***************************************************************************)
(* The kind of one payment method (finance/payment-methods.service.ts).    *)
(* update is not a transaction: it reads the method, counts its payments   *)
(* and writes, in three statements, while payments go on being taken.      *)
(***************************************************************************)
EXTENDS Naturals

CONSTANTS
    Kinds,
    Editors,        \* requests PATCH /payment-methods/:id
    MaxPayments     \* bound of the model

VARIABLES
    kind,           \* PaymentMethod.kind
    active,         \* PaymentMethod.active
    taken,          \* number of Payment rows of the method, of any status
    editing         \* what each update has found out

methodVars == <<kind, active, taken, editing>>

Idle == [step |-> "idle"]

\* findOne, and nothing to count when the kind stays
Read(e, to) ==
    /\ editing[e] = Idle
    /\ editing' = [editing EXCEPT ![e] =
                      [step |-> IF to = kind THEN "counted" ELSE "read", to |-> to]]
    /\ UNCHANGED <<kind, active, taken>>

\* payment.count: with payments of the method the update is refused
Count(e) ==
    /\ editing[e].step = "read"
    /\ editing' = [editing EXCEPT ![e] =
                      IF taken = 0 THEN [@ EXCEPT !.step = "counted"] ELSE Idle]
    /\ UNCHANGED <<kind, active, taken>>

\* paymentMethod.update
Apply(e) ==
    /\ editing[e].step = "counted"
    /\ kind' = editing[e].to
    /\ editing' = [editing EXCEPT ![e] = Idle]
    /\ UNCHANGED <<active, taken>>

SetActive ==
    /\ active' = ~active
    /\ UNCHANGED <<kind, taken, editing>>

\* a payment, refund or supplier payment commits; the row is never deleted
TakePayment ==
    /\ active
    /\ taken < MaxPayments
    /\ taken' = taken + 1
    /\ UNCHANGED <<kind, active, editing>>

MethodInit ==
    /\ kind \in Kinds
    /\ active = TRUE
    /\ taken = 0
    /\ editing = [e \in Editors |-> Idle]

MethodNext ==
    \/ \E e \in Editors :
          \/ \E to \in Kinds : Read(e, to)
          \/ Count(e)
          \/ Apply(e)
    \/ SetActive
    \/ TakePayment

MethodSpec == MethodInit /\ [][MethodNext]_methodVars

-----------------------------------------------------------------------------
(* Properties *)

\* "Kind cannot change after use" (docs/backend-api-contract.md:29, and the
\* message of payment-methods.service.ts:73): once a payment was taken with the
\* method no step changes its kind.  The code does not keep it.
KindFixedAfterUse == [][taken > 0 => kind' = kind]_methodVars
=============================================================================
