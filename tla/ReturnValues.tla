---------------------------- MODULE ReturnValues ----------------------------
(***************************************************************************)
(* What a return is worth (allocateValues of financial-summary.service.ts  *)
(* and allocatedReturnValue of finance-money.ts).  The total of a line is  *)
(* shared between the posted returns of the line in the order they were    *)
(* posted; money is counted in cents and a share is rounded half up.       *)
(*                                                                         *)
(* The code runs through the posted returns again for every summary.  The  *)
(* loop does not look ahead, so one step here is both one turn of the loop *)
(* and the posting of one more return.                                     *)
(***************************************************************************)
EXTENDS Integers, Sequences, FiniteSetsExt, SequencesExt

CONSTANTS
    Lines,          \* the lines of one sale or purchase
    LineTotals,     \* lineTotal, in cents
    LineQuantities  \* quantity of a line

ASSUME ReturnValuesAssumption ==
    /\ IsFiniteSet(Lines)
    /\ LineTotals \subseteq Nat
    /\ LineQuantities \subseteq Nat \ {0}

VARIABLES
    total,      \* lineTotal of each line
    quantity,   \* quantity of each line
    cumulative, \* units returned so far, by line
    share,      \* value given so far to returns of the line
    values      \* result: the value of each posted return, in posting order

valueVars == <<total, quantity, cumulative, share, values>>

FaultyRounded(t, q, n) == (t * n) \div q

\* total * n / quantity to the cent, half up
Rounded(t, q, n) == (2 * t * n + q) \div (2 * q)

FaultyAllocated(t, q, before, now) == Rounded(t, q, now)

\* allocatedReturnValue
Allocated(t, q, before, now) == Rounded(t, q, before + now) - Rounded(t, q, before)

\* validateEligibility: what is left of each line, and something of some line
Returnable(units) ==
    /\ \A l \in Lines : cumulative[l] + units[l] <= quantity[l]
    /\ \E l \in Lines : units[l] > 0

ValueOf(units) ==
    SumFunctionOnSet(
        [l \in Lines |-> Allocated(total[l], quantity[l], cumulative[l], units[l])], Lines)

PostReturn(units) ==
    /\ Returnable(units)
    /\ values' = Append(values, ValueOf(units))
    /\ share' = [l \in Lines |->
           share[l] + Allocated(total[l], quantity[l], cumulative[l], units[l])]
    /\ cumulative' = [l \in Lines |-> cumulative[l] + units[l]]
    /\ UNCHANGED <<total, quantity>>

ValuesInit ==
    /\ total \in [Lines -> LineTotals]
    /\ quantity \in [Lines -> LineQuantities]
    /\ cumulative = [l \in Lines |-> 0]
    /\ share = [l \in Lines |-> 0]
    /\ values = <<>>

\* the units of one return: no line has more than the largest quantity sold
Units == UNION {0..q : q \in LineQuantities}

ValuesNext == \E units \in [Lines -> Units] : PostReturn(units)

ValuesSpec == ValuesInit /\ [][ValuesNext]_valueVars

-----------------------------------------------------------------------------
(* Properties *)

\* The shares of a line follow its returned units to the cent: whatever the
\* number of returns and their sizes, what they were given together is the
\* rounded value of the units, so the rounding errors of many returns never add
\* up, nobody is given back more than the line, and the last unit settles it.
SharesFollowUnits ==
    \A l \in Lines :
        /\ share[l] \in 0..total[l]
        /\ 2 * share[l] * quantity[l] \in
               (2 * total[l] * cumulative[l] - quantity[l])
               ..(2 * total[l] * cumulative[l] + quantity[l])
        /\ cumulative[l] = quantity[l] => share[l] = total[l]

\* No return has a negative value, and together they are worth no more than the
\* document: what Payments assumes of ReturnValue and Total.
WorthWithinTotal ==
    /\ \A i \in DOMAIN values : values[i] >= 0
    /\ SumFunctionOnSet(values, DOMAIN values) <= SumFunctionOnSet(total, Lines)
=============================================================================
