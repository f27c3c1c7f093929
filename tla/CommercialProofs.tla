-------------------------- MODULE CommercialProofs --------------------------
(***************************************************************************)
(* What a document's returns are worth, for every number of lines, every   *)
(* total and quantity and every split of the units over returns: the       *)
(* shares of a line follow its returned units to the cent, the values of   *)
(* the returns never pass the document, and the lists of receivables and   *)
(* payables show what the payments of a document are checked against.      *)
(*                                                                         *)
(* The invariant says that the sum of the shares of a line is the rounded  *)
(* value of the sum of its units: each share is the difference of two such *)
(* values, so the sum telescopes.  Added up over the lines, that is the    *)
(* sum of the values of the returns.                                       *)
(***************************************************************************)
EXTENDS Commercial, Sums

-----------------------------------------------------------------------------
(* Rounding *)

\* Division brackets what it divides.
LEMMA DivBrackets ==
    ASSUME NEW x \in Nat, NEW m \in Nat \ {0}
    PROVE  /\ x \div m \in Nat
           /\ m * (x \div m) <= x
           /\ x < m * (x \div m) + m
OBVIOUS

\* A quotient is known by its bracket.
LEMMA DivIsUnique ==
    ASSUME NEW x \in Nat, NEW m \in Nat \ {0}, NEW d \in Nat,
           m * d <= x, x < m * d + m
    PROVE  x \div m = d
OBVIOUS

\* Rounding moves a value by at most half a cent.
LEMMA RoundedNear ==
    ASSUME NEW t \in Nat, NEW q \in Nat \ {0}, NEW n \in Nat
    PROVE  /\ Rounded(t, q, n) \in Nat
           /\ 2 * Rounded(t, q, n) * q \in (2 * t * n - q)..(2 * t * n + q)
<1> DEFINE x == 2 * t * n + q
           m == 2 * q
           d == x \div m
<1>1. t * n \in Nat /\ x \in Nat /\ m \in Nat \ {0}
  OBVIOUS
<1>2. d \in Nat /\ m * d <= x /\ x < m * d + m
  <2> HIDE DEF x, m
  <2> QED BY <1>1, DivBrackets
<1>3. Rounded(t, q, n) = d
  BY DEF Rounded
<1>4. m * d = 2 * d * q
  <2> HIDE DEF d
  <2> QED BY <1>2
<1>5. /\ 2 * d * q \in Int
      /\ 2 * d * q <= 2 * t * n + q
      /\ 2 * t * n - q <= 2 * d * q
  <2> HIDE DEF d
  <2> QED BY <1>1, <1>2, <1>4
<1> QED
  <2> HIDE DEF d
  <2> QED BY <1>1, <1>2, <1>3, <1>5

LEMMA RoundedNat ==
    ASSUME NEW t \in Nat, NEW q \in Nat \ {0}, NEW n \in Nat
    PROVE  Rounded(t, q, n) \in Nat
BY RoundedNear

\* Nothing returned is worth nothing.
LEMMA RoundedZero ==
    ASSUME NEW t \in Nat, NEW q \in Nat \ {0}
    PROVE  Rounded(t, q, 0) = 0
<1>1. 2 * t * 0 + q = q
  OBVIOUS
<1>2. q \div (2 * q) = 0
  <2>1. /\ 2 * q \in Nat \ {0}
        /\ (2 * q) * 0 <= q
        /\ q < (2 * q) * 0 + 2 * q
    OBVIOUS
  <2> QED BY <2>1, DivIsUnique
<1> QED BY <1>1, <1>2 DEF Rounded

\* The whole quantity is worth the whole line.
LEMMA RoundedFull ==
    ASSUME NEW t \in Nat, NEW q \in Nat \ {0}
    PROVE  Rounded(t, q, q) = t
<1> DEFINE x == 2 * t * q + q
           m == 2 * q
<1>1. /\ x \in Nat /\ m \in Nat \ {0}
      /\ m * t <= x /\ x < m * t + m
  OBVIOUS
<1>2. x \div m = t
  <2> HIDE DEF x, m
  <2> QED BY <1>1, DivIsUnique
<1> QED BY <1>2 DEF Rounded

\* Part of the quantity is worth at most the whole line.
LEMMA RoundedWithin ==
    ASSUME NEW t \in Nat, NEW q \in Nat \ {0}, NEW n \in 0..q
    PROVE  Rounded(t, q, n) \in 0..t
<1> DEFINE R == Rounded(t, q, n)
<1>1. R \in Nat /\ 2 * R * q <= 2 * t * n + q
  BY RoundedNear
<1>2. t * n <= t * q
  OBVIOUS
<1> SUFFICES ASSUME R >= t + 1 PROVE FALSE
  BY <1>1
<1> HIDE DEF R
<1>3. R * q >= (t + 1) * q
  BY <1>1
<1>4. (t + 1) * q = t * q + q /\ t * q \in Nat /\ t * n \in Nat /\ R * q \in Nat
  BY <1>1
<1>5. 2 * R * q = 2 * (R * q) /\ 2 * t * n = 2 * (t * n)
  BY <1>1
<1> QED BY <1>1, <1>2, <1>3, <1>4, <1>5

-----------------------------------------------------------------------------
(* The telescoped shares *)

Typed ==
    /\ total \in [Lines -> Nat]
    /\ quantity \in [Lines -> Nat \ {0}]
    /\ cumulative \in [Lines -> Nat]
    /\ share \in [Lines -> Nat]

Telescoped ==
    \A l \in Lines :
        /\ cumulative[l] \in 0..quantity[l]
        /\ share[l] = Rounded(total[l], quantity[l], cumulative[l])

SharesInv == Typed /\ Telescoped

LEMMA SharesInit == ValuesInit => SharesInv
<1> SUFFICES ASSUME ValuesInit PROVE SharesInv
  OBVIOUS
<1>1. Typed
  BY ReturnValuesAssumption DEF ValuesInit, Typed
<1>2. Telescoped
  <2> SUFFICES ASSUME NEW l \in Lines
               PROVE  /\ cumulative[l] \in 0..quantity[l]
                      /\ share[l] = Rounded(total[l], quantity[l], cumulative[l])
    BY DEF Telescoped
  <2>1. total[l] \in Nat /\ quantity[l] \in Nat \ {0}
    BY <1>1 DEF Typed
  <2>2. cumulative[l] = 0 /\ share[l] = 0
    BY DEF ValuesInit
  <2>3. Rounded(total[l], quantity[l], 0) = 0
    BY <2>1, RoundedZero
  <2> QED BY <2>1, <2>2, <2>3
<1> QED BY <1>1, <1>2 DEF SharesInv

LEMMA SharesStep == SharesInv /\ [ValuesNext]_valueVars => SharesInv'
<1> SUFFICES ASSUME SharesInv, [ValuesNext]_valueVars PROVE SharesInv'
  OBVIOUS
<1>1. CASE ValuesNext
  <2>1. PICK units \in [Lines -> Units] : PostReturn(units)
    BY <1>1 DEF ValuesNext
  <2>2. \A l \in Lines : units[l] \in Nat
    BY ReturnValuesAssumption DEF Units
  <2>3. total' = total /\ quantity' = quantity
    BY <2>1 DEF PostReturn
  <2>4. ASSUME NEW l \in Lines
        PROVE  /\ total[l] \in Nat /\ quantity[l] \in Nat \ {0}
               /\ cumulative'[l] = cumulative[l] + units[l]
               /\ cumulative'[l] \in 0..quantity[l]
               /\ share'[l] = Rounded(total[l], quantity[l], cumulative'[l])
    <3>1. /\ total[l] \in Nat /\ quantity[l] \in Nat \ {0}
          /\ cumulative[l] \in Nat
          /\ share[l] = Rounded(total[l], quantity[l], cumulative[l])
      BY DEF SharesInv, Typed, Telescoped
    <3>2. /\ cumulative'[l] = cumulative[l] + units[l]
          /\ cumulative[l] + units[l] <= quantity[l]
          /\ share'[l] = share[l]
                 + Allocated(total[l], quantity[l], cumulative[l], units[l])
      BY <2>1 DEF PostReturn, Returnable
    <3>3. cumulative'[l] \in 0..quantity[l]
      BY <2>2, <3>1, <3>2
    <3>4. /\ Rounded(total[l], quantity[l], cumulative[l]) \in Nat
          /\ Rounded(total[l], quantity[l], cumulative[l] + units[l]) \in Nat
      <4>1. units[l] \in Nat /\ cumulative[l] + units[l] \in Nat
        BY <2>2, <3>1
      <4> QED BY <3>1, <4>1, RoundedNat
    <3>5. share'[l] = Rounded(total[l], quantity[l], cumulative[l] + units[l])
      BY <3>1, <3>2, <3>4 DEF Allocated
    <3> QED BY <3>1, <3>2, <3>3, <3>5
  <2>5. Telescoped'
    BY <2>3, <2>4 DEF Telescoped
  <2>6. ASSUME NEW l \in Lines PROVE cumulative'[l] \in Nat /\ share'[l] \in Nat
    <3>1. /\ total[l] \in Nat /\ quantity[l] \in Nat \ {0}
          /\ cumulative'[l] \in 0..quantity[l]
          /\ share'[l] = Rounded(total[l], quantity[l], cumulative'[l])
      BY <2>4, <2>6
    <3>2. cumulative'[l] \in Nat
      BY <3>1
    <3> QED BY <3>1, <3>2, RoundedNat
  <2>7. Typed'
    <3>1. /\ cumulative' = [l \in Lines |-> cumulative'[l]]
          /\ share' = [l \in Lines |-> share'[l]]
      BY <2>1 DEF PostReturn
    <3> QED BY <2>3, <2>6, <3>1 DEF Typed, SharesInv
  <2> QED BY <2>5, <2>7 DEF SharesInv
<1>2. CASE UNCHANGED valueVars
  BY <1>2 DEF valueVars, SharesInv, Typed, Telescoped
<1> QED BY <1>1, <1>2

LEMMA SharesEnough == SharesInv => SharesFollowUnits
<1> SUFFICES ASSUME SharesInv, NEW l \in Lines
             PROVE  /\ share[l] \in 0..total[l]
                    /\ 2 * share[l] * quantity[l] \in
                           (2 * total[l] * cumulative[l] - quantity[l])
                           ..(2 * total[l] * cumulative[l] + quantity[l])
                    /\ cumulative[l] = quantity[l] => share[l] = total[l]
  BY DEF SharesFollowUnits
<1>1. /\ total[l] \in Nat /\ quantity[l] \in Nat \ {0}
      /\ cumulative[l] \in Nat /\ cumulative[l] \in 0..quantity[l]
      /\ share[l] = Rounded(total[l], quantity[l], cumulative[l])
  BY DEF SharesInv, Typed, Telescoped
<1>2. share[l] \in 0..total[l]
  BY <1>1, RoundedWithin
<1>3. 2 * share[l] * quantity[l] \in
          (2 * total[l] * cumulative[l] - quantity[l])
          ..(2 * total[l] * cumulative[l] + quantity[l])
  BY <1>1, RoundedNear
<1>4. cumulative[l] = quantity[l] => share[l] = total[l]
  BY <1>1, RoundedFull
<1> QED BY <1>2, <1>3, <1>4

-----------------------------------------------------------------------------
(* The values of the returns *)

\* More units are worth no less.
LEMMA RoundedGrows ==
    ASSUME NEW t \in Nat, NEW q \in Nat \ {0}, NEW n \in Nat, NEW k \in Nat
    PROVE  Allocated(t, q, n, k) \in Nat
<1> DEFINE R == Rounded(t, q, n)
           S == Rounded(t, q, n + k)
           x == 2 * t * n + q
           y == 2 * t * (n + k) + q
           m == 2 * q
<1>1. R \in Nat /\ S \in Nat
  <2>1. n + k \in Nat
    OBVIOUS
  <2> QED BY <2>1, RoundedNat
<1>2. x \in Nat /\ y \in Nat /\ m \in Nat \ {0} /\ x <= y
  OBVIOUS
<1>3. R = x \div m /\ S = y \div m
  BY DEF Rounded
<1>4. Allocated(t, q, n, k) = S - R
  BY DEF Allocated
<1> HIDE DEF x, y, m, R, S
<1>5. m * R <= x /\ y < m * S + m
  BY <1>2, <1>3, DivBrackets
<1>6. R <= S
  <2> SUFFICES ASSUME R >= S + 1 PROVE FALSE
    BY <1>1
  <2>1. m * R >= m * (S + 1) /\ m * (S + 1) = m * S + m
    BY <1>1, <1>2
  <2>2. m * R \in Nat /\ m * S \in Nat
    BY <1>1, <1>2
  <2> QED BY <1>2, <1>5, <2>1, <2>2
<1> QED BY <1>1, <1>4, <1>6

\* The values add up to the shares that the lines were given.
ValuesInv ==
    /\ SharesInv
    /\ values \in Seq(Nat)
    /\ SumFunctionOnSet(values, DOMAIN values) = SumFunctionOnSet(share, Lines)

LEMMA SumOfAppended ==
    ASSUME NEW s \in Seq(Nat), NEW v \in Nat
    PROVE  /\ SumFunctionOnSet(s, DOMAIN s) \in Int
           /\ SumFunctionOnSet(Append(s, v), DOMAIN Append(s, v)) =
                  SumFunctionOnSet(s, DOMAIN s) + v
<1> DEFINE D == DOMAIN s
           n == Len(s) + 1
           t == Append(s, v)
<1>1. D = 1..Len(s) /\ Len(s) \in Nat /\ \A i \in D : s[i] \in Nat
  OBVIOUS
<1>2. IsFiniteSet(D)
  BY <1>1, FS_Interval
<1>3. DOMAIN t = D \cup {n} /\ n \notin D /\ t[n] = v /\ \A i \in D : t[i] = s[i]
  OBVIOUS
<1> HIDE DEF D, n, t
<1>4. Integral(s, D) /\ Integral(t, D) /\ t[n] \in Int
  BY <1>1, <1>3 DEF Integral
<1>5. SumFunctionOnSet(t, D \cup {n}) = SumFunctionOnSet(t, D) + t[n]
  BY <1>2, <1>3, <1>4, SumAdd
<1>6. SumFunctionOnSet(s, D) = SumFunctionOnSet(t, D)
  BY <1>2, <1>3, <1>4, SumAgree
<1>7. SumFunctionOnSet(s, D) \in Int
  BY <1>2, <1>4, SumInt
<1> QED BY <1>3, <1>5, <1>6, <1>7 DEF D, t

LEMMA ValuesStart == ValuesInit => ValuesInv
<1> SUFFICES ASSUME ValuesInit PROVE ValuesInv
  OBVIOUS
<1>1. SharesInv /\ values \in Seq(Nat) /\ DOMAIN values = {}
  BY SharesInit DEF ValuesInit
<1>2. \A l \in Lines : share[l] = 0
  BY DEF ValuesInit
<1>3. SumFunctionOnSet(share, Lines) = 0 /\ SumFunctionOnSet(values, {}) = 0
  BY <1>2, SumZero, SumEmpty, ReturnValuesAssumption
<1> QED BY <1>1, <1>3 DEF ValuesInv

LEMMA ValuesStep == ValuesInv /\ [ValuesNext]_valueVars => ValuesInv'
<1> SUFFICES ASSUME ValuesInv, [ValuesNext]_valueVars PROVE ValuesInv'
  OBVIOUS
<1>1. SharesInv'
  BY SharesStep DEF ValuesInv
<1>2. CASE ValuesNext
  <2>1. PICK units \in [Lines -> Units] : PostReturn(units)
    BY <1>2 DEF ValuesNext
  <2> DEFINE v == ValueOf(units)
             a == [l \in Lines |-> Allocated(total[l], quantity[l], cumulative[l], units[l])]
  <2>2. ASSUME NEW l \in Lines
        PROVE  a[l] \in Nat /\ share[l] \in Nat /\ share'[l] = share[l] + a[l]
    <3>1. units[l] \in Nat
      BY ReturnValuesAssumption DEF Units
    <3>2. /\ total[l] \in Nat /\ quantity[l] \in Nat \ {0}
          /\ cumulative[l] \in Nat /\ share[l] \in Nat
      BY DEF ValuesInv, SharesInv, Typed
    <3>3. Allocated(total[l], quantity[l], cumulative[l], units[l]) \in Nat
      BY <3>1, <3>2, RoundedGrows
    <3> QED BY <2>1, <3>2, <3>3 DEF PostReturn
  <2>3. v = SumFunctionOnSet(a, Lines) /\ values' = Append(values, v)
    BY <2>1 DEF PostReturn, ValueOf
  <2> HIDE DEF v, a
  <2>4. v \in Nat
    BY <2>2, <2>3, SumNatural, ReturnValuesAssumption
  <2>5. SumFunctionOnSet(share', Lines) = SumFunctionOnSet(share, Lines) + v
    BY <2>2, <2>3, SumOfSums, ReturnValuesAssumption DEF Integral
  <2>6. /\ values' \in Seq(Nat)
        /\ SumFunctionOnSet(values', DOMAIN values') =
               SumFunctionOnSet(values, DOMAIN values) + v
    BY <2>3, <2>4, SumOfAppended DEF ValuesInv
  <2> QED BY <1>1, <2>5, <2>6 DEF ValuesInv
<1>3. CASE UNCHANGED valueVars
  BY <1>1, <1>3 DEF valueVars, ValuesInv
<1> QED BY <1>2, <1>3

LEMMA ValuesInvariant == ValuesSpec => []ValuesInv
<1>1. ValuesInit => ValuesInv
  BY ValuesStart
<1>2. ValuesInv /\ [ValuesNext]_valueVars => ValuesInv'
  BY ValuesStep
<1> QED BY <1>1, <1>2, PTL DEF ValuesSpec

\* What came back of the lines is a natural number and at most the document.
LEMMA WorthOfReturns ==
    ASSUME ValuesInv
    PROVE  /\ SumFunctionOnSet(values, DOMAIN values) \in Nat
           /\ SumFunctionOnSet(total, Lines) \in Nat
           /\ SumFunctionOnSet(values, DOMAIN values) <= SumFunctionOnSet(total, Lines)
<1>1. \A l \in Lines : share[l] \in Nat /\ total[l] \in Nat /\ share[l] <= total[l]
  <2>1. \A l \in Lines : total[l] \in Nat /\ share[l] \in 0..total[l]
    BY SharesEnough DEF ValuesInv, SharesInv, Typed, SharesFollowUnits
  <2> QED BY <2>1
<1>2. SumFunctionOnSet(share, Lines) <= SumFunctionOnSet(total, Lines)
  BY <1>1, SumMonotone, ReturnValuesAssumption DEF Integral
<1>3. SumFunctionOnSet(share, Lines) \in Nat /\ SumFunctionOnSet(total, Lines) \in Nat
  BY <1>1, SumNatural, ReturnValuesAssumption
<1> QED BY <1>2, <1>3 DEF ValuesInv

\* However the units of a line are split over returns, the values given to them
\* (allocateValues) stay within half a cent of the units' part of the line and
\* reach the line's total with its last unit.
THEOREM SharesTelescope == ValuesSpec => []SharesFollowUnits
<1>1. ValuesInit => SharesInv
  BY SharesInit
<1>2. SharesInv /\ [ValuesNext]_valueVars => SharesInv'
  BY SharesStep
<1>3. SharesInv => SharesFollowUnits
  BY SharesEnough
<1> QED BY <1>1, <1>2, <1>3, PTL DEF ValuesSpec

\* No return is worth less than nothing and all of them together are worth no more
\* than the document: what the obligations and the payments of it rely on.
THEOREM ReturnsWithinDocument == ValuesSpec => []WorthWithinTotal
<1>1. ValuesInv => WorthWithinTotal
  BY WorthOfReturns DEF ValuesInv, WorthWithinTotal
<1> QED BY <1>1, ValuesInvariant, PTL

-----------------------------------------------------------------------------
(* The two computations of a document *)

\* The telescoped shares are the shares of the payables.
LEMMA TelescopedAgrees == SharesInv => LinesAgree
BY DEF SharesInv, Telescoped, LinesAgree, ReturnedLine

\* A document never owes and is owed at once: the outstanding amount and the
\* supplier credit of one obligation and one net payment cannot both be there.
LEMMA NeverBothOwedAndOwing ==
    ASSUME NEW returned \in Int, NEW obligation \in Int, NEW netPaid \in Int
    PROVE  LET s == Settled(returned, obligation, netPaid) IN
           /\ s.outstanding - s.credit = obligation - netPaid
           /\ s.outstanding = 0 \/ s.credit = 0
BY DEF Settled, NonNegative

\* However the units of a line are split over returns, the value that the
\* payables give them in one rounding (return_values of commercial.service.ts)
\* is the sum of the values given to the returns one by one (allocateValues).
THEOREM RoundingsAgree == ValuesSpec => []LinesAgree
<1>1. ValuesInit => SharesInv
  BY SharesInit
<1>2. SharesInv /\ [ValuesNext]_valueVars => SharesInv'
  BY SharesStep
<1>3. SharesInv => LinesAgree
  BY TelescopedAgrees
<1> QED BY <1>1, <1>2, <1>3, PTL DEF ValuesSpec

\* GREATEST and LEAST of the queries.
LEMMA GreatestOf ==
    ASSUME NEW n \in Int
    PROVE  Max({n, 0}) = NonNegative(n)
BY DEF Max, NonNegative

LEMMA LeastOf ==
    ASSUME NEW n \in Int, NEW m \in Int, n <= m
    PROVE  Min({n, m}) = n
BY DEF Min

LEMMA RowsAgree ==
    ASSUME ValuesInv, NEW paid \in Int, NEW refunded \in Int
    PROVE  /\ PayableRow(paid, refunded) = PurchaseSummary(paid, refunded)
           /\ ReceivableRow(paid) = SaleSummary(paid)
<1> DEFINE g == GrossValue
           r == SumFunctionOnSet(values, DOMAIN values)
           s == SumFunctionOnSet([l \in Lines |-> ReturnedLine(l)], Lines)
<1>1. g \in Nat /\ r \in Nat /\ r <= g
  BY WorthOfReturns DEF GrossValue
<1>2. s = r
  <2> DEFINE f == [l \in Lines |-> ReturnedLine(l)]
  <2>1. \A l \in Lines : share[l] \in Int /\ share[l] = f[l]
    BY TelescopedAgrees DEF ValuesInv, SharesInv, Typed, LinesAgree
  <2> HIDE DEF f
  <2>2. SumFunctionOnSet(share, Lines) = SumFunctionOnSet(f, Lines)
    BY <2>1, SumAgree, ReturnValuesAssumption DEF Integral
  <2> QED BY <2>2 DEF f, ValuesInv
<1> HIDE DEF g, r, s
<1>3. PayableRow(paid, refunded) = PurchaseSummary(paid, refunded)
  <2> DEFINE o == NonNegative(g - r)
             net == paid - refunded
             out == NonNegative(o - net)
  <2>1. o \in Int /\ net \in Int /\ out \in Int
    BY <1>1 DEF NonNegative
  <2>2. Max({g - s, 0}) = o /\ Min({s, g}) = r
    BY <1>1, <1>2, GreatestOf, LeastOf
  <2> HIDE DEF o, net
  <2>3. Max({o - net, 0}) = out /\ Max({net - o, 0}) = NonNegative(net - o)
    BY <2>1, GreatestOf
  <2>4. PayableRow(paid, refunded) =
            [returned |-> r, obligation |-> o, netPaid |-> net, outstanding |-> out,
             credit |-> NonNegative(net - o),
             status |-> CASE out = 0 -> "PAID"
                          [] out # 0 /\ net = 0 -> "UNPAID"
                          [] OTHER -> "PARTIALLY_PAID"]
    BY <2>2, <2>3 DEF PayableRow, g, s, net
  <2>5. PurchaseSummary(paid, refunded) =
            [returned |-> r, obligation |-> o, netPaid |-> net, outstanding |-> out,
             credit |-> NonNegative(net - o), status |-> SettlementStatus(net, out)]
    BY DEF PurchaseSummary, Settled, g, r, o, net
  <2>6. SettlementStatus(net, out) = CASE out = 0 -> "PAID"
                                       [] out # 0 /\ net = 0 -> "UNPAID"
                                       [] OTHER -> "PARTIALLY_PAID"
    <3> HIDE DEF out
    <3> QED BY DEF SettlementStatus
  <2> QED BY <2>4, <2>5, <2>6
<1>4. ReceivableRow(paid) = SaleSummary(paid)
  <2> DEFINE out == NonNegative(g - paid)
  <2>1. Max({g - paid, 0}) = out
    BY <1>1, GreatestOf
  <2>2. ReceivableRow(paid) =
            [paid |-> paid, outstanding |-> out,
             status |-> CASE out = 0 -> "PAID"
                          [] out # 0 /\ paid = 0 -> "UNPAID"
                          [] OTHER -> "PARTIALLY_PAID"]
    BY <2>1 DEF ReceivableRow, g
  <2>3. SaleSummary(paid) =
            [paid |-> paid, outstanding |-> out, status |-> SettlementStatus(paid, out)]
    BY DEF SaleSummary, g
  <2>4. SettlementStatus(paid, out) = CASE out = 0 -> "PAID"
                                        [] out # 0 /\ paid = 0 -> "UNPAID"
                                        [] OTHER -> "PARTIALLY_PAID"
    <3> HIDE DEF out
    <3> QED BY DEF SettlementStatus
  <2> QED BY <2>2, <2>3, <2>4
<1> QED BY <1>3, <1>4

\* What the lists of receivables and payables show of a document is what its
\* payments are checked against, whatever was returned, paid and refunded.
THEOREM ListsShowTheSummaries == ValuesSpec => []ListsAgreeWithSummaries
<1>1. ASSUME ValuesInv, NEW paid \in 0..GrossValue, NEW refunded \in 0..GrossValue
      PROVE  /\ PayableRow(paid, refunded) = PurchaseSummary(paid, refunded)
             /\ ReceivableRow(paid) = SaleSummary(paid)
  BY <1>1, RowsAgree
<1>2. ValuesInv => ListsAgreeWithSummaries
  BY <1>1 DEF ListsAgreeWithSummaries
<1> QED BY <1>2, ValuesInvariant, PTL
=============================================================================
