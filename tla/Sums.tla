-------------------------------- MODULE Sums --------------------------------
(***************************************************************************)
(* Facts about SumFunctionOnSet, the sum of a function over a finite set.  *)
(*                                                                         *)
(* The sum is a recursive function, so that every fact rests on induction. *)
(* The induction used here is about sets, not about formulas: a family of  *)
(* sets that contains T whenever it contains every smaller set contains    *)
(* all finite sets, because strict inclusion is well founded on them.      *)
(***************************************************************************)
EXTENDS Functions, FiniteSetTheorems, TLAPS

\* A family that contains every subset of S all of whose strict subsets it
\* contains, contains every subset of S.
LEMMA SubsetInduction ==
  ASSUME NEW S, IsFiniteSet(S), NEW C,
         \A T \in SUBSET S : (\A U \in SUBSET T : U # T => U \in C) => T \in C
  PROVE  SUBSET S \subseteq C
<1> DEFINE R == StrictSubsetOrdering(S)
           Others == {T \in SUBSET S : T \notin C}
<1>1. IsWellFoundedOn(R, SUBSET S)
  <2>1. FiniteSubsetsOf(S) = SUBSET S
    BY FS_FiniteSubsetsOfFinite
  <2>2. IsWellFoundedOn(R, FiniteSubsetsOf(S))
    BY FS_StrictSubsetOrderingWellFounded
  <2> QED BY <2>1, <2>2
<1>2. \A U, T \in SUBSET S : U \in SUBSET T /\ U # T => <<U, T>> \in R
  BY DEF StrictSubsetOrdering
<1> HIDE DEF R
<1>3. ASSUME Others # {} PROVE FALSE
  <2>1. Others \subseteq SUBSET S
    OBVIOUS
  <2> HIDE DEF Others
  <2>2. PICK T \in Others : \A U \in Others : <<U, T>> \notin R
    BY <1>1, <1>3, <2>1, WFMin
  <2>3. T \in SUBSET S /\ T \notin C
    BY DEF Others
  <2>4. ASSUME NEW U \in SUBSET T, U # T PROVE U \in C
    <3>1. U \in SUBSET S /\ <<U, T>> \in R
      BY <1>2, <2>3, <2>4
    <3>2. U \notin Others
      BY <2>2, <3>1
    <3> QED BY <3>1, <3>2 DEF Others
  <2> QED BY <2>3, <2>4
<1> QED
  BY <1>3

-----------------------------------------------------------------------------
(* The recursive function behind the sum *)

Chosen(s) == CHOOSE x \in s : TRUE

LEMMA ChosenIsElement == \A s : s # {} => Chosen(s) \in s
BY DEF Chosen

Adds(g, f, S) ==
  g = [s \in SUBSET S |-> IF s = {} THEN 0 ELSE f[Chosen(s)] + g[s \ {Chosen(s)}]]

LEMMA SumIsChosen ==
  ASSUME NEW f, NEW S
  PROVE  SumFunctionOnSet(f, S) = (CHOOSE g : Adds(g, f, S))[S]
BY DEF SumFunctionOnSet, FoldFunctionOnSet, MapThenFoldSet, Adds, Chosen

LEMMA AddsAt ==
  ASSUME NEW f, NEW S, NEW g, Adds(g, f, S), NEW s \in SUBSET S
  PROVE  g[s] = IF s = {} THEN 0 ELSE f[Chosen(s)] + g[s \ {Chosen(s)}]
<1> DEFINE h == [t \in SUBSET S |->
                   IF t = {} THEN 0 ELSE f[Chosen(t)] + g[t \ {Chosen(t)}]]
<1>1. g = h
  BY DEF Adds
<1>2. h[s] = IF s = {} THEN 0 ELSE f[Chosen(s)] + g[s \ {Chosen(s)}]
  OBVIOUS
<1> QED
  BY <1>1, <1>2

\* Two such functions agree wherever both are defined.
LEMMA AddsAgree ==
  ASSUME NEW f, NEW S, IsFiniteSet(S), NEW T \in SUBSET S,
         NEW g, Adds(g, f, S), NEW h, Adds(h, f, T)
  PROVE  \A U \in SUBSET T : g[U] = h[U]
<1> DEFINE C == {U \in SUBSET T : g[U] = h[U]}
<1>1. ASSUME NEW U \in SUBSET T, \A V \in SUBSET U : V # U => V \in C
      PROVE  U \in C
  <2>1. CASE U = {}
    <3>1. g[U] = 0 /\ h[U] = 0
      BY <2>1, AddsAt
    <3> QED BY <3>1
  <2>2. CASE U # {}
    <3> DEFINE V == U \ {Chosen(U)}
    <3>1. V \in SUBSET U /\ V # U
      BY <2>2, ChosenIsElement
    <3>2. g[V] = h[V]
      BY <1>1, <3>1
    <3>3. g[U] = f[Chosen(U)] + g[V]
      BY <2>2, AddsAt
    <3>4. h[U] = f[Chosen(U)] + h[V]
      BY <2>2, AddsAt
    <3> QED BY <3>2, <3>3, <3>4
  <2> QED BY <2>1, <2>2
<1>2. IsFiniteSet(T)
  BY FS_Subset
<1> HIDE DEF C
<1>3. SUBSET T \subseteq C
  BY <1>1, <1>2, SubsetInduction
<1> QED
  BY <1>3 DEF C

\* When the functions of all smaller sets exist, their sums are one function.
LEMMA SumBelow ==
  ASSUME NEW f, NEW S, IsFiniteSet(S), NEW T \in SUBSET S,
         \A U \in SUBSET T : \E g : Adds(g, f, U)
  PROVE  SumFunctionOnSet(f, T) =
           IF T = {} THEN 0
           ELSE f[Chosen(T)] + SumFunctionOnSet(f, T \ {Chosen(T)})
<1> DEFINE It(U) == CHOOSE g : Adds(g, f, U)
<1>1. \A U \in SUBSET T : Adds(It(U), f, U)
  OBVIOUS
<1>2. \A U \in SUBSET T : SumFunctionOnSet(f, U) = It(U)[U]
  BY SumIsChosen
<1> HIDE DEF It
<1>3. It(T)[T] = IF T = {} THEN 0 ELSE f[Chosen(T)] + It(T)[T \ {Chosen(T)}]
  BY <1>1, AddsAt
<1>4. CASE T = {}
  BY <1>2, <1>3, <1>4
<1>5. CASE T # {}
  <2> DEFINE V == T \ {Chosen(T)}
  <2>1. V \in SUBSET T /\ IsFiniteSet(T)
    BY FS_Subset
  <2> HIDE DEF V
  <2>2. Adds(It(T), f, T) /\ Adds(It(V), f, V)
    BY <1>1, <2>1
  <2>3. It(T)[V] = It(V)[V]
    BY <2>1, <2>2, AddsAgree
  <2> QED
    BY <1>2, <1>3, <1>5, <2>1, <2>3 DEF V
<1> QED
  BY <1>4, <1>5

LEMMA AddsExists ==
  ASSUME NEW f, NEW S, IsFiniteSet(S)
  PROVE  \A T \in SUBSET S : \E g : Adds(g, f, T)
<1> DEFINE C == {T \in SUBSET S : \E g : Adds(g, f, T)}
<1>1. ASSUME NEW T \in SUBSET S, \A U \in SUBSET T : U # T => U \in C
      PROVE  T \in C
  <2> DEFINE h == [U \in SUBSET T |->
                     IF U = {} THEN 0
                     ELSE f[Chosen(U)] + SumFunctionOnSet(f, U \ {Chosen(U)})]
  <2>1. ASSUME NEW U \in SUBSET T, U # {}
        PROVE  h[U \ {Chosen(U)}] = SumFunctionOnSet(f, U \ {Chosen(U)})
    <3> DEFINE V == U \ {Chosen(U)}
    <3>1. V \in SUBSET T /\ V # T
      BY <2>1, ChosenIsElement
    <3>2. \A W \in SUBSET V : \E g : Adds(g, f, W)
      BY <1>1, <3>1
    <3>3. SumFunctionOnSet(f, V) =
            IF V = {} THEN 0
            ELSE f[Chosen(V)] + SumFunctionOnSet(f, V \ {Chosen(V)})
      <4> HIDE DEF V
      <4> QED BY <3>1, <3>2, SumBelow
    <3> QED BY <3>1, <3>3
  <2>2. Adds(h, f, T)
    <3> DEFINE Body(U) == IF U = {} THEN 0 ELSE f[Chosen(U)] + h[U \ {Chosen(U)}]
    <3>1. \A U \in SUBSET T : h[U] = Body(U)
      BY <2>1
    <3>2. h = [U \in SUBSET T |-> h[U]]
      OBVIOUS
    <3> HIDE DEF h
    <3>3. h = [U \in SUBSET T |-> Body(U)]
      <4> HIDE DEF Body
      <4> QED BY <3>1, <3>2
    <3> QED BY <3>3 DEF Adds
  <2> HIDE DEF h
  <2> QED BY <2>2
<1> HIDE DEF C
<1>2. SUBSET S \subseteq C
  BY <1>1, SubsetInduction
<1> QED
  BY <1>2 DEF C

LEMMA SumStep ==
  ASSUME NEW f, NEW S, IsFiniteSet(S)
  PROVE  SumFunctionOnSet(f, S) =
           IF S = {} THEN 0
           ELSE f[Chosen(S)] + SumFunctionOnSet(f, S \ {Chosen(S)})
BY AddsExists, SumBelow

LEMMA ImageIsFinite ==
  ASSUME NEW f, NEW S, IsFiniteSet(S)
  PROVE  IsFiniteSet({f[x] : x \in S})
<1> DEFINE T == {f[x] : x \in S}
           g == [x \in S |-> f[x]]
<1>1. g \in Surjection(S, T)
  BY DEF Surjection
<1> QED BY <1>1, FS_Surjection

-----------------------------------------------------------------------------
(* Sums of integers *)

Integral(f, S) == \A x \in S : f[x] \in Int

\* The induction over sets that adds one element at a time.
LEMMA ElementInduction ==
  ASSUME NEW S, IsFiniteSet(S), NEW C, {} \in C,
         \A T \in SUBSET S : \A x \in T : T \ {x} \in C => T \in C
  PROVE  S \in C
<1>1. ASSUME NEW T \in SUBSET S, \A U \in SUBSET T : U # T => U \in C
      PROVE  T \in C
  <2>1. CASE T = {}
    BY <2>1
  <2>2. CASE T # {}
    <3>1. PICK x \in T : TRUE
      BY <2>2
    <3>2. T \ {x} \in C
      BY <1>1, <3>1
    <3> QED BY <3>1, <3>2
  <2> QED BY <2>1, <2>2
<1> QED
  BY <1>1, SubsetInduction

\* Whichever element is taken out first, the sum is the same integer.
LEMMA SumOrder ==
  ASSUME NEW f, NEW S, IsFiniteSet(S), Integral(f, S)
  PROVE  /\ SumFunctionOnSet(f, S) \in Int
         /\ \A x \in S :
                SumFunctionOnSet(f, S) = f[x] + SumFunctionOnSet(f, S \ {x})
<1> DEFINE C == {T \in SUBSET S :
                   /\ SumFunctionOnSet(f, T) \in Int
                   /\ \A x \in T :
                        SumFunctionOnSet(f, T) = f[x] + SumFunctionOnSet(f, T \ {x})}
<1>1. ASSUME NEW T \in SUBSET S, \A U \in SUBSET T : U # T => U \in C
      PROVE  T \in C
  <2>1. IsFiniteSet(T)
    BY FS_Subset
  <2>2. CASE T = {}
    <3>1. SumFunctionOnSet(f, T) = 0
      BY <2>1, <2>2, SumStep
    <3> QED BY <2>2, <3>1
  <2>3. CASE T # {}
    <3> DEFINE c == Chosen(T)
    <3>1. c \in T /\ f[c] \in Int
      BY <2>3, ChosenIsElement DEF Integral
    <3>2. SumFunctionOnSet(f, T) = f[c] + SumFunctionOnSet(f, T \ {c})
      BY <2>1, <2>3, SumStep
    <3> HIDE DEF c
    <3>3. T \ {c} \in C
      BY <1>1, <3>1
    <3>4. ASSUME NEW x \in T
          PROVE  SumFunctionOnSet(f, T) = f[x] + SumFunctionOnSet(f, T \ {x})
      <4>1. CASE x = c
        BY <3>2, <4>1
      <4>2. CASE x # c
        <5>1. T \ {x} \in C /\ f[x] \in Int
          BY <1>1, <3>4 DEF Integral
        <5>2. SumFunctionOnSet(f, T \ {c}) = f[x] + SumFunctionOnSet(f, (T \ {c}) \ {x})
          BY <3>3, <3>4, <4>2
        <5>3. SumFunctionOnSet(f, T \ {x}) = f[c] + SumFunctionOnSet(f, (T \ {x}) \ {c})
          BY <3>1, <4>2, <5>1
        <5>4. (T \ {x}) \ {c} = (T \ {c}) \ {x}
          OBVIOUS
        <5>5. (T \ {c}) \ {x} \in C
          <6>1. (T \ {c}) \ {x} \in SUBSET T /\ (T \ {c}) \ {x} # T
            BY <3>1
          <6> QED BY <1>1, <6>1
        <5> DEFINE rest == SumFunctionOnSet(f, (T \ {c}) \ {x})
        <5>6. rest \in Int
          BY <5>5
        <5>7. /\ SumFunctionOnSet(f, T) = f[c] + (f[x] + rest)
              /\ SumFunctionOnSet(f, T \ {x}) = f[c] + rest
          BY <3>2, <5>2, <5>3, <5>4
        <5> HIDE DEF rest
        <5> QED BY <3>1, <5>1, <5>6, <5>7
      <4> QED BY <4>1, <4>2
    <3>5. SumFunctionOnSet(f, T) \in Int
      BY <3>1, <3>2, <3>3
    <3> QED BY <3>4, <3>5
  <2> QED BY <2>2, <2>3
<1> HIDE DEF C
<1>2. S \in C
  BY <1>1, SubsetInduction
<1> QED
  BY <1>2 DEF C

LEMMA SumEmpty == \A f : SumFunctionOnSet(f, {}) = 0
BY SumStep, FS_EmptySet

LEMMA SumInt ==
  ASSUME NEW f, NEW S, IsFiniteSet(S), Integral(f, S)
  PROVE  SumFunctionOnSet(f, S) \in Int
BY SumOrder

LEMMA SumRemove ==
  ASSUME NEW f, NEW S, IsFiniteSet(S), Integral(f, S), NEW x \in S
  PROVE  SumFunctionOnSet(f, S) = f[x] + SumFunctionOnSet(f, S \ {x})
BY SumOrder

LEMMA SumAdd ==
  ASSUME NEW f, NEW S, IsFiniteSet(S), Integral(f, S), NEW x, x \notin S, f[x] \in Int
  PROVE  SumFunctionOnSet(f, S \cup {x}) = SumFunctionOnSet(f, S) + f[x]
<1>1. IsFiniteSet(S \cup {x}) /\ Integral(f, S \cup {x})
  BY FS_AddElement DEF Integral
<1>2. (S \cup {x}) \ {x} = S
  OBVIOUS
<1>3. SumFunctionOnSet(f, S \cup {x}) = f[x] + SumFunctionOnSet(f, S)
  BY <1>1, <1>2, SumRemove
<1> QED
  BY <1>3, SumInt

\* Functions that agree on S have the same sum over S.
LEMMA SumAgree ==
  ASSUME NEW f, NEW g, NEW S, IsFiniteSet(S), Integral(f, S),
         \A x \in S : f[x] = g[x]
  PROVE  SumFunctionOnSet(f, S) = SumFunctionOnSet(g, S)
<1> DEFINE C == {T \in SUBSET S : SumFunctionOnSet(f, T) = SumFunctionOnSet(g, T)}
<1>1. {} \in C
  BY SumEmpty
<1>2. ASSUME NEW T \in SUBSET S, NEW x \in T, T \ {x} \in C PROVE T \in C
  <2>1. IsFiniteSet(T) /\ Integral(f, T) /\ Integral(g, T)
    BY FS_Subset DEF Integral
  <2>2. /\ SumFunctionOnSet(f, T) = f[x] + SumFunctionOnSet(f, T \ {x})
        /\ SumFunctionOnSet(g, T) = g[x] + SumFunctionOnSet(g, T \ {x})
    BY <2>1, SumRemove
  <2> QED BY <1>2, <2>2
<1> HIDE DEF C
<1>3. S \in C
  BY <1>1, <1>2, ElementInduction
<1> QED
  BY <1>3 DEF C

\* Changing one term changes the sum by as much.
LEMMA SumReplace ==
  ASSUME NEW f, NEW g, NEW S, IsFiniteSet(S), Integral(f, S), Integral(g, S),
         NEW x \in S, \A y \in S \ {x} : f[y] = g[y]
  PROVE  SumFunctionOnSet(g, S) = SumFunctionOnSet(f, S) + g[x] - f[x]
<1> DEFINE T == S \ {x}
<1>1. IsFiniteSet(T) /\ Integral(f, T)
  BY FS_Subset DEF Integral
<1>2. /\ SumFunctionOnSet(f, S) = f[x] + SumFunctionOnSet(f, T)
      /\ SumFunctionOnSet(g, S) = g[x] + SumFunctionOnSet(g, T)
  BY SumRemove
<1>3. SumFunctionOnSet(f, T) = SumFunctionOnSet(g, T)
  BY <1>1, SumAgree
<1>4. SumFunctionOnSet(f, T) \in Int /\ f[x] \in Int /\ g[x] \in Int
  BY <1>1, SumInt DEF Integral
<1> HIDE DEF T
<1> QED
  BY <1>2, <1>3, <1>4

\* A sum of larger terms is larger.
LEMMA SumMonotone ==
  ASSUME NEW f, NEW g, NEW S, IsFiniteSet(S), Integral(f, S), Integral(g, S),
         \A x \in S : f[x] <= g[x]
  PROVE  SumFunctionOnSet(f, S) <= SumFunctionOnSet(g, S)
<1> DEFINE C == {T \in SUBSET S : SumFunctionOnSet(f, T) <= SumFunctionOnSet(g, T)}
<1>1. {} \in C
  BY SumEmpty
<1>2. ASSUME NEW T \in SUBSET S, NEW x \in T, T \ {x} \in C PROVE T \in C
  <2>1. IsFiniteSet(T) /\ Integral(f, T) /\ Integral(g, T)
    BY FS_Subset DEF Integral
  <2>2. /\ SumFunctionOnSet(f, T) = f[x] + SumFunctionOnSet(f, T \ {x})
        /\ SumFunctionOnSet(g, T) = g[x] + SumFunctionOnSet(g, T \ {x})
    BY <2>1, SumRemove
  <2>3. /\ IsFiniteSet(T \ {x})
        /\ Integral(f, T \ {x}) /\ Integral(g, T \ {x})
    BY <2>1, FS_Subset DEF Integral
  <2>4. SumFunctionOnSet(f, T \ {x}) \in Int /\ SumFunctionOnSet(g, T \ {x}) \in Int
    BY <2>3, SumInt
  <2>5. f[x] \in Int /\ g[x] \in Int /\ f[x] <= g[x]
    BY DEF Integral
  <2>6. SumFunctionOnSet(f, T \ {x}) <= SumFunctionOnSet(g, T \ {x})
    BY <1>2
  <2> QED BY <2>2, <2>4, <2>5, <2>6
<1> HIDE DEF C
<1>3. S \in C
  BY <1>1, <1>2, ElementInduction
<1> QED
  BY <1>3 DEF C

\* Two disjoint sets add up.
LEMMA SumDisjoint ==
  ASSUME NEW f, NEW S, NEW T, IsFiniteSet(S), IsFiniteSet(T),
         Integral(f, S), Integral(f, T), S \cap T = {}
  PROVE  SumFunctionOnSet(f, S \cup T) = SumFunctionOnSet(f, S) + SumFunctionOnSet(f, T)
<1> DEFINE C == {U \in SUBSET T :
                   SumFunctionOnSet(f, S \cup U) =
                     SumFunctionOnSet(f, S) + SumFunctionOnSet(f, U)}
<1>0. SumFunctionOnSet(f, S) \in Int
  BY SumInt
<1>1. {} \in C
  <2>1. S \cup {} = S
    OBVIOUS
  <2> QED BY <1>0, <2>1, SumEmpty
<1>2. ASSUME NEW U \in SUBSET T, NEW x \in U, U \ {x} \in C PROVE U \in C
  <2>1. IsFiniteSet(U) /\ Integral(f, U)
    BY FS_Subset DEF Integral
  <2>2. IsFiniteSet(S \cup U) /\ Integral(f, S \cup U)
    BY <2>1, FS_Union DEF Integral
  <2>3. (S \cup U) \ {x} = S \cup (U \ {x}) /\ x \in S \cup U
    OBVIOUS
  <2>4. SumFunctionOnSet(f, S \cup U) = f[x] + SumFunctionOnSet(f, S \cup (U \ {x}))
    BY <2>2, <2>3, SumRemove
  <2>5. SumFunctionOnSet(f, U) = f[x] + SumFunctionOnSet(f, U \ {x})
    BY <2>1, SumRemove
  <2>6. IsFiniteSet(U \ {x}) /\ Integral(f, U \ {x})
    BY <2>1, FS_Subset DEF Integral
  <2>7. SumFunctionOnSet(f, U \ {x}) \in Int /\ f[x] \in Int
    BY <2>1, <2>6, SumInt DEF Integral
  <2>8. SumFunctionOnSet(f, S \cup (U \ {x})) =
          SumFunctionOnSet(f, S) + SumFunctionOnSet(f, U \ {x})
    BY <1>2
  <2> QED BY <1>0, <2>4, <2>5, <2>7, <2>8
<1> HIDE DEF C
<1>3. T \in C
  BY <1>1, <1>2, ElementInduction
<1> QED
  BY <1>3 DEF C

\* The sum of two functions, term by term.
LEMMA SumOfSums ==
  ASSUME NEW f, NEW g, NEW h, NEW S, IsFiniteSet(S), Integral(f, S), Integral(g, S),
         \A x \in S : h[x] = f[x] + g[x]
  PROVE  SumFunctionOnSet(h, S) = SumFunctionOnSet(f, S) + SumFunctionOnSet(g, S)
<1> DEFINE C == {T \in SUBSET S :
                   SumFunctionOnSet(h, T) = SumFunctionOnSet(f, T) + SumFunctionOnSet(g, T)}
<1>1. {} \in C
  BY SumEmpty
<1>2. ASSUME NEW T \in SUBSET S, NEW x \in T, T \ {x} \in C PROVE T \in C
  <2>1. IsFiniteSet(T) /\ Integral(f, T) /\ Integral(g, T) /\ Integral(h, T)
    BY FS_Subset DEF Integral
  <2>2. /\ SumFunctionOnSet(f, T) = f[x] + SumFunctionOnSet(f, T \ {x})
        /\ SumFunctionOnSet(g, T) = g[x] + SumFunctionOnSet(g, T \ {x})
        /\ SumFunctionOnSet(h, T) = h[x] + SumFunctionOnSet(h, T \ {x})
    BY <2>1, SumRemove
  <2>3. /\ IsFiniteSet(T \ {x})
        /\ Integral(f, T \ {x}) /\ Integral(g, T \ {x})
    BY <2>1, FS_Subset DEF Integral
  <2>4. SumFunctionOnSet(f, T \ {x}) \in Int /\ SumFunctionOnSet(g, T \ {x}) \in Int
    BY <2>3, SumInt
  <2>5. f[x] \in Int /\ g[x] \in Int /\ h[x] = f[x] + g[x]
    BY DEF Integral
  <2>6. SumFunctionOnSet(h, T \ {x}) =
          SumFunctionOnSet(f, T \ {x}) + SumFunctionOnSet(g, T \ {x})
    BY <1>2
  <2> QED BY <2>2, <2>4, <2>5, <2>6
<1> HIDE DEF C
<1>3. S \in C
  BY <1>1, <1>2, ElementInduction
<1> QED
  BY <1>3 DEF C

\* A sum of terms that are all zero.
LEMMA SumZero ==
  ASSUME NEW f, NEW S, IsFiniteSet(S), \A x \in S : f[x] = 0
  PROVE  SumFunctionOnSet(f, S) = 0
<1> DEFINE C == {T \in SUBSET S : SumFunctionOnSet(f, T) = 0}
<1>1. {} \in C
  BY SumEmpty
<1>2. ASSUME NEW T \in SUBSET S, NEW x \in T, T \ {x} \in C PROVE T \in C
  <2>1. IsFiniteSet(T) /\ Integral(f, T)
    BY FS_Subset DEF Integral
  <2>2. SumFunctionOnSet(f, T) = f[x] + SumFunctionOnSet(f, T \ {x})
    BY <2>1, SumRemove
  <2> QED BY <1>2, <2>2
<1> HIDE DEF C
<1>3. S \in C
  BY <1>1, <1>2, ElementInduction
<1> QED
  BY <1>3 DEF C

LEMMA SumNatural ==
  ASSUME NEW f, NEW S, IsFiniteSet(S), \A x \in S : f[x] \in Nat
  PROVE  SumFunctionOnSet(f, S) \in Nat
<1> DEFINE z == [x \in S |-> 0]
<1>1. Integral(f, S) /\ Integral(z, S) /\ \A x \in S : z[x] <= f[x]
  BY DEF Integral
<1>2. SumFunctionOnSet(z, S) = 0
  BY SumZero
<1>3. SumFunctionOnSet(f, S) \in Int /\ SumFunctionOnSet(z, S) <= SumFunctionOnSet(f, S)
  BY <1>1, SumInt, SumMonotone
<1> QED
  BY <1>2, <1>3

\* Fewer terms that are not negative add up to less.
LEMMA SumSubset ==
  ASSUME NEW f, NEW S, IsFiniteSet(S), NEW T \in SUBSET S, Integral(f, S),
         \A x \in S \ T : f[x] >= 0
  PROVE  SumFunctionOnSet(f, T) <= SumFunctionOnSet(f, S)
<1> DEFINE U == S \ T
<1>1. IsFiniteSet(T) /\ IsFiniteSet(U) /\ Integral(f, T) /\ Integral(f, U)
  BY FS_Subset DEF Integral
<1>2. T \cap U = {} /\ T \cup U = S /\ \A x \in U : f[x] \in Nat
  BY DEF Integral
<1> HIDE DEF U
<1>3. SumFunctionOnSet(f, S) = SumFunctionOnSet(f, T) + SumFunctionOnSet(f, U)
  BY <1>1, <1>2, SumDisjoint
<1>4. SumFunctionOnSet(f, T) \in Int /\ SumFunctionOnSet(f, U) \in Nat
  BY <1>1, <1>2, SumInt, SumNatural
<1> QED
  BY <1>3, <1>4

\* Terms that are zero do not matter.
LEMMA SumIgnoresZeros ==
  ASSUME NEW f, NEW S, IsFiniteSet(S), NEW T \in SUBSET S, Integral(f, S),
         \A x \in S \ T : f[x] = 0
  PROVE  SumFunctionOnSet(f, T) = SumFunctionOnSet(f, S)
<1> DEFINE U == S \ T
<1>1. IsFiniteSet(T) /\ IsFiniteSet(U) /\ Integral(f, T) /\ Integral(f, U)
  BY FS_Subset DEF Integral
<1>2. T \cap U = {} /\ T \cup U = S /\ \A x \in U : f[x] = 0
  OBVIOUS
<1> HIDE DEF U
<1>3. SumFunctionOnSet(f, S) = SumFunctionOnSet(f, T) + SumFunctionOnSet(f, U)
  BY <1>1, <1>2, SumDisjoint
<1>4. SumFunctionOnSet(f, T) \in Int /\ SumFunctionOnSet(f, U) = 0
  BY <1>1, <1>2, SumInt, SumZero
<1> QED
  BY <1>3, <1>4

\* A sum can be taken group by group: k[x] is the group of x.
LEMMA SumByGroups ==
  ASSUME NEW f, NEW k, NEW S, NEW T, IsFiniteSet(S), IsFiniteSet(T), Integral(f, S),
         \A x \in S : k[x] \in T
  PROVE  SumFunctionOnSet(f, S) =
           SumFunctionOnSet([t \in T |-> SumFunctionOnSet(f, {x \in S : k[x] = t})], T)
<1> DEFINE OfKey(t) == {x \in S : k[x] = t}
           g == [t \in T |-> SumFunctionOnSet(f, OfKey(t))]
           Upto(U) == {x \in S : k[x] \in U}
           C == {U \in SUBSET T : SumFunctionOnSet(f, Upto(U)) = SumFunctionOnSet(g, U)}
<1>1. \A U : IsFiniteSet(Upto(U)) /\ Integral(f, Upto(U))
  BY FS_Subset DEF Integral
<1>2. \A t : IsFiniteSet(OfKey(t)) /\ Integral(f, OfKey(t))
  BY FS_Subset DEF Integral
<1>3. Integral(g, T)
  BY <1>2, SumInt DEF Integral
<1>4. {} \in C
  <2>1. Upto({}) = {}
    OBVIOUS
  <2> QED BY <2>1, SumEmpty
<1>5. ASSUME NEW U \in SUBSET T, NEW t \in U, U \ {t} \in C PROVE U \in C
  <2>1. Upto(U) = Upto(U \ {t}) \cup OfKey(t) /\ Upto(U \ {t}) \cap OfKey(t) = {}
    OBVIOUS
  <2>2. g[t] = SumFunctionOnSet(f, OfKey(t))
    OBVIOUS
  <2>3. SumFunctionOnSet(f, Upto(U \ {t})) = SumFunctionOnSet(g, U \ {t})
    BY <1>5
  <2>4. IsFiniteSet(U) /\ Integral(g, U)
    BY <1>3, FS_Subset DEF Integral
  <2> DEFINE A == Upto(U \ {t})
             B == OfKey(t)
  <2> HIDE DEF g, OfKey, Upto, C
  <2>5. SumFunctionOnSet(f, Upto(U)) =
          SumFunctionOnSet(f, Upto(U \ {t})) + SumFunctionOnSet(f, OfKey(t))
    <3>1. /\ IsFiniteSet(A) /\ IsFiniteSet(B) /\ Integral(f, A) /\ Integral(f, B)
          /\ A \cap B = {} /\ Upto(U) = A \cup B
      BY <1>1, <1>2, <2>1
    <3> HIDE DEF A, B
    <3>2. SumFunctionOnSet(f, A \cup B) = SumFunctionOnSet(f, A) + SumFunctionOnSet(f, B)
      BY <3>1, SumDisjoint
    <3> QED BY <3>1, <3>2 DEF A, B
  <2>6. SumFunctionOnSet(g, U) = g[t] + SumFunctionOnSet(g, U \ {t})
    BY <2>4, SumRemove
  <2>7. /\ SumFunctionOnSet(f, Upto(U \ {t})) \in Int
        /\ SumFunctionOnSet(f, OfKey(t)) \in Int
    BY <1>1, <1>2, SumInt
  <2>8. SumFunctionOnSet(f, Upto(U)) = SumFunctionOnSet(g, U)
    BY <2>2, <2>3, <2>5, <2>6, <2>7
  <2> QED BY <2>8 DEF C
<1>6. T \in C
  <2> HIDE DEF C
  <2> QED BY <1>4, <1>5, ElementInduction
<1>7. Upto(T) = S
  OBVIOUS
<1> QED
  BY <1>6, <1>7

\* The same with the sum of every group known.
Group(k, S, t) == {x \in S : k[x] = t}

LEMMA SumOfGroups ==
  ASSUME NEW f, NEW k, NEW S, NEW T, NEW h, IsFiniteSet(S), IsFiniteSet(T), Integral(f, S),
         \A x \in S : k[x] \in T,
         \A t \in T : SumFunctionOnSet(f, Group(k, S, t)) = h[t]
  PROVE  SumFunctionOnSet(f, S) = SumFunctionOnSet(h, T)
<1> DEFINE g == [t \in T |-> SumFunctionOnSet(f, {x \in S : k[x] = t})]
<1>1. SumFunctionOnSet(f, S) = SumFunctionOnSet(g, T)
  BY SumByGroups
<1>2. \A t \in T : g[t] = h[t]
  BY DEF Group
<1>3. Integral(g, T)
  <2>1. ASSUME NEW t \in T PROVE SumFunctionOnSet(f, {x \in S : k[x] = t}) \in Int
    <3> DEFINE G == {x \in S : k[x] = t}
    <3>1. IsFiniteSet(G) /\ Integral(f, G)
      BY FS_Subset DEF Integral
    <3> HIDE DEF G
    <3>2. SumFunctionOnSet(f, G) \in Int
      BY <3>1, SumInt
    <3> QED BY <3>2 DEF G
  <2> QED BY <2>1 DEF Integral
<1> HIDE DEF g
<1> QED
  BY <1>1, <1>2, <1>3, SumAgree

LEMMA SumSingleton ==
  ASSUME NEW f, NEW x, f[x] \in Int
  PROVE  SumFunctionOnSet(f, {x}) = f[x]
<1>1. IsFiniteSet({}) /\ Integral(f, {}) /\ {} \cup {x} = {x}
  BY FS_EmptySet DEF Integral
<1>2. SumFunctionOnSet(f, {} \cup {x}) = SumFunctionOnSet(f, {}) + f[x]
  BY <1>1, SumAdd
<1> QED
  BY <1>1, <1>2, SumEmpty

LEMMA SumDifference ==
  ASSUME NEW f, NEW g, NEW h, NEW S, IsFiniteSet(S), Integral(f, S), Integral(g, S),
         \A x \in S : h[x] = f[x] - g[x]
  PROVE  SumFunctionOnSet(h, S) = SumFunctionOnSet(f, S) - SumFunctionOnSet(g, S)
<1>1. Integral(h, S) /\ \A x \in S : f[x] = h[x] + g[x]
  BY DEF Integral
<1>2. SumFunctionOnSet(f, S) = SumFunctionOnSet(h, S) + SumFunctionOnSet(g, S)
  BY <1>1, SumOfSums
<1>3. SumFunctionOnSet(h, S) \in Int /\ SumFunctionOnSet(g, S) \in Int
  BY <1>1, SumInt
<1> QED
  BY <1>2, <1>3

LEMMA SumNegated ==
  ASSUME NEW f, NEW g, NEW S, IsFiniteSet(S), Integral(f, S), \A x \in S : g[x] = -f[x]
  PROVE  SumFunctionOnSet(g, S) = -SumFunctionOnSet(f, S)
<1> DEFINE z == [x \in S |-> 0]
<1>1. Integral(z, S) /\ \A x \in S : z[x] = 0
  BY DEF Integral
<1> HIDE DEF z
<1>2. \A x \in S : g[x] = z[x] - f[x]
  BY <1>1 DEF Integral
<1>3. SumFunctionOnSet(g, S) = SumFunctionOnSet(z, S) - SumFunctionOnSet(f, S)
  BY <1>1, <1>2, SumDifference
<1>4. SumFunctionOnSet(z, S) = 0 /\ SumFunctionOnSet(f, S) \in Int
  BY <1>1, SumZero, SumInt
<1> QED
  BY <1>3, <1>4
=============================================================================
