------------------------ MODULE PaymentLedgerProofs ------------------------
(***************************************************************************)
(* What PaymentLedger promises holds for any number of assessments,        *)
(* payments, credits and amounts.                                          *)
(***************************************************************************)
EXTENDS PaymentLedger, FiniteSetTheorems, TLAPS

-----------------------------------------------------------------------------
(* Finite sets and folds.                                                  *)

\* Induction over the naturals.  What is shown is given as the set of the
\* numbers it holds for.
LEMMA CountingInduction ==
    ASSUME NEW Good, 0 \in Good, \A n \in Nat : n \in Good => n + 1 \in Good
    PROVE  \A n \in Nat : n \in Good
<1> DEFINE Bad == {n \in Nat : n \notin Good}
<1> SUFFICES ASSUME Bad # {} PROVE FALSE
  OBVIOUS
<1>1. PICK n \in Bad : \A m \in Bad : ~(<<m, n>> \in OpToRel(<, Nat))
  <2> HIDE DEF Bad
  <2>1. \A m \in Bad : m \in Nat
    BY DEF Bad
  <2> QED
    BY <2>1, NatLessThanWellFounded, WFMin
<1>2. n \in Nat /\ n # 0 /\ n \notin Good
  OBVIOUS
<1>3. n - 1 \in Nat /\ (n - 1) + 1 = n /\ n - 1 < n
  BY <1>2
<1>4. n - 1 \in Bad
  BY <1>2, <1>3
<1>5. <<n - 1, n>> \in OpToRel(<, Nat)
  BY <1>2, <1>3 DEF OpToRel
<1> QED
  BY <1>1, <1>4, <1>5

\* Induction on the subsets of a finite set, likewise.
LEMMA SubsetInduction ==
    ASSUME NEW S, IsFiniteSet(S), NEW Good, {} \in Good,
           \A T \in SUBSET S : T # {} /\ (\A x \in T : T \ {x} \in Good) => T \in Good
    PROVE  \A T \in SUBSET S : T \in Good
<1> DEFINE Sizes == {n \in Nat : \A T \in SUBSET S : Cardinality(T) = n => T \in Good}
<1>1. \A T \in SUBSET S : IsFiniteSet(T) /\ Cardinality(T) \in Nat
  BY FS_Subset, FS_CardinalityType
<1>2. 0 \in Sizes
  BY <1>1, FS_EmptySet
<1>3. ASSUME NEW n \in Nat, n \in Sizes PROVE n + 1 \in Sizes
  <2> SUFFICES ASSUME NEW T \in SUBSET S, Cardinality(T) = n + 1 PROVE T \in Good
    OBVIOUS
  <2>1. T # {}
    <3>1. Cardinality({}) = 0
      BY FS_EmptySet
    <3> QED
      BY <3>1
  <2>2. ASSUME NEW x \in T PROVE T \ {x} \in Good
    <3>1. Cardinality(T \ {x}) = n
      BY <1>1, FS_RemoveElement
    <3> QED
      BY <1>3, <3>1
  <2> QED
    BY <2>1, <2>2
<1>4. \A n \in Nat : n \in Sizes
  <2> HIDE DEF Sizes
  <2> QED
    BY <1>2, <1>3, CountingInduction
<1> QED
  BY <1>1, <1>4

\* A fold over S: pick a member, fold the rest, and combine.
Correct(iter, s, base, pick, step) ==
    iter[s] = IF s = {} THEN base ELSE step[<<pick[s], iter[s \ {pick[s]}]>>]

IsFold(iter, S, base, pick, step) ==
    \A s \in SUBSET S : Correct(iter, s, base, pick, step)

\* There is a fold over a finite set ...
LEMMA FoldExists ==
    ASSUME NEW S, IsFiniteSet(S), NEW V, NEW base \in V,
           NEW pick, \A s \in SUBSET S : s # {} => pick[s] \in s,
           NEW step \in [S \X V -> V]
    PROVE  \E iter \in [SUBSET S -> V] : IsFold(iter, S, base, pick, step)
<1> DEFINE Upto(g, k) == \A s \in SUBSET S : Cardinality(s) <= k => Correct(g, s, base, pick, step)
           Good == {k \in Nat : \E g \in [SUBSET S -> V] : Upto(g, k)}
<1>1. \A s \in SUBSET S : IsFiniteSet(s) /\ Cardinality(s) \in Nat /\ Cardinality(s) <= Cardinality(S)
  BY FS_Subset, FS_CardinalityType
<1>2. \A s \in SUBSET S : s # {} => /\ s \ {pick[s]} \in SUBSET S
                                    /\ Cardinality(s) = Cardinality(s \ {pick[s]}) + 1
  <2> SUFFICES ASSUME NEW s \in SUBSET S, s # {}
               PROVE  s \ {pick[s]} \in SUBSET S /\ Cardinality(s) = Cardinality(s \ {pick[s]}) + 1
    OBVIOUS
  <2>1. pick[s] \in s
    OBVIOUS
  <2>2. Cardinality(s \ {pick[s]}) = Cardinality(s) - 1
    BY <1>1, <2>1, FS_RemoveElement
  <2> QED
    BY <1>1, <2>2
<1>3. \A s \in SUBSET S : Cardinality(s) = 0 <=> s = {}
  BY <1>1, FS_EmptySet
<1>4. 0 \in Good
  <2> DEFINE g == [s \in SUBSET S |-> base]
  <2>1. ASSUME NEW s \in SUBSET S, Cardinality(s) <= 0 PROVE Correct(g, s, base, pick, step)
    <3>1. s = {}
      BY <1>1, <1>3, <2>1
    <3> QED
      BY <3>1 DEF IsFold, Correct
  <2>2. Upto(g, 0)
    BY <2>1
  <2>3. g \in [SUBSET S -> V]
    OBVIOUS
  <2> QED
    BY <2>2, <2>3
<1>5. ASSUME NEW k \in Nat, k \in Good PROVE k + 1 \in Good
  <2>1. PICK g \in [SUBSET S -> V] : Upto(g, k)
    BY <1>5
  <2> DEFINE h == [s \in SUBSET S |-> IF Cardinality(s) = k + 1
                                      THEN step[<<pick[s], g[s \ {pick[s]}]>>] ELSE g[s]]
  <2>2. ASSUME NEW s \in SUBSET S, Cardinality(s) = k + 1
        PROVE  s # {} /\ pick[s] \in s /\ s \ {pick[s]} \in SUBSET S /\ Cardinality(s \ {pick[s]}) = k
    <3>1. s # {}
      BY <1>3, <2>2
    <3> QED
      BY <1>1, <1>2, <2>2, <3>1
  <2>3. h \in [SUBSET S -> V]
    <3> SUFFICES ASSUME NEW s \in SUBSET S, Cardinality(s) = k + 1
                 PROVE  step[<<pick[s], g[s \ {pick[s]}]>>] \in V
      OBVIOUS
    <3>1. pick[s] \in S /\ g[s \ {pick[s]}] \in V
      BY <2>2
    <3>2. <<pick[s], g[s \ {pick[s]}]>> \in S \X V
      BY <3>1
    <3> QED
      BY <3>2
  <2>4. ASSUME NEW s \in SUBSET S, Cardinality(s) <= k + 1 PROVE Correct(h, s, base, pick, step)
    <3>1. CASE Cardinality(s) = k + 1
      <4>1. h[s] = step[<<pick[s], g[s \ {pick[s]}]>>]
        BY <3>1
      <4>2. h[s \ {pick[s]}] = g[s \ {pick[s]}]
        BY <2>2, <3>1
      <4> QED
        BY <2>2, <3>1, <4>1, <4>2 DEF IsFold, Correct
    <3>2. CASE Cardinality(s) # k + 1
      <4>1. Cardinality(s) <= k
        BY <1>1, <2>4, <3>2
      <4>2. s # {} => s \ {pick[s]} \in SUBSET S /\ Cardinality(s \ {pick[s]}) # k + 1
        BY <1>1, <1>2, <4>1
      <4>3. h[s] = g[s] /\ (s # {} => h[s \ {pick[s]}] = g[s \ {pick[s]}])
        BY <3>2, <4>2
      <4>4. Correct(g, s, base, pick, step)
        BY <2>1, <4>1
      <4> HIDE DEF h
      <4> QED
        BY <4>3, <4>4 DEF IsFold, Correct
    <3> QED
      BY <3>1, <3>2
  <2>5. Upto(h, k + 1)
    BY <2>4
  <2> HIDE DEF h, Upto
  <2> QED
    BY <2>3, <2>5
<1>6. Cardinality(S) \in Good
  <2> HIDE DEF Good
  <2>1. Cardinality(S) \in Nat
    BY <1>1
  <2>2. \A k \in Nat : k \in Good
    BY <1>4, <1>5, CountingInduction
  <2> QED
    BY <2>1, <2>2
<1>7. PICK iter \in [SUBSET S -> V] : Upto(iter, Cardinality(S))
  BY <1>6
<1> QED
  BY <1>1, <1>7 DEF IsFold

\* ... it is typed ...
LEMMA FoldType ==
    ASSUME NEW S, IsFiniteSet(S), NEW V, NEW base \in V,
           NEW pick, \A s \in SUBSET S : s # {} => pick[s] \in s,
           NEW step \in [S \X V -> V],
           NEW f, IsFold(f, S, base, pick, step)
    PROVE  \A s \in SUBSET S : f[s] \in V
<1> DEFINE Good == {s \in SUBSET S : f[s] \in V}
<1>1. {} \in Good
  BY DEF IsFold, Correct
<1>2. ASSUME NEW T \in SUBSET S, T # {}, \A x \in T : T \ {x} \in Good PROVE T \in Good
  <2>1. pick[T] \in S /\ f[T \ {pick[T]}] \in V
    BY <1>2
  <2>2. f[T] = step[<<pick[T], f[T \ {pick[T]}]>>]
    BY <1>2 DEF IsFold, Correct
  <2>3. <<pick[T], f[T \ {pick[T]}]>> \in S \X V
    BY <2>1
  <2> QED
    BY <2>2, <2>3
<1>3. \A s \in SUBSET S : s \in Good
  <2> HIDE DEF Good
  <2> QED
    BY <1>1, <1>2, SubsetInduction
<1> QED
  BY <1>3

\* ... and there is only one.
LEMMA FoldUnique ==
    ASSUME NEW S, IsFiniteSet(S), NEW base,
           NEW pick, \A s \in SUBSET S : s # {} => pick[s] \in s, NEW step,
           NEW f, IsFold(f, S, base, pick, step),
           NEW g, IsFold(g, S, base, pick, step)
    PROVE  f[S] = g[S]
<1> DEFINE Good == {s \in SUBSET S : f[s] = g[s]}
<1>1. {} \in Good
  BY DEF IsFold, Correct
<1>2. ASSUME NEW T \in SUBSET S, T # {}, \A x \in T : T \ {x} \in Good PROVE T \in Good
  <2>1. f[T \ {pick[T]}] = g[T \ {pick[T]}]
    BY <1>2
  <2>2. f[T] = step[<<pick[T], f[T \ {pick[T]}]>>] /\ g[T] = step[<<pick[T], g[T \ {pick[T]}]>>]
    BY <1>2 DEF IsFold, Correct
  <2> QED
    BY <2>1, <2>2
<1>3. \A s \in SUBSET S : s \in Good
  <2> HIDE DEF Good
  <2> QED
    BY <1>1, <1>2, SubsetInduction
<1> QED
  BY <1>3

-----------------------------------------------------------------------------
(* Sums.                                                                   *)

Chosen(S)    == [s \in SUBSET S |-> CHOOSE x \in s : TRUE]
Adding(f, S) == [t \in S \X Nat |-> f[t[1]] + t[2]]

\* SumFunctionOnSet is a fold.
LEMMA SumIsFold ==
    ASSUME NEW S, IsFiniteSet(S), NEW f, \A x \in S : f[x] \in Nat
    PROVE  \E iter : /\ IsFold(iter, S, 0, Chosen(S), Adding(f, S))
                    /\ SumFunctionOnSet(f, S) = iter[S]
<1> DEFINE Step(iter) == [s \in SUBSET S |->
                            IF s = {} THEN 0
                            ELSE f[CHOOSE x \in s : TRUE] + iter[s \ {CHOOSE x \in s : TRUE}]]
           Sum == CHOOSE iter : iter = Step(iter)
<1>1. /\ \A s \in SUBSET S : s # {} => Chosen(S)[s] \in s
      /\ Adding(f, S) \in [S \X Nat -> Nat]
  BY DEF Chosen, Adding
<1>2. PICK g \in [SUBSET S -> Nat] :
           IsFold(g, S, 0, Chosen(S), Adding(f, S))
  <2> HIDE DEF Step
  <2>1. 0 \in Nat
    OBVIOUS
  <2> QED
    BY <1>1, <2>1, FoldExists
<1>3. g = Step(g)
  <2>1. ASSUME NEW s \in SUBSET S
        PROVE  g[s] = IF s = {} THEN 0
                      ELSE f[CHOOSE x \in s : TRUE] + g[s \ {CHOOSE x \in s : TRUE}]
    <3>1. CASE s = {}
      BY <1>2, <3>1 DEF IsFold, Correct
    <3>2. CASE s # {}
      <4>1. PICK x : x = CHOOSE y \in s : TRUE
        OBVIOUS
      <4>2. Chosen(S)[s] = x /\ x \in s
        BY <3>2, <4>1 DEF Chosen
      <4>3. g[s] = Adding(f, S)[<<x, g[s \ {x}]>>]
        BY <1>2, <3>2, <4>2 DEF IsFold, Correct
      <4>4. x \in S /\ g[s \ {x}] \in Nat
        BY <1>2, <4>2
      <4>5. g[s] = f[x] + g[s \ {x}]
        BY <4>3, <4>4 DEF Adding
      <4> QED
        BY <3>2, <4>1, <4>5
    <3> QED
      BY <3>1, <3>2
  <2> QED
    BY <1>2, <2>1
<1>4. Sum = Step(Sum)
  <2> HIDE DEF Step
  <2> QED
    BY <1>3
<1>5. SumFunctionOnSet(f, S) = Sum[S]
  BY Zenon DEF SumFunctionOnSet, FoldFunctionOnSet, MapThenFoldSet
<1>6. \A s \in SUBSET S : Sum[s] = g[s]
  <2> DEFINE Good == {s \in SUBSET S : Sum[s] = g[s]}
  <2>1. ASSUME NEW s \in SUBSET S, \A x \in s : s \ {x} \in Good PROVE s \in Good
    <3> HIDE DEF Sum
    <3>1. Sum[s] = Step(Sum)[s] /\ g[s] = Step(g)[s]
      BY <1>3, <1>4
    <3>2. CASE s = {}
      BY <3>1, <3>2
    <3>3. CASE s # {}
      <4>1. PICK x \in s : x = CHOOSE y \in s : TRUE
        BY <3>3
      <4>2. Sum[s \ {x}] = g[s \ {x}]
        BY <2>1
      <4> QED
        BY <3>1, <3>3, <4>1, <4>2
    <3> QED
      BY <3>2, <3>3
  <2>2. {} \in Good
    BY <2>1
  <2>3. \A s \in SUBSET S : s \in Good
    <3> HIDE DEF Good
    <3> QED
      BY <2>1, <2>2, SubsetInduction
  <2> QED
    BY <2>3
<1> QED
  BY <1>2, <1>5, <1>6

\* A sum is a natural number, and a sum over no index is 0.
LEMMA SumType ==
    ASSUME NEW S, IsFiniteSet(S), NEW f, \A x \in S : f[x] \in Nat
    PROVE  SumFunctionOnSet(f, S) \in Nat
<1>1. PICK iter : /\ IsFold(iter, S, 0, Chosen(S), Adding(f, S))
                  /\ SumFunctionOnSet(f, S) = iter[S]
  BY SumIsFold
<1>2. /\ \A s \in SUBSET S : s # {} => Chosen(S)[s] \in s
      /\ Adding(f, S) \in [S \X Nat -> Nat]
  BY DEF Chosen, Adding
<1>3. PICK V : V = Nat
  OBVIOUS
<1>4. Adding(f, S) \in [S \X V -> V] /\ 0 \in V
  BY <1>2, <1>3
<1>5. \A s \in SUBSET S : iter[s] \in V
  BY <1>1, <1>2, <1>4, FoldType
<1> QED
  BY <1>1, <1>3, <1>5

LEMMA SumEmpty ==
    ASSUME NEW f
    PROVE  SumFunctionOnSet(f, {}) = 0
<1>1. IsFiniteSet({})
  BY FS_EmptySet
<1>2. PICK iter : /\ IsFold(iter, {}, 0, Chosen({}), Adding(f, {}))
                  /\ SumFunctionOnSet(f, {}) = iter[{}]
  BY <1>1, SumIsFold
<1> QED
  BY <1>2 DEF IsFold, Correct

\* Any index can be taken out of a sum.
LEMMA SumRemove ==
    ASSUME NEW S, IsFiniteSet(S), NEW f, \A y \in S : f[y] \in Nat, NEW x \in S
    PROVE  SumFunctionOnSet(f, S) = f[x] + SumFunctionOnSet(f, S \ {x})
<1> DEFINE Total(T) == SumFunctionOnSet(f, T)
<1>1. \A T \in SUBSET S : IsFiniteSet(T) /\ Total(T) \in Nat
  <2> SUFFICES ASSUME NEW T \in SUBSET S PROVE IsFiniteSet(T) /\ Total(T) \in Nat
    OBVIOUS
  <2>1. IsFiniteSet(T) /\ \A y \in T : f[y] \in Nat
    BY FS_Subset
  <2> QED
    BY <2>1, SumType
<1>2. PICK iter : /\ IsFold(iter, S, 0, Chosen(S), Adding(f, S))
                  /\ Total(S) = iter[S]
  BY SumIsFold
<1>3. ASSUME NEW T \in SUBSET S PROVE Total(T) = iter[T]
  <2>1. IsFiniteSet(T) /\ \A y \in T : f[y] \in Nat
    BY <1>1
  <2>2. PICK other : /\ IsFold(other, T, 0, Chosen(T), Adding(f, T))
                     /\ Total(T) = other[T]
    BY <2>1, SumIsFold
  <2>3. /\ \A s \in SUBSET T : s # {} => Chosen(T)[s] \in s
        /\ Adding(f, T) \in [T \X Nat -> Nat] /\ 0 \in Nat
    BY DEF Chosen, Adding
  <2>4. /\ \A s \in SUBSET S : s # {} => Chosen(S)[s] \in s
        /\ Adding(f, S) \in [S \X Nat -> Nat]
    BY DEF Chosen, Adding
  <2>5. \A s \in SUBSET S : iter[s] \in Nat
    <3>1. PICK V : V = Nat
      OBVIOUS
    <3>2. Adding(f, S) \in [S \X V -> V] /\ 0 \in V
      BY <2>4, <3>1
    <3>3. \A s \in SUBSET S : iter[s] \in V
      BY <1>2, <2>4, <3>2, FoldType
    <3> QED
      BY <3>1, <3>3
  <2>6. ASSUME NEW s \in SUBSET T PROVE Correct(iter, s, 0, Chosen(T), Adding(f, T))
    <3>1. Correct(iter, s, 0, Chosen(S), Adding(f, S))
      BY <1>2 DEF IsFold
    <3>2. CASE s = {}
      BY <3>1, <3>2 DEF IsFold, Correct
    <3>3. CASE s # {}
      <4>1. PICK c : c = Chosen(T)[s]
        OBVIOUS
      <4>2. c = Chosen(S)[s] /\ c \in T /\ iter[s \ {c}] \in Nat
        BY <2>3, <2>5, <3>3, <4>1 DEF Chosen
      <4>3. Adding(f, S)[<<c, iter[s \ {c}]>>] = Adding(f, T)[<<c, iter[s \ {c}]>>]
        BY <4>2 DEF Adding
      <4> QED
        BY <3>1, <3>3, <4>1, <4>2, <4>3 DEF IsFold, Correct
    <3> QED
      BY <3>2, <3>3
  <2>7. IsFold(iter, T, 0, Chosen(T), Adding(f, T))
    BY <2>6 DEF IsFold
  <2>8. iter[T] = other[T]
    BY <2>1, <2>2, <2>3, <2>7, FoldUnique
  <2> QED
    BY <2>2, <2>8
<1>4. ASSUME NEW T \in SUBSET S, T # {}
      PROVE  \E c \in T : Total(T) = f[c] + Total(T \ {c})
  <2>1. PICK c : c = Chosen(S)[T]
    OBVIOUS
  <2>2. c \in T
    BY <1>4, <2>1 DEF Chosen
  <2>3. Total(T) = iter[T] /\ Total(T \ {c}) = iter[T \ {c}] /\ iter[T \ {c}] \in Nat
    BY <1>1, <1>3
  <2>4. iter[T] = Adding(f, S)[<<c, iter[T \ {c}]>>]
    BY <1>2, <1>4, <2>1 DEF IsFold, Correct
  <2>5. Adding(f, S)[<<c, iter[T \ {c}]>>] = f[c] + iter[T \ {c}]
    BY <2>2, <2>3 DEF Adding
  <2> QED
    BY <2>2, <2>3, <2>4, <2>5
<1> DEFINE Good == {T \in SUBSET S : \A y \in T : Total(T) = f[y] + Total(T \ {y})}
<1> HIDE DEF Total
<1>5. ASSUME NEW T \in SUBSET S, T # {}, \A y \in T : T \ {y} \in Good PROVE T \in Good
  <2> SUFFICES ASSUME NEW y \in T PROVE Total(T) = f[y] + Total(T \ {y})
    OBVIOUS
  <2>1. PICK c \in T : Total(T) = f[c] + Total(T \ {c})
    BY <1>4, <1>5
  <2>2. CASE c = y
    BY <2>1, <2>2
  <2>3. CASE c # y
    <3>1. /\ Total(T \ {c}) = f[y] + Total((T \ {c}) \ {y})
          /\ Total(T \ {y}) = f[c] + Total((T \ {y}) \ {c})
      BY <1>5, <2>3
    <3>2. (T \ {c}) \ {y} = (T \ {y}) \ {c}
      OBVIOUS
    <3>3. PICK r \in Nat : r = Total((T \ {y}) \ {c})
      BY <1>1
    <3>4. /\ Total(T \ {c}) = f[y] + r /\ Total(T \ {y}) = f[c] + r
          /\ f[y] \in Nat /\ f[c] \in Nat
      BY <3>1, <3>2, <3>3
    <3> QED
      BY <2>1, <3>3, <3>4
  <2> QED
    BY <2>2, <2>3
<1>6. \A T \in SUBSET S : T \in Good
  <2>1. {} \in Good
    OBVIOUS
  <2> HIDE DEF Good
  <2> QED
    BY <1>5, <2>1, SubsetInduction
<1> QED
  BY <1>6 DEF Total

\* Functions that agree on the indices have the same sum.
LEMMA SumCongruence ==
    ASSUME NEW S, IsFiniteSet(S), NEW f, NEW g,
           \A x \in S : f[x] \in Nat /\ g[x] = f[x]
    PROVE  SumFunctionOnSet(g, S) = SumFunctionOnSet(f, S)
<1> DEFINE Good == {T \in SUBSET S : SumFunctionOnSet(g, T) = SumFunctionOnSet(f, T)}
<1>1. {} \in Good
  BY SumEmpty
<1>2. ASSUME NEW T \in SUBSET S, T # {}, \A y \in T : T \ {y} \in Good PROVE T \in Good
  <2>1. PICK y \in T : TRUE
    BY <1>2
  <2>2. IsFiniteSet(T) /\ (\A x \in T : f[x] \in Nat) /\ (\A x \in T : g[x] \in Nat)
    BY FS_Subset
  <2>3. SumFunctionOnSet(f, T) = f[y] + SumFunctionOnSet(f, T \ {y})
    BY <2>2, SumRemove
  <2>4. SumFunctionOnSet(g, T) = g[y] + SumFunctionOnSet(g, T \ {y})
    BY <2>2, SumRemove
  <2> QED
    BY <1>2, <2>3, <2>4
<1>3. \A T \in SUBSET S : T \in Good
  <2> HIDE DEF Good
  <2> QED
    BY <1>1, <1>2, SubsetInduction
<1> QED
  BY <1>3

\* The sum of a sum of functions; with g = 0 on T it also splits a sum in two.
LEMMA SumOfSum ==
    ASSUME NEW S, IsFiniteSet(S), NEW f, NEW g, NEW h,
           \A x \in S : f[x] \in Nat /\ g[x] \in Nat /\ h[x] = f[x] + g[x]
    PROVE  SumFunctionOnSet(h, S) = SumFunctionOnSet(f, S) + SumFunctionOnSet(g, S)
<1> DEFINE Good == {T \in SUBSET S :
              SumFunctionOnSet(h, T) = SumFunctionOnSet(f, T) + SumFunctionOnSet(g, T)}
<1>1. {} \in Good
  <2>1. SumFunctionOnSet(h, {}) = 0 /\ SumFunctionOnSet(f, {}) = 0 /\ SumFunctionOnSet(g, {}) = 0
    BY SumEmpty
  <2> QED
    BY <2>1
<1>2. ASSUME NEW T \in SUBSET S, T # {}, \A y \in T : T \ {y} \in Good PROVE T \in Good
  <2>1. PICK y \in T : TRUE
    BY <1>2
  <2>2. /\ IsFiniteSet(T) /\ (\A x \in T : f[x] \in Nat) /\ (\A x \in T : g[x] \in Nat)
        /\ \A x \in T : h[x] \in Nat
    BY FS_Subset
  <2>3. SumFunctionOnSet(f, T) = f[y] + SumFunctionOnSet(f, T \ {y})
    BY <2>2, SumRemove
  <2>4. SumFunctionOnSet(g, T) = g[y] + SumFunctionOnSet(g, T \ {y})
    BY <2>2, SumRemove
  <2>5. SumFunctionOnSet(h, T) = h[y] + SumFunctionOnSet(h, T \ {y})
    BY <2>2, SumRemove
  <2>6. /\ SumFunctionOnSet(f, T \ {y}) \in Nat /\ SumFunctionOnSet(g, T \ {y}) \in Nat
        /\ f[y] \in Nat /\ g[y] \in Nat /\ h[y] = f[y] + g[y]
    <3>1. /\ IsFiniteSet(T \ {y}) /\ (\A x \in T \ {y} : f[x] \in Nat)
          /\ (\A x \in T \ {y} : g[x] \in Nat)
      BY <2>2, FS_Subset
    <3> QED
      BY <3>1, SumType
  <2>7. SumFunctionOnSet(h, T \ {y}) =
          SumFunctionOnSet(f, T \ {y}) + SumFunctionOnSet(g, T \ {y})
    BY <1>2
  <2> QED
    BY <2>3, <2>4, <2>5, <2>6, <2>7
<1>3. \A T \in SUBSET S : T \in Good
  <2> HIDE DEF Good
  <2> QED
    BY <1>1, <1>2, SubsetInduction
<1> QED
  BY <1>3

\* Indices that contribute nothing may be left out.
LEMMA SumSupport ==
    ASSUME NEW S, IsFiniteSet(S), NEW f, \A x \in S : f[x] \in Nat,
           NEW T \in SUBSET S, \A x \in S \ T : f[x] = 0
    PROVE  SumFunctionOnSet(f, S) = SumFunctionOnSet(f, T)
<1> DEFINE Good == {U \in SUBSET (S \ T) :
                      SumFunctionOnSet(f, T \cup U) = SumFunctionOnSet(f, T)}
<1>1. {} \in Good
  <2>1. T \cup {} = T
    OBVIOUS
  <2> QED
    BY <2>1
<1>2. ASSUME NEW U \in SUBSET (S \ T), U # {}, \A y \in U : U \ {y} \in Good PROVE U \in Good
  <2>1. PICK y \in U : TRUE
    BY <1>2
  <2>2. IsFiniteSet(T \cup U) /\ \A x \in T \cup U : f[x] \in Nat
    <3>1. (T \cup U) \subseteq S
      OBVIOUS
    <3> QED
      BY <3>1, FS_Subset
  <2>3. SumFunctionOnSet(f, T \cup U) = f[y] + SumFunctionOnSet(f, (T \cup U) \ {y})
    BY <2>2, SumRemove
  <2>4. (T \cup U) \ {y} = T \cup (U \ {y}) /\ f[y] = 0
    OBVIOUS
  <2>5. SumFunctionOnSet(f, T \cup (U \ {y})) = SumFunctionOnSet(f, T)
    BY <1>2
  <2>6. SumFunctionOnSet(f, T) \in Nat
    <3>1. IsFiniteSet(T) /\ \A x \in T : f[x] \in Nat
      BY FS_Subset
    <3> QED
      BY <3>1, SumType
  <2>7. SumFunctionOnSet(f, T \cup U) = 0 + SumFunctionOnSet(f, T)
    BY <2>3, <2>4, <2>5
  <2>8. SumFunctionOnSet(f, T \cup U) = SumFunctionOnSet(f, T)
    BY <2>6, <2>7
  <2> QED
    BY <2>8
<1>3. S \ T \in Good
  <2>1. IsFiniteSet(S \ T)
    BY FS_Subset
  <2>2. \A U \in SUBSET (S \ T) : U \in Good
    <3> HIDE DEF Good
    <3> QED
      BY <1>1, <1>2, <2>1, SubsetInduction
  <2> QED
    BY <2>2
<1>4. T \cup (S \ T) = S
  OBVIOUS
<1> QED
  BY <1>3, <1>4

\* A sum of zeros is zero.
LEMMA SumZero ==
    ASSUME NEW S, IsFiniteSet(S), NEW f, \A x \in S : f[x] = 0
    PROVE  SumFunctionOnSet(f, S) = 0
<1>1. {} \in SUBSET S /\ (\A x \in S \ {} : f[x] = 0) /\ \A x \in S : f[x] \in Nat
  OBVIOUS
<1>2. SumFunctionOnSet(f, S) = SumFunctionOnSet(f, {})
  BY <1>1, SumSupport
<1> QED
  BY <1>2, SumEmpty

-----------------------------------------------------------------------------
(* The operators of PaymentLedger.                                         *)

\* A finite set of numbers has a greatest member.
LEMMA MaxIsMember ==
    ASSUME NEW S, S \subseteq Int, IsFiniteSet(S), S # {}
    PROVE  Max(S) \in S /\ \A y \in S : Max(S) >= y
<1> DEFINE Good == {T \in SUBSET S : T # {} => \E x \in T : \A y \in T : x >= y}
<1>1. {} \in Good
  OBVIOUS
<1>2. ASSUME NEW T \in SUBSET S, T # {}, \A y \in T : T \ {y} \in Good PROVE T \in Good
  <2>1. PICK z \in T : TRUE
    BY <1>2
  <2>2. CASE T \ {z} = {}
    <3>1. \A y \in T : z >= y
      BY <2>2
    <3> QED
      BY <3>1
  <2>3. CASE T \ {z} # {}
    <3>1. PICK x \in T \ {z} : \A y \in T \ {z} : x >= y
      BY <1>2, <2>3
    <3>2. CASE x >= z
      <4>1. \A y \in T : x >= y
        BY <3>1, <3>2
      <4> QED
        BY <4>1
    <3>3. CASE ~(x >= z)
      <4>1. \A y \in T : z >= y
        BY <3>1, <3>3
      <4> QED
        BY <4>1
    <3> QED
      BY <3>2, <3>3
  <2> QED
    BY <2>2, <2>3
<1>3. S \in Good
  <2> HIDE DEF Good
  <2> QED
    BY <1>1, <1>2, SubsetInduction
<1> QED
  BY <1>3 DEF Max

\* There are finitely many assessments, and every one asks for something.
LEMMA DuesFacts ==
    /\ IsFiniteSet(Dues) /\ Dues \subseteq Nat \ {0} /\ Amount \in [Dues -> Nat \ {0}]
    /\ \A T \in SUBSET Dues : IsFiniteSet(T)
<1>1. Len(Amount) \in Nat /\ Amount \in [Dues -> Nat \ {0}] /\ Dues = 1..Len(Amount)
  BY LedgerConstants
<1>2. IsFiniteSet(Dues)
  BY <1>1, FS_Interval
<1>3. \A T \in SUBSET Dues : IsFiniteSet(T)
  BY <1>2, FS_Subset
<1>4. Dues \subseteq Nat \ {0}
  BY <1>1
<1> QED
  BY <1>1, <1>2, <1>3, <1>4

\* Fifo gives every member a natural number, up to what it can take.
LEMMA FifoType ==
    ASSUME NEW cap, NEW total \in Int, DOMAIN cap \subseteq Int, IsFiniteSet(DOMAIN cap),
           \A i \in DOMAIN cap : cap[i] \in Nat
    PROVE  /\ DOMAIN Fifo(cap, total) = DOMAIN cap
           /\ \A i \in DOMAIN cap : Fifo(cap, total)[i] \in 0..cap[i]
<1>1. ASSUME NEW i \in DOMAIN cap PROVE Fifo(cap, total)[i] \in 0..cap[i]
  <2>1. PICK T : T = {j \in DOMAIN cap : j < i}
    OBVIOUS
  <2>2. IsFiniteSet(T) /\ \A j \in T : cap[j] \in Nat
    BY <2>1, FS_Subset
  <2>3. PICK before \in Nat : before = SumFunctionOnSet(cap, T)
    BY <2>2, SumType
  <2>4. Fifo(cap, total)[i] = Min2(cap[i], Max2(0, total - before))
    BY <2>1, <2>3 DEF Fifo
  <2> QED
    BY <2>4 DEF Min2, Max2
<1> QED
  BY <1>1 DEF Fifo

\* Nothing to give, nothing taken.
LEMMA FifoNothing ==
    ASSUME NEW cap, DOMAIN cap \subseteq Int, IsFiniteSet(DOMAIN cap),
           \A i \in DOMAIN cap : cap[i] \in Nat
    PROVE  \A i \in DOMAIN cap : Fifo(cap, 0)[i] = 0
<1> SUFFICES ASSUME NEW i \in DOMAIN cap PROVE Fifo(cap, 0)[i] = 0
  OBVIOUS
<1>1. PICK T : T = {j \in DOMAIN cap : j < i}
  OBVIOUS
<1>2. IsFiniteSet(T) /\ \A j \in T : cap[j] \in Nat
  BY <1>1, FS_Subset
<1>3. PICK before \in Nat : before = SumFunctionOnSet(cap, T)
  BY <1>2, SumType
<1>4. Fifo(cap, 0)[i] = Min2(cap[i], Max2(0, 0 - before))
  BY <1>1, <1>3 DEF Fifo
<1> QED
  BY <1>4 DEF Min2, Max2

\* SetToSeq lists the members of a finite set, each once.
LEMMA SetToSeqLists ==
    ASSUME NEW S, IsFiniteSet(S)
    PROVE  /\ SetToSeq(S) \in [1..Cardinality(S) -> S]
           /\ IsInjective(SetToSeq(S))
           /\ \A x \in S : \E i \in 1..Cardinality(S) : SetToSeq(S)[i] = x
<1>1. PICK n \in Nat : ExistsBijection(1..n, S) /\ Cardinality(S) = n
  BY FS_CardinalityType
<1>2. PICK f : f \in Bijection(1..n, S)
  BY <1>1 DEF ExistsBijection
<1>3. f \in [1..n -> S] /\ IsInjective(f)
  BY <1>2 DEF Bijection, Injection, IsInjective
<1>4. PICK g : g = SetToSeq(S) /\ g \in [1..n -> S] /\ IsInjective(g)
  <2>1. PICK h : h = CHOOSE x \in [1..n -> S] : IsInjective(x)
    OBVIOUS
  <2>2. h \in [1..n -> S] /\ IsInjective(h)
    BY <1>3, <2>1
  <2>3. h = SetToSeq(S)
    BY <1>1, <2>1, Zenon DEF SetToSeq
  <2> QED
    BY <2>2, <2>3
<1>5. g \in Injection(1..n, S)
  BY <1>4 DEF Injection, IsInjective
<1>6. IsFiniteSet(1..n) /\ Cardinality(1..n) = n
  BY FS_Interval
<1>7. g \in Surjection(1..n, S)
  BY <1>1, <1>5, <1>6, FS_Injection
<1>8. \A x \in S : \E i \in 1..n : g[i] = x
  BY <1>7 DEF Surjection
<1> QED
  BY <1>1, <1>4, <1>8

\* What every spending of credit keeps, spending all of it keeps.
LEMMA SpendAllKeeps ==
    ASSUME NEW V, NEW book \in V, NEW n, NEW payer,
           DOMAIN n \subseteq Int, IsFiniteSet(DOMAIN n),
           \A b \in V, a \in DOMAIN n : Spend(b, a, n[a], payer) \in V
    PROVE  SpendAll(book, n, payer) \in V
<1> DEFINE S == DOMAIN n
           Step(iter) == [s \in SUBSET S |->
                            IF s = {} THEN book
                            ELSE Spend(iter[s \ {Max(s)}], Max(s), n[Max(s)], payer)]
           Total == CHOOSE iter : iter = Step(iter)
           pick == [s \in SUBSET S |-> Max(s)]
           step == [t \in S \X V |-> Spend(t[2], t[1], n[t[1]], payer)]
<1>1. \A s \in SUBSET S : s # {} => Max(s) \in s
  <2> SUFFICES ASSUME NEW s \in SUBSET S, s # {} PROVE Max(s) \in s
    OBVIOUS
  <2>1. s \subseteq Int /\ IsFiniteSet(s)
    BY FS_Subset
  <2> QED
    BY <2>1, MaxIsMember
<1>2. \A s \in SUBSET S : s # {} => pick[s] \in s
  BY <1>1
<1>3. step \in [S \X V -> V]
  OBVIOUS
<1>4. PICK g \in [SUBSET S -> V] : IsFold(g, S, book, pick, step)
  <2> HIDE DEF pick, step, S
  <2>1. IsFiniteSet(S)
    BY DEF S
  <2> QED
    BY <1>2, <1>3, <2>1, FoldExists
<1>5. ASSUME NEW s \in SUBSET S, s # {}
      PROVE  g[s] = Spend(g[s \ {Max(s)}], Max(s), n[Max(s)], payer)
  <2>1. PICK x \in s : x = Max(s)
    BY <1>1, <1>5
  <2>2. g[s] = step[<<x, g[s \ {x}]>>]
    BY <1>4, <1>5, <2>1 DEF IsFold, Correct
  <2>3. <<x, g[s \ {x}]>> \in S \X V
    BY <1>4
  <2> QED
    BY <2>1, <2>2, <2>3
<1>6. g = Step(g)
  <2>1. \A s \in SUBSET S : s = {} => g[s] = book
    BY <1>4 DEF IsFold, Correct
  <2> QED
    BY <1>4, <1>5, <2>1
<1>7. Total = Step(Total)
  <2> HIDE DEF Step
  <2> QED
    BY <1>6, Zenon
<1>8. SpendAll(book, n, payer) = Total[S]
  BY Zenon DEF SpendAll, MapThenFoldSet
<1> DEFINE Good == {s \in SUBSET S : Total[s] \in V}
<1>9. S \in Good
  <2>1. {} \in Good
    <3> HIDE DEF Total
    <3> QED
      BY <1>7
  <2>2. ASSUME NEW s \in SUBSET S, s # {}, \A x \in s : s \ {x} \in Good PROVE s \in Good
    <3> HIDE DEF Total
    <3>1. PICK x \in s : x = Max(s)
      BY <1>1, <2>2
    <3>2. Total[s] = Spend(Total[s \ {x}], x, n[x], payer)
      BY <1>7, <2>2, <3>1
    <3>3. Total[s \ {x}] \in V /\ x \in DOMAIN n
      BY <2>2
    <3> QED
      BY <3>2, <3>3
  <2> HIDE DEF Good
  <2>3. IsFiniteSet(S)
    OBVIOUS
  <2>4. S \in SUBSET S
    OBVIOUS
  <2> HIDE DEF S
  <2> QED
    BY <2>1, <2>2, <2>3, <2>4, SubsetInduction
<1> QED
  BY <1>8, <1>9

-----------------------------------------------------------------------------
(* Books: the allocations, credits and applications a request works on.    *)

PayRow    == [kind : PayKind, amount : Nat, status : PayStatus, deleted : BOOLEAN]
CreditRow == [source : PaymentIds, balance : Nat, granted : Nat]
UseRow    == [credit : 1..MaxCredits, due : Dues, amount : Nat,
              payer : PaymentIds \cup {NoOne}, live : BOOLEAN]

\* A row that counts is worth something, and an application is one of a
\* credit that exists.
Books ==
    {b \in [alloc : [PaymentIds \X Dues -> Row], credit : Seq(CreditRow), used : Seq(UseRow)] :
        /\ \A k \in PaymentIds \X Dues : b.alloc[k].live => b.alloc[k].amount > 0
        /\ Len(b.credit) <= MaxCredits
        /\ \A u \in 1..Len(b.used) : b.used[u].credit \in 1..Len(b.credit)}

LEMMA ConstantFacts ==
    /\ MaxPayments \in Nat /\ MaxCredits \in Nat /\ MaxUses \in Nat
    /\ PaymentIds = 1..MaxPayments /\ CreditAmounts \subseteq Nat
    /\ IsFiniteSet(PaymentIds)
<1>1. MaxPayments \in Nat /\ MaxCredits \in Nat /\ MaxUses \in Nat
  BY LedgerConstants
<1>2. IsFiniteSet(1..MaxPayments)
  BY <1>1, FS_Interval
<1> QED
  BY <1>1, <1>2, LedgerConstants DEF PaymentIds

\* The applications of one spending: one of each credit that gives something.
Records(new, take, m, a, payer) ==
    /\ new \in Seq(UseRow)
    /\ \A i \in 1..Len(new) :
          /\ new[i].credit \in 1..m /\ new[i].amount = take[new[i].credit] /\ new[i].amount > 0
          /\ new[i].due = a /\ new[i].payer = payer /\ new[i].live
    /\ \A i, j \in 1..Len(new) : new[i].credit = new[j].credit => i = j
    /\ \A c \in 1..m : take[c] > 0 => \E i \in 1..Len(new) : new[i].credit = c

LEMMA ApplicationsShape ==
    ASSUME NEW m \in Nat, m <= MaxCredits, NEW take \in [1..m -> Nat], NEW a \in Dues,
           NEW payer \in PaymentIds \cup {NoOne}, NEW new, new = Applications(take, a, payer)
    PROVE  Records(new, take, m, a, payer)
<1> DEFINE H == {c \in DOMAIN take : take[c] > 0}
<1>1. IsFiniteSet(H)
  <2>1. IsFiniteSet(1..m)
    BY FS_Interval
  <2> QED
    BY <2>1, FS_Subset
<1>2. PICK N \in Nat, hits \in Seq(H) :
           /\ hits = SetToSeq(H) /\ hits \in [1..N -> H] /\ IsInjective(hits)
           /\ \A c \in H : \E i \in 1..N : hits[i] = c
  <2>1. Cardinality(H) \in Nat
    BY <1>1, FS_CardinalityType
  <2> HIDE DEF H
  <2>2. /\ SetToSeq(H) \in [1..Cardinality(H) -> H] /\ IsInjective(SetToSeq(H))
        /\ \A c \in H : \E i \in 1..Cardinality(H) : SetToSeq(H)[i] = c
    BY <1>1, SetToSeqLists
  <2>3. PICK n \in Nat : n = Cardinality(H)
    BY <2>1
  <2>4. SetToSeq(H) \in [1..n -> H]
    BY <2>2, <2>3
  <2>5. SetToSeq(H) \in Seq(H)
    BY <2>4
  <2> QED
    BY <2>2, <2>3, <2>4, <2>5
<1>3. PICK rows : rows = [k \in 1..N |-> [credit |-> hits[k], due |-> a, amount |-> take[hits[k]],
                                          payer |-> payer, live |-> TRUE]]
  OBVIOUS
<1>4. Applications(take, a, payer) = rows
  <2>1. DOMAIN hits = 1..N
    BY <1>2
  <2> QED
    BY <1>2, <1>3, <2>1, Zenon DEF Applications
<1>5. \A k \in 1..N : hits[k] \in 1..m /\ take[hits[k]] > 0 /\ take[hits[k]] \in Nat
  BY <1>2
<1>6. \A k \in 1..N : rows[k] \in UseRow
  BY <1>3, <1>5, ConstantFacts DEF UseRow
<1>7. rows \in Seq(UseRow) /\ Len(rows) = N
  BY <1>3, <1>6
<1>8. \A i, j \in 1..N : rows[i].credit = rows[j].credit => i = j
  BY <1>2, <1>3 DEF IsInjective
<1>9. \A i \in 1..N : /\ rows[i].credit \in 1..m /\ rows[i].amount = take[rows[i].credit]
                      /\ rows[i].amount > 0
                      /\ rows[i].due = a /\ rows[i].payer = payer /\ rows[i].live
  BY <1>3, <1>5
<1>10. \A c \in 1..m : take[c] > 0 => \E i \in 1..N : rows[i].credit = c
  <2> SUFFICES ASSUME NEW c \in 1..m, take[c] > 0 PROVE \E i \in 1..N : rows[i].credit = c
    OBVIOUS
  <2>1. PICK i \in 1..N : hits[i] = c
    BY <1>2
  <2>2. rows[i].credit = c
    BY <1>3, <2>1
  <2> QED
    BY <2>2
<1>11. \A c \in 1..m : take[c] > 0 => \E i \in 1..Len(rows) : rows[i].credit = c
  BY <1>7, <1>10
<1>12. /\ rows \in Seq(UseRow)
       /\ \A i \in 1..Len(rows) :
             /\ rows[i].credit \in 1..m /\ rows[i].amount = take[rows[i].credit]
             /\ rows[i].amount > 0
             /\ rows[i].due = a /\ rows[i].payer = payer /\ rows[i].live
       /\ \A i, j \in 1..Len(rows) : rows[i].credit = rows[j].credit => i = j
  BY <1>7, <1>8, <1>9
<1> QED
  BY <1>4, <1>11, <1>12 DEF Records

\* One spending, opened up: what each credit gives, the applications that
\* record it, and the books that result.
Takes(book, take) ==
    /\ take \in [1..Len(book.credit) -> Nat]
    /\ \A c \in 1..Len(book.credit) : take[c] <= book.credit[c].balance

Backed(book, take, p) ==
    SumFunctionOnSet(take, {c \in 1..Len(book.credit) : book.credit[c].source = p})

OpenedUp(book, a, n, payer, take, new) ==
    /\ Takes(book, take) /\ Records(new, take, Len(book.credit), a, payer)
    /\ take = Fifo([c \in 1..Len(book.credit) |-> book.credit[c].balance], n)
    /\ \A p \in PaymentIds : Backed(book, take, p) \in Nat
    /\ Spend(book, a, n, payer) =
         [alloc  |-> [k \in PaymentIds \X Dues |->
                        IF k[2] = a THEN TopUp(book.alloc[k], Backed(book, take, k[1]))
                        ELSE book.alloc[k]],
          credit |-> [c \in 1..Len(book.credit) |->
                        [book.credit[c] EXCEPT !.balance = @ - take[c]]],
          used   |-> book.used \o new]

LEMMA SpendShape ==
    ASSUME NEW book \in Books, NEW a \in Dues, NEW n \in Nat, NEW payer \in PaymentIds \cup {NoOne}
    PROVE  \E take, new : OpenedUp(book, a, n, payer, take, new)
<1>1. PICK m \in Nat : m = Len(book.credit) /\ m <= MaxCredits
  BY DEF Books
<1>2. PICK cap : cap = [c \in 1..m |-> book.credit[c].balance]
  OBVIOUS
<1>3. DOMAIN cap = 1..m /\ \A c \in 1..m : cap[c] = book.credit[c].balance /\ cap[c] \in Nat
  <2>1. book.credit \in Seq(CreditRow)
    BY DEF Books
  <2>2. \A c \in 1..m : book.credit[c] \in CreditRow
    BY <1>1, <2>1
  <2>3. \A c \in 1..m : book.credit[c].balance \in Nat
    BY <2>2 DEF CreditRow
  <2> QED
    BY <1>2, <2>3
<1>4. IsFiniteSet(1..m)
  BY <1>1, FS_Interval
<1>5. PICK take : take = Fifo(cap, n)
  OBVIOUS
<1>6. DOMAIN take = 1..m /\ \A c \in 1..m : take[c] \in 0..cap[c]
  BY <1>3, <1>4, <1>5, FifoType
<1>7. take \in [1..m -> Nat]
  <2>1. take = [c \in 1..m |-> take[c]]
    BY <1>5, <1>6, <1>3 DEF Fifo
  <2>2. \A c \in 1..m : take[c] \in Nat
    BY <1>3, <1>6
  <2> QED
    BY <2>1, <2>2
<1>8. Takes(book, take)
  <2>1. \A c \in 1..m : take[c] <= book.credit[c].balance
    BY <1>3, <1>6
  <2> QED
    BY <1>1, <1>7, <2>1 DEF Takes
<1>9. PICK new : new = Applications(take, a, payer)
  OBVIOUS
<1>10. Records(new, take, m, a, payer)
  BY <1>1, <1>7, <1>9, ApplicationsShape
<1>11. ASSUME NEW p \in PaymentIds PROVE Backed(book, take, p) \in Nat
  <2>1. PICK T : T = {c \in 1..Len(book.credit) : book.credit[c].source = p}
    OBVIOUS
  <2>2. IsFiniteSet(T) /\ \A c \in T : take[c] \in Nat
    BY <1>1, <1>4, <1>7, <2>1, FS_Subset
  <2> QED
    BY <2>1, <2>2, SumType DEF Backed
<1>12. /\ DOMAIN book.credit = 1..m /\ DOMAIN book.alloc = PaymentIds \X Dues /\ DOMAIN take = 1..m
  BY <1>1, <1>7 DEF Books
<1>13. Spend(book, a, n, payer) =
         [alloc  |-> [k \in PaymentIds \X Dues |->
                        IF k[2] = a THEN TopUp(book.alloc[k], Backed(book, take, k[1]))
                        ELSE book.alloc[k]],
          credit |-> [c \in 1..m |-> [book.credit[c] EXCEPT !.balance = @ - take[c]]],
          used   |-> book.used \o new]
  BY <1>1, <1>2, <1>5, <1>9, <1>12, Zenon DEF Spend, Backed
<1> QED
  BY <1>1, <1>2, <1>5, <1>8, <1>10, <1>11, <1>13 DEF OpenedUp

\* A row stays a row, counts only if it is worth something, and is as it was
\* when nothing is added.
LEMMA TopUpType ==
    ASSUME NEW row \in Row, row.live => row.amount > 0, NEW n \in Nat
    PROVE  /\ TopUp(row, n) \in Row
           /\ TopUp(row, n).live => TopUp(row, n).amount > 0
           /\ n = 0 => TopUp(row, n) = row
<1>1. row.amount \in Nat /\ row.live \in BOOLEAN /\ row = [amount |-> row.amount, live |-> row.live]
  BY DEF Row
<1>2. CASE row.amount = 0
  <2>1. CASE n > 0
    <3>1. TopUp(row, n) = [amount |-> n, live |-> TRUE]
      <4>1. (n > 0) = TRUE /\ row.amount + n = n
        BY <1>1, <1>2, <2>1
      <4> QED
        BY <1>2, <4>1, Zenon DEF TopUp
    <3> QED
      BY <2>1, <3>1 DEF Row
  <2>2. CASE n = 0
    <3>1. TopUp(row, n) = [amount |-> 0, live |-> FALSE]
      <4>1. (n > 0) = FALSE /\ row.amount + n = 0
        BY <1>1, <1>2, <2>2
      <4> QED
        BY <1>2, <4>1, Zenon DEF TopUp
    <3>2. row.live = FALSE
      BY <1>1, <1>2
    <3> QED
      BY <1>1, <1>2, <2>2, <3>1, <3>2 DEF Row
  <2> QED
    BY <2>1, <2>2
<1>3. CASE row.amount # 0
  <2>1. TopUp(row, n) = [amount |-> row.amount + n, live |-> row.live]
    BY <1>3 DEF TopUp
  <2>2. n = 0 => TopUp(row, n) = row
    BY <1>1, <2>1
  <2> QED
    BY <1>1, <1>3, <2>1, <2>2 DEF Row
<1> QED
  BY <1>2, <1>3

\* What spending credit on the assessments D on behalf of payer does to books.
SpentFrom(old, b, D, payer) ==
    /\ b \in Books
    /\ Len(b.credit) = Len(old.credit)
    /\ \A c \in 1..Len(old.credit) : /\ b.credit[c].source = old.credit[c].source
                                     /\ b.credit[c].granted = old.credit[c].granted
    /\ Len(b.used) >= Len(old.used)
    /\ \A u \in 1..Len(old.used) : b.used[u] = old.used[u]
    /\ \A u \in (Len(old.used) + 1)..Len(b.used) :
          b.used[u].payer = payer /\ b.used[u].due \in D /\ b.used[u].live
    /\ \A k \in PaymentIds \X Dues :
          \/ b.alloc[k] = old.alloc[k]
          \/ k[2] \in D /\ \E c \in 1..Len(old.credit) : old.credit[c].source = k[1]

LEMMA SpendIsSpending ==
    ASSUME NEW old \in Books, NEW D \in SUBSET Dues, NEW payer \in PaymentIds \cup {NoOne},
           NEW book, SpentFrom(old, book, D, payer), NEW a \in D, NEW n \in Nat
    PROVE  SpentFrom(old, Spend(book, a, n, payer), D, payer)
<1>1. book \in Books
  BY DEF SpentFrom
<1>2. PICK take, new : OpenedUp(book, a, n, payer, take, new)
  <2>1. a \in Dues
    OBVIOUS
  <2> QED
    BY <1>1, <2>1, SpendShape
<1>3. PICK m \in Nat : m = Len(book.credit) /\ m = Len(old.credit) /\ m <= MaxCredits
  BY <1>1 DEF Books, SpentFrom
<1>4. PICK A : A = [k \in PaymentIds \X Dues |->
                      IF k[2] = a THEN TopUp(book.alloc[k], Backed(book, take, k[1]))
                      ELSE book.alloc[k]]
  OBVIOUS
<1>5. PICK C : C = [c \in 1..m |-> [book.credit[c] EXCEPT !.balance = @ - take[c]]]
  OBVIOUS
<1>6. PICK U : U = book.used \o new
  OBVIOUS
<1>7. Spend(book, a, n, payer) = [alloc |-> A, credit |-> C, used |-> U]
  BY <1>2, <1>3, <1>4, <1>5, <1>6 DEF OpenedUp
<1>8. ASSUME NEW k \in PaymentIds \X Dues
      PROVE  /\ A[k] \in Row /\ (A[k].live => A[k].amount > 0)
             /\ \/ A[k] = old.alloc[k]
                \/ k[2] \in D /\ \E c \in 1..m : old.credit[c].source = k[1]
  <2>1. book.alloc[k] \in Row /\ (book.alloc[k].live => book.alloc[k].amount > 0)
    BY <1>1 DEF Books
  <2>2. \/ book.alloc[k] = old.alloc[k]
        \/ k[2] \in D /\ \E c \in 1..m : old.credit[c].source = k[1]
    BY <1>3 DEF SpentFrom
  <2>3. CASE k[2] = a
    <3>1. PICK b \in Nat : b = Backed(book, take, k[1])
      BY <1>2 DEF OpenedUp
    <3>2. A[k] = TopUp(book.alloc[k], b)
      BY <1>4, <2>3, <3>1
    <3>3. b = 0 => A[k] = book.alloc[k]
      BY <2>1, <3>2, TopUpType
    <3>4. CASE \E c \in 1..m : book.credit[c].source = k[1]
      <4>1. \E c \in 1..m : old.credit[c].source = k[1]
        BY <1>3, <3>4 DEF SpentFrom
      <4> QED
        BY <2>1, <2>3, <3>2, <4>1, TopUpType
    <3>5. CASE ~ \E c \in 1..m : book.credit[c].source = k[1]
      <4>1. {c \in 1..Len(book.credit) : book.credit[c].source = k[1]} = {}
        BY <1>3, <3>5
      <4>2. b = 0
        BY <3>1, <4>1, SumEmpty DEF Backed
      <4> QED
        BY <2>1, <2>2, <3>3, <4>2
    <3> QED
      BY <3>4, <3>5
  <2>4. CASE k[2] # a
    <3>1. A[k] = book.alloc[k]
      BY <1>4, <2>4
    <3> QED
      BY <2>1, <2>2, <3>1
  <2> QED
    BY <2>3, <2>4
<1>9. A \in [PaymentIds \X Dues -> Row]
  BY <1>4, <1>8
<1>10. ASSUME NEW c \in 1..m
       PROVE  /\ C[c] \in CreditRow /\ C[c].source = old.credit[c].source
              /\ C[c].granted = old.credit[c].granted
  <2>1. book.credit[c] \in CreditRow
    <3>1. book.credit \in Seq(CreditRow)
      BY <1>1 DEF Books
    <3>2. \A i \in 1..Len(book.credit) : book.credit[i] \in CreditRow
      BY <3>1
    <3>3. c \in 1..Len(book.credit)
      BY <1>3
    <3> QED
      BY <3>2, <3>3
  <2>2. take[c] \in Nat /\ take[c] <= book.credit[c].balance
    BY <1>2, <1>3 DEF OpenedUp, Takes
  <2>3. C[c] = [book.credit[c] EXCEPT !.balance = book.credit[c].balance - take[c]]
    BY <1>5
  <2>4. book.credit[c].source = old.credit[c].source /\ book.credit[c].granted = old.credit[c].granted
    BY <1>3 DEF SpentFrom
  <2> QED
    BY <2>1, <2>2, <2>3, <2>4 DEF CreditRow
<1>11. C \in Seq(CreditRow) /\ Len(C) = m
  <2>1. C \in [1..m -> CreditRow]
    BY <1>5, <1>10
  <2> QED
    BY <2>1
<1>12. new \in Seq(UseRow) /\ book.used \in Seq(UseRow) /\ old.used \in Seq(UseRow)
  BY <1>1, <1>2 DEF OpenedUp, Records, Books
<1>13. U \in Seq(UseRow) /\ Len(U) = Len(book.used) + Len(new) /\ Len(book.used) \in Nat /\ Len(new) \in Nat
  BY <1>6, <1>12
<1>14. \A u \in 1..Len(book.used) : U[u] = book.used[u]
  BY <1>6, <1>12
<1>15. \A u \in (Len(book.used) + 1)..Len(U) :
          u - Len(book.used) \in 1..Len(new) /\ U[u] = new[u - Len(book.used)]
  BY <1>6, <1>12, <1>13
<1>16. \A u \in 1..Len(U) : U[u].credit \in 1..m
  <2> SUFFICES ASSUME NEW u \in 1..Len(U) PROVE U[u].credit \in 1..m
    OBVIOUS
  <2>1. CASE u \in 1..Len(book.used)
    BY <1>1, <1>3, <1>14, <2>1 DEF Books
  <2>2. CASE u \notin 1..Len(book.used)
    <3>1. u \in (Len(book.used) + 1)..Len(U)
      BY <1>13, <2>2
    <3> QED
      BY <1>2, <1>3, <1>15, <3>1 DEF OpenedUp, Records
  <2> QED
    BY <2>1, <2>2
<1>17. PICK r : r = Spend(book, a, n, payer)
  OBVIOUS
<1>18. r.alloc = A /\ r.credit = C /\ r.used = U /\ r = [alloc |-> A, credit |-> C, used |-> U]
  BY <1>7, <1>17
<1>19. r \in Books
  <2>1. \A k \in PaymentIds \X Dues : A[k].live => A[k].amount > 0
    BY <1>8
  <2> QED
    BY <1>3, <1>9, <1>11, <1>13, <1>16, <1>18, <2>1 DEF Books
<1>20. \A u \in 1..Len(old.used) : U[u] = old.used[u]
  BY <1>12, <1>14 DEF SpentFrom
<1>21. ASSUME NEW u \in (Len(old.used) + 1)..Len(U)
       PROVE  U[u].payer = payer /\ U[u].due \in D /\ U[u].live
  <2>1. Len(book.used) >= Len(old.used) /\ Len(old.used) \in Nat
    BY <1>12 DEF SpentFrom
  <2>2. CASE u \in 1..Len(book.used)
    <3>1. u \in (Len(old.used) + 1)..Len(book.used)
      BY <1>13, <2>1, <2>2
    <3> QED
      BY <1>14, <2>2, <3>1 DEF SpentFrom
  <2>3. CASE u \notin 1..Len(book.used)
    <3>1. u \in (Len(book.used) + 1)..Len(U)
      BY <1>13, <2>1, <2>3
    <3>2. PICK i \in 1..Len(new) : U[u] = new[i]
      BY <1>15, <3>1
    <3> QED
      BY <1>2, <3>2 DEF OpenedUp, Records
  <2> QED
    BY <2>2, <2>3
<1>22. Len(U) >= Len(old.used)
  BY <1>12, <1>13 DEF SpentFrom
<1>23. SpentFrom(old, r, D, payer)
  BY <1>3, <1>8, <1>10, <1>11, <1>18, <1>19, <1>20, <1>21, <1>22 DEF SpentFrom
<1> QED
  BY <1>17, <1>23

LEMMA SpendAllIsSpending ==
    ASSUME NEW old \in Books, NEW n, DOMAIN n \subseteq Dues, \A a \in DOMAIN n : n[a] \in Nat,
           NEW payer \in PaymentIds \cup {NoOne}
    PROVE  SpentFrom(old, SpendAll(old, n, payer), DOMAIN n, payer)
<1> DEFINE V == {b \in Books : SpentFrom(old, b, DOMAIN n, payer)}
<1>1. old \in V
  <2>1. old.used \in Seq(UseRow)
    BY DEF Books
  <2>2. Len(old.used) \in Nat
    BY <2>1
  <2>3. (Len(old.used) + 1)..Len(old.used) = {}
    BY <2>2
  <2> QED
    BY <2>2, <2>3 DEF SpentFrom
<1>2. ASSUME NEW b \in V, NEW a \in DOMAIN n PROVE Spend(b, a, n[a], payer) \in V
  <2>1. n[a] \in Nat /\ SpentFrom(old, b, DOMAIN n, payer)
    OBVIOUS
  <2>2. SpentFrom(old, Spend(b, a, n[a], payer), DOMAIN n, payer)
    BY <2>1, SpendIsSpending
  <2> QED
    BY <2>2 DEF SpentFrom
<1>3. DOMAIN n \subseteq Int /\ IsFiniteSet(DOMAIN n)
  <2>1. Dues \subseteq Int /\ \A T \in SUBSET Dues : IsFiniteSet(T)
    BY DuesFacts
  <2> QED
    BY <2>1
<1>4. SpendAll(old, n, payer) \in V
  <2> HIDE DEF V
  <2> QED
    BY <1>1, <1>2, <1>3, SpendAllKeeps
<1> QED
  BY <1>4

-----------------------------------------------------------------------------
(* What a request may ask for.                                             *)

LEMMA LargestAmount ==
    Dues # {} => Max(ToSet(Amount)) \in Nat
<1> SUFFICES ASSUME Dues # {} PROVE Max(ToSet(Amount)) \in Nat
  OBVIOUS
<1>1. PICK T : T = ToSet(Amount)
  OBVIOUS
<1>2. T = {Amount[i] : i \in Dues}
  BY <1>1, DuesFacts, LedgerConstants DEF ToSet
<1>3. IsFiniteSet(T)
  <2>1. PICK g : g = [i \in Dues |-> Amount[i]]
    OBVIOUS
  <2>2. g \in Surjection(Dues, T)
    BY <1>2, <2>1 DEF Surjection
  <2> QED
    BY <2>2, DuesFacts, FS_Surjection
<1>4. T \subseteq Nat /\ T # {}
  BY <1>2, DuesFacts
<1>5. Max(T) \in T
  <2>1. T \subseteq Int
    BY <1>4
  <2> QED
    BY <1>3, <1>4, <2>1, MaxIsMember
<1> QED
  BY <1>1, <1>4, <1>5

\* A request names some assessments and asks for something on each.
LEMMA TargetsType ==
    ASSUME NEW f \in Targets
    PROVE  /\ f \in [DOMAIN f -> Nat \ {0}] /\ DOMAIN f \subseteq Dues
           /\ DOMAIN f \subseteq Payable /\ DOMAIN f # {} /\ IsFiniteSet(DOMAIN f)
           /\ SumFunction(f) \in Nat
<1>1. PICK S \in (SUBSET Payable) \ {{}} : f \in [S -> 1..Max(ToSet(Amount))]
  BY DEF Targets
<1>2. S \subseteq Dues /\ S # {} /\ DOMAIN f = S
  <2>1. Payable \subseteq Dues
    BY DEF Payable
  <2> QED
    BY <1>1, <2>1
<1>3. Max(ToSet(Amount)) \in Nat
  BY <1>2, LargestAmount
<1>4. f \in [S -> Nat \ {0}]
  BY <1>1, <1>3
<1>5. IsFiniteSet(S)
  BY <1>2, DuesFacts
<1>6. SumFunctionOnSet(f, S) \in Nat
  BY <1>4, <1>5, SumType
<1> QED
  BY <1>1, <1>2, <1>4, <1>5, <1>6 DEF SumFunction

-----------------------------------------------------------------------------
(* Types.                                                                  *)

DueRow == [status : DueStatus, paid : Nat]

\* Every row has its shape, at its place: no more payments and credits than
\* there is room for, and every credit comes from a payment that exists.
TypeInv ==
    /\ due \in [Dues -> DueRow]
    /\ pay \in Seq(PayRow) /\ Len(pay) <= MaxPayments
    /\ Book \in Books
    /\ \A c \in 1..Len(credit) : credit[c].source \in 1..Len(pay)

LEMMA TypeInvImpliesTypeOK == TypeInv => TypeOK
  BY DEF TypeInv, TypeOK, Books, Book, DueRow, PayRow, CreditRow, UseRow

LEMMA InitType == Init => TypeInv
<1> SUFFICES ASSUME Init PROVE TypeInv
  OBVIOUS
<1>1. due \in [Dues -> DueRow]
  BY DEF Init, DueRow, DueStatus
<1>2. pay \in Seq(PayRow) /\ Len(pay) = 0 /\ credit \in Seq(CreditRow) /\ Len(credit) = 0
      /\ used \in Seq(UseRow) /\ Len(used) = 0
  BY DEF Init
<1>3. alloc \in [PaymentIds \X Dues -> Row] /\ \A k \in PaymentIds \X Dues : ~alloc[k].live
  BY DEF Init, Row
<1>4. Book.alloc = alloc /\ Book.credit = credit /\ Book.used = used
      /\ Book = [alloc |-> alloc, credit |-> credit, used |-> used]
  BY DEF Book
<1>5. Book \in Books
  BY <1>2, <1>3, <1>4, ConstantFacts DEF Books
<1> QED
  BY <1>1, <1>2, <1>5, ConstantFacts DEF TypeInv

\* The variables one by one.
LEMMA TypeFacts ==
    ASSUME TypeInv
    PROVE  /\ due \in [Dues -> DueRow]
           /\ pay \in Seq(PayRow) /\ Len(pay) \in Nat /\ Len(pay) <= MaxPayments
           /\ \A p \in 1..Len(pay) : pay[p] \in PayRow
           /\ alloc \in [PaymentIds \X Dues -> Row]
           /\ \A k \in PaymentIds \X Dues : alloc[k].live => alloc[k].amount > 0
           /\ credit \in Seq(CreditRow) /\ Len(credit) \in Nat /\ Len(credit) <= MaxCredits
           /\ \A c \in 1..Len(credit) : credit[c] \in CreditRow /\ credit[c].source \in 1..Len(pay)
           /\ used \in Seq(UseRow) /\ Len(used) \in Nat
           /\ \A u \in 1..Len(used) : used[u] \in UseRow /\ used[u].credit \in 1..Len(credit)
<1>1. Book.alloc = alloc /\ Book.credit = credit /\ Book.used = used
  BY DEF Book
<1>2. Book \in Books
  BY DEF TypeInv
<1>3. /\ alloc \in [PaymentIds \X Dues -> Row] /\ credit \in Seq(CreditRow)
      /\ used \in Seq(UseRow) /\ Len(credit) <= MaxCredits
      /\ \A k \in PaymentIds \X Dues : alloc[k].live => alloc[k].amount > 0
      /\ \A u \in 1..Len(used) : used[u].credit \in 1..Len(credit)
  BY <1>1, <1>2 DEF Books
<1>4. \A c \in 1..Len(credit) : credit[c] \in CreditRow
  BY <1>3
<1>5. \A u \in 1..Len(used) : used[u] \in UseRow
  BY <1>3
<1>6. \A p \in 1..Len(pay) : pay[p] \in PayRow
  BY DEF TypeInv
<1>7. \A c \in 1..Len(credit) : credit[c].source \in 1..Len(pay)
  BY DEF TypeInv
<1> QED
  BY <1>3, <1>4, <1>5, <1>6, <1>7 DEF TypeInv

-----------------------------------------------------------------------------
(* What the parts of a request do.                                         *)

LedgerOf(A, P, a) ==
    SumFunctionOnSet([p \in PaymentIds |-> A[<<p, a>>].amount],
        {p \in 1..Len(P) : /\ P[p].status = "VERIFIED"
                           /\ ~P[p].deleted
                           /\ A[<<p, a>>].live})

LEMMA LedgerPaidIs ==
    \A a \in Dues : /\ LedgerPaid(a) = LedgerOf(alloc, pay, a)
                    /\ LedgerPaid(a)' = LedgerOf(alloc', pay', a)
  BY Zenon DEF LedgerPaid, LedgerOf

LEMMA LedgerOfType ==
    ASSUME NEW A \in [PaymentIds \X Dues -> Row], NEW P \in Seq(PayRow), Len(P) <= MaxPayments,
           NEW a \in Dues
    PROVE  LedgerOf(A, P, a) \in Nat
<1>1. PICK T : T = {p \in 1..Len(P) : P[p].status = "VERIFIED" /\ ~P[p].deleted /\ A[<<p, a>>].live}
  OBVIOUS
<1>2. PICK f : f = [p \in PaymentIds |-> A[<<p, a>>].amount]
  OBVIOUS
<1>3. T \subseteq PaymentIds
  <2>1. Len(P) \in Nat /\ MaxPayments \in Nat /\ PaymentIds = 1..MaxPayments
    BY ConstantFacts
  <2> QED
    BY <1>1, <2>1
<1>4. IsFiniteSet(T)
  BY <1>3, ConstantFacts, FS_Subset
<1>5. \A p \in T : f[p] \in Nat
  <2> SUFFICES ASSUME NEW p \in T PROVE f[p] \in Nat
    OBVIOUS
  <2>1. p \in PaymentIds /\ A[<<p, a>>] \in Row
    BY <1>3
  <2> QED
    BY <1>2, <2>1 DEF Row
<1>6. LedgerOf(A, P, a) = SumFunctionOnSet(f, T)
  BY <1>1, <1>2 DEF LedgerOf
<1> QED
  BY <1>4, <1>5, <1>6, SumType

LEMMA StatusType ==
    ASSUME NEW a \in Dues, NEW status \in DueStatus, NEW paid \in Nat
    PROVE  DetermineStatus(a, status, paid) \in DueStatus
  BY DEF DetermineStatus, DueStatus

\* Synchronising stores the new ledger and the status that follows from it.
Synced(a) ==
    /\ LedgerPaid(a)' \in Nat
    /\ due'[a] = [status |-> DetermineStatus(a, due[a].status, LedgerPaid(a)'),
                  paid   |-> LedgerPaid(a)']

LEMMA SyncEffect ==
    ASSUME TypeInv, alloc' \in [PaymentIds \X Dues -> Row], pay' \in Seq(PayRow),
           Len(pay') <= MaxPayments, NEW S, SyncAssessments(S)
    PROVE  /\ due' \in [Dues -> DueRow]
           /\ \A a \in Dues : (a \in S => Synced(a)) /\ (a \notin S => due'[a] = due[a])
<1>1. \A a \in Dues : LedgerPaid(a)' = LedgerOf(alloc', pay', a)
  BY LedgerPaidIs
<1>2. \A a \in Dues : LedgerPaid(a)' \in Nat
  BY <1>1, LedgerOfType
<1>3. \A a \in Dues : due[a] \in DueRow
  BY DEF TypeInv
<1>4. ASSUME NEW a \in Dues
      PROVE  /\ due'[a] \in DueRow
             /\ (a \in S => Synced(a)) /\ (a \notin S => due'[a] = due[a])
  <2>1. CASE a \in S
    <3>1. due'[a] = [status |-> DetermineStatus(a, due[a].status, LedgerPaid(a)'),
                     paid   |-> LedgerPaid(a)']
      BY <2>1 DEF SyncAssessments
    <3>2. due[a].status \in DueStatus
      BY <1>3 DEF DueRow
    <3>3. DetermineStatus(a, due[a].status, LedgerPaid(a)') \in DueStatus
      BY <1>2, <3>2, StatusType
    <3> QED
      BY <1>2, <2>1, <3>1, <3>3 DEF Synced, DueRow
  <2>2. CASE a \notin S
    <3>1. due'[a] = due[a]
      BY <2>2 DEF SyncAssessments
    <3> QED
      BY <1>3, <2>2, <3>1
  <2> QED
    BY <2>1, <2>2
<1>5. due' \in [Dues -> DueRow]
  <2>1. due' = [a \in Dues |-> due'[a]]
    BY DEF SyncAssessments
  <2> QED
    BY <1>4, <2>1
<1> QED
  BY <1>4, <1>5

\* The rows an application u put credit on.
RowOf(u) == <<credit[used[u].credit].source, used[u].due>>

LEMMA UnapplyShape ==
    ASSUME TypeInv, NEW book \in Books, book.credit = credit \/ Len(book.credit) = Len(credit),
           Len(book.used) = Len(used), NEW U \in SUBSET (1..Len(used))
    PROVE  Unapply(book, U) =
             [alloc  |-> [k \in PaymentIds \X Dues |->
                            IF \E u \in U : k = RowOf(u)
                            THEN [book.alloc[k] EXCEPT !.live = FALSE] ELSE book.alloc[k]],
              credit |-> book.credit,
              used   |-> [u \in 1..Len(used) |->
                            IF u \in U THEN [book.used[u] EXCEPT !.live = FALSE]
                            ELSE book.used[u]]]
<1>1. /\ book.alloc \in [PaymentIds \X Dues -> Row] /\ book.used \in Seq(UseRow)
      /\ book = [alloc |-> book.alloc, credit |-> book.credit, used |-> book.used]
  BY DEF Books
<1>2. DOMAIN book.alloc = PaymentIds \X Dues /\ DOMAIN book.used = 1..Len(used)
  BY <1>1
<1>3. PICK A, N :
        /\ A = [k \in PaymentIds \X Dues |->
                  IF \E u \in U : k = RowOf(u)
                  THEN [book.alloc[k] EXCEPT !.live = FALSE] ELSE book.alloc[k]]
        /\ N = [u \in 1..Len(used) |->
                  IF u \in U THEN [book.used[u] EXCEPT !.live = FALSE] ELSE book.used[u]]
  OBVIOUS
<1>4. Unapply(book, U) = [book EXCEPT !.alloc = A, !.used = N]
  BY <1>2, <1>3, Zenon DEF Unapply, RowOf
<1>5. [book EXCEPT !.alloc = A, !.used = N] = [alloc |-> A, credit |-> book.credit, used |-> N]
  <2>1. book \in [alloc : [PaymentIds \X Dues -> Row], credit : Seq(CreditRow), used : Seq(UseRow)]
    BY DEF Books
  <2>2. PICK b : b = [book EXCEPT !.alloc = A]
    OBVIOUS
  <2>3. b = [alloc |-> A, credit |-> book.credit, used |-> book.used]
    BY <2>1, <2>2
  <2>4. /\ b \in [alloc : {A}, credit : Seq(CreditRow), used : Seq(UseRow)]
        /\ b.credit = book.credit /\ b.alloc = A
    BY <2>1, <2>3
  <2>5. [b EXCEPT !.used = N] = [alloc |-> b.alloc, credit |-> b.credit, used |-> N]
    BY <2>4
  <2>6. [book EXCEPT !.alloc = A, !.used = N] = [b EXCEPT !.used = N]
    BY <2>2
  <2> QED
    BY <2>4, <2>5, <2>6
<1> QED
  BY <1>3, <1>4, <1>5

\* Taking rows out of account leaves books; so does moving balances.
Silenced(A, K) ==
    [k \in PaymentIds \X Dues |-> IF k \in K THEN [A[k] EXCEPT !.live = FALSE] ELSE A[k]]

LEMMA SilencedType ==
    ASSUME NEW A \in [PaymentIds \X Dues -> Row],
           \A k \in PaymentIds \X Dues : A[k].live => A[k].amount > 0, NEW K
    PROVE  /\ Silenced(A, K) \in [PaymentIds \X Dues -> Row]
           /\ \A k \in PaymentIds \X Dues :
                 /\ Silenced(A, K)[k].live => Silenced(A, K)[k].amount > 0
                 /\ Silenced(A, K)[k].amount = A[k].amount
                 /\ k \in K => Silenced(A, K)[k].live = FALSE
                 /\ k \notin K => Silenced(A, K)[k] = A[k]
<1>1. ASSUME NEW k \in PaymentIds \X Dues
      PROVE  /\ Silenced(A, K)[k] \in Row
             /\ Silenced(A, K)[k].live => Silenced(A, K)[k].amount > 0
             /\ Silenced(A, K)[k].amount = A[k].amount
             /\ k \in K => Silenced(A, K)[k].live = FALSE
             /\ k \notin K => Silenced(A, K)[k] = A[k]
  <2>1. A[k] \in Row
    OBVIOUS
  <2>2. CASE k \in K
    <3>1. Silenced(A, K)[k] = [A[k] EXCEPT !.live = FALSE]
      BY <2>2 DEF Silenced
    <3> QED
      BY <2>1, <2>2, <3>1 DEF Row
  <2>3. CASE k \notin K
    <3>1. Silenced(A, K)[k] = A[k]
      BY <2>3 DEF Silenced
    <3> QED
      BY <2>1, <2>3, <3>1
  <2> QED
    BY <2>2, <2>3
<1> QED
  BY <1>1 DEF Silenced

Retired(U) ==
    [u \in 1..Len(used) |-> IF u \in U THEN [used[u] EXCEPT !.live = FALSE] ELSE used[u]]

LEMMA RetiredType ==
    ASSUME TypeInv, NEW U
    PROVE  /\ Retired(U) \in Seq(UseRow) /\ Len(Retired(U)) = Len(used)
           /\ \A u \in 1..Len(used) :
                 /\ Retired(U)[u].credit = used[u].credit /\ Retired(U)[u].due = used[u].due
                 /\ Retired(U)[u].amount = used[u].amount /\ Retired(U)[u].payer = used[u].payer
                 /\ u \in U => Retired(U)[u].live = FALSE
                 /\ u \notin U => Retired(U)[u] = used[u]
<1>1. Len(used) \in Nat /\ \A u \in 1..Len(used) : used[u] \in UseRow
  BY TypeFacts
<1>2. ASSUME NEW u \in 1..Len(used)
      PROVE  /\ Retired(U)[u] \in UseRow
             /\ Retired(U)[u].credit = used[u].credit /\ Retired(U)[u].due = used[u].due
             /\ Retired(U)[u].amount = used[u].amount /\ Retired(U)[u].payer = used[u].payer
             /\ u \in U => Retired(U)[u].live = FALSE
             /\ u \notin U => Retired(U)[u] = used[u]
  <2>1. used[u] \in UseRow
    BY <1>1
  <2>2. CASE u \in U
    <3>1. Retired(U)[u] = [used[u] EXCEPT !.live = FALSE]
      BY <2>2 DEF Retired
    <3> QED
      BY <2>1, <2>2, <3>1 DEF UseRow
  <2>3. CASE u \notin U
    <3>1. Retired(U)[u] = used[u]
      BY <2>3 DEF Retired
    <3> QED
      BY <2>1, <2>3, <3>1
  <2> QED
    BY <2>2, <2>3
<1>3. Retired(U) \in [1..Len(used) -> UseRow]
  BY <1>2 DEF Retired
<1>4. PICK m \in Nat : m = Len(used)
  BY <1>1
<1>5. Retired(U) \in Seq(UseRow) /\ Len(Retired(U)) = m
  BY <1>3, <1>4
<1> QED
  BY <1>2, <1>4, <1>5

\* What p's applications of credit c are worth.
BackTo(p, c) ==
    SumFunctionOnSet([u \in 1..Len(used) |-> used[u].amount],
                     {u \in UsesPaidBy(p) : used[u].credit = c})

LEMMA BackToType ==
    ASSUME TypeInv, NEW p, NEW c
    PROVE  BackTo(p, c) \in Nat
<1>1. PICK m \in Nat : m = Len(used)
  BY TypeFacts
<1>2. PICK f : f = [u \in 1..Len(used) |-> used[u].amount]
  OBVIOUS
<1>3. PICK T : T = {u \in UsesPaidBy(p) : used[u].credit = c}
  OBVIOUS
<1>4. T \subseteq 1..m
  BY <1>1, <1>3 DEF UsesPaidBy
<1>5. IsFiniteSet(T)
  <2>1. IsFiniteSet(1..m)
    BY FS_Interval
  <2> QED
    BY <1>4, <2>1, FS_Subset
<1>6. \A u \in 1..m : used[u].amount \in Nat
  BY <1>1, TypeFacts DEF UseRow
<1>7. \A u \in T : f[u] \in Nat
  BY <1>1, <1>2, <1>4, <1>6
<1>8. BackTo(p, c) = SumFunctionOnSet(f, T)
  BY <1>2, <1>3 DEF BackTo
<1> QED
  BY <1>5, <1>7, <1>8, SumType

\* What undoing payment p does to the books.
Reversed(back, p) ==
    /\ back.alloc = Silenced(alloc, {k \in PaymentIds \X Dues :
                                       k[1] = p \/ \E u \in UsesPaidBy(p) : k = RowOf(u)})
    /\ back.used = Retired(UsesPaidBy(p))
    /\ back.credit \in Seq(CreditRow) /\ Len(back.credit) = Len(credit)
    /\ \A c \in 1..Len(credit) :
          /\ back.credit[c].source = credit[c].source
          /\ back.credit[c].granted = credit[c].granted
          /\ back.credit[c].balance <= credit[c].balance + BackTo(p, c)

LEMMA GiveBackShape ==
    ASSUME TypeInv, NEW book \in Books, Len(book.credit) = Len(credit), book.used = used, NEW p
    PROVE  /\ GiveBack(book, p).alloc =
                Silenced(book.alloc, {k \in PaymentIds \X Dues :
                                        \E u \in UsesPaidBy(p) : k = RowOf(u)})
           /\ GiveBack(book, p).used = Retired(UsesPaidBy(p))
           /\ GiveBack(book, p).credit =
                [c \in 1..Len(credit) |->
                   [book.credit[c] EXCEPT !.balance = @ + BackTo(p, c)]]
<1>1. PICK un : un = Unapply(book, UsesPaidBy(p))
  OBVIOUS
<1>2. UsesPaidBy(p) \in SUBSET (1..Len(used))
  BY DEF UsesPaidBy
<1>3. un = [alloc  |-> [k \in PaymentIds \X Dues |->
                          IF \E u \in UsesPaidBy(p) : k = RowOf(u)
                          THEN [book.alloc[k] EXCEPT !.live = FALSE] ELSE book.alloc[k]],
            credit |-> book.credit,
            used   |-> [u \in 1..Len(used) |->
                          IF u \in UsesPaidBy(p) THEN [book.used[u] EXCEPT !.live = FALSE]
                          ELSE book.used[u]]]
  BY <1>1, <1>2, UnapplyShape
<1>4. un.alloc = Silenced(book.alloc, {k \in PaymentIds \X Dues :
                                         \E u \in UsesPaidBy(p) : k = RowOf(u)})
  BY <1>3 DEF Silenced
<1>5. un.used = Retired(UsesPaidBy(p)) /\ un.credit = book.credit
  BY <1>3 DEF Retired
<1>6. DOMAIN book.credit = 1..Len(credit)
  BY DEF Books
<1>7. PICK C : C = [c \in 1..Len(credit) |-> [book.credit[c] EXCEPT !.balance = @ + BackTo(p, c)]]
  OBVIOUS
<1>8. GiveBack(book, p) = [Unapply(book, UsesPaidBy(p)) EXCEPT !.credit = C]
  BY <1>6, <1>7, Zenon DEF GiveBack, BackTo
<1>9. PICK X, Y, Z : Unapply(book, UsesPaidBy(p)) \in [alloc : {X}, credit : {Y}, used : {Z}]
  BY <1>1, <1>3
<1>10. [Unapply(book, UsesPaidBy(p)) EXCEPT !.credit = C] =
          [alloc |-> X, credit |-> C, used |-> Z]
  BY <1>9
<1>11. un.alloc = X /\ un.used = Z
  BY <1>1, <1>9
<1>12. PICK r : r = GiveBack(book, p) /\ r = [alloc |-> X, credit |-> C, used |-> Z]
  BY <1>8, <1>10
<1>13. r.alloc = X /\ r.credit = C /\ r.used = Z
  BY <1>12
<1> QED
  BY <1>4, <1>5, <1>7, <1>11, <1>12, <1>13

LEMMA BookFacts ==
    ASSUME TypeInv
    PROVE  /\ Book \in Books /\ Book.alloc = alloc /\ Book.credit = credit /\ Book.used = used
           /\ Book = [alloc |-> alloc, credit |-> credit, used |-> used]
  BY DEF TypeInv, Book

\* New values of the variables that make up books.
LEMMA NextBook ==
    ASSUME NEW b \in Books, alloc' = b.alloc, credit' = b.credit, used' = b.used
    PROVE  Book' = b
<1>1. b = [alloc |-> b.alloc, credit |-> b.credit, used |-> b.used]
  BY DEF Books
<1>2. Book' = [alloc |-> alloc', credit |-> credit', used |-> used']
  BY DEF Book
<1> QED
  BY <1>1, <1>2

LEMMA ReverseRowsShape ==
    ASSUME TypeInv, NEW p
    PROVE  /\ ReverseRows(Book, p) \in Books
           /\ ReverseRows(Book, p).alloc = Silenced(alloc, {k \in PaymentIds \X Dues : k[1] = p})
           /\ ReverseRows(Book, p).credit = credit /\ ReverseRows(Book, p).used = used
<1>1. PICK S : S = Silenced(alloc, {k \in PaymentIds \X Dues : k[1] = p})
  OBVIOUS
<1>2. /\ S \in [PaymentIds \X Dues -> Row]
      /\ \A k \in PaymentIds \X Dues : S[k].live => S[k].amount > 0
  <2>1. /\ alloc \in [PaymentIds \X Dues -> Row]
        /\ \A k \in PaymentIds \X Dues : alloc[k].live => alloc[k].amount > 0
    BY TypeFacts
  <2>2. PICK K : K = {k \in PaymentIds \X Dues : k[1] = p}
    OBVIOUS
  <2>3. S = Silenced(alloc, K)
    BY <1>1, <2>2
  <2> QED
    BY <2>1, <2>3, SilencedType
<1>3. PICK T : T = [k \in PaymentIds \X Dues |-> IF k[1] = p THEN [alloc[k] EXCEPT !.live = FALSE]
                                                 ELSE alloc[k]]
  OBVIOUS
<1>4. S = T
  BY <1>1, <1>3 DEF Silenced
<1>5. DOMAIN alloc = PaymentIds \X Dues
  BY TypeFacts
<1>6. ReverseRows(Book, p) = [Book EXCEPT !.alloc = T]
  <2>1. DOMAIN Book.alloc = PaymentIds \X Dues /\ Book.alloc = alloc
    BY <1>5, BookFacts
  <2> QED
    BY <1>3, <2>1, Zenon DEF ReverseRows
<1>7. [Book EXCEPT !.alloc = T] = [alloc |-> T, credit |-> credit, used |-> used]
  BY BookFacts
<1>8. PICK r : r = ReverseRows(Book, p) /\ r = [alloc |-> T, credit |-> credit, used |-> used]
  BY <1>6, <1>7
<1>9. r.alloc = T /\ r.credit = credit /\ r.used = used
  BY <1>8
<1>10. r \in Books
  BY <1>2, <1>4, <1>8, <1>9, TypeFacts DEF Books
<1> QED
  BY <1>1, <1>4, <1>8, <1>9, <1>10

LEMMA ClearCreditShape ==
    ASSUME NEW book \in Books, NEW p
    PROVE  /\ ClearCredit(book, p) \in Books
           /\ ClearCredit(book, p).alloc = book.alloc /\ ClearCredit(book, p).used = book.used
           /\ Len(ClearCredit(book, p).credit) = Len(book.credit)
           /\ \A c \in 1..Len(book.credit) :
                 /\ ClearCredit(book, p).credit[c].source = book.credit[c].source
                 /\ ClearCredit(book, p).credit[c].granted = book.credit[c].granted
                 /\ ClearCredit(book, p).credit[c].balance <= book.credit[c].balance
<1>1. PICK m \in Nat : m = Len(book.credit) /\ m <= MaxCredits /\ DOMAIN book.credit = 1..m
  BY DEF Books
<1>2. PICK C : C = [c \in 1..m |-> IF book.credit[c].source = p
                                   THEN [book.credit[c] EXCEPT !.balance = 0] ELSE book.credit[c]]
  OBVIOUS
<1>3. ClearCredit(book, p) = [book EXCEPT !.credit = C]
  BY <1>1, <1>2, Zenon DEF ClearCredit
<1>4. [book EXCEPT !.credit = C] = [alloc |-> book.alloc, credit |-> C, used |-> book.used]
  BY DEF Books
<1>5. \A c \in 1..m : book.credit[c] \in CreditRow
  <2>1. book.credit \in Seq(CreditRow)
    BY DEF Books
  <2> QED
    BY <1>1, <2>1
<1>6. ASSUME NEW c \in 1..m
      PROVE  /\ C[c] \in CreditRow /\ C[c].source = book.credit[c].source
             /\ C[c].granted = book.credit[c].granted /\ C[c].balance <= book.credit[c].balance
  <2>1. book.credit[c] \in CreditRow
    BY <1>5
  <2>2. CASE book.credit[c].source = p
    <3>1. C[c] = [book.credit[c] EXCEPT !.balance = 0]
      BY <1>2, <2>2
    <3> QED
      BY <2>1, <3>1 DEF CreditRow
  <2>3. CASE book.credit[c].source # p
    <3>1. C[c] = book.credit[c]
      BY <1>2, <2>3
    <3> QED
      BY <2>1, <3>1 DEF CreditRow
  <2> QED
    BY <2>2, <2>3
<1>7. C \in Seq(CreditRow) /\ Len(C) = m
  <2>1. C \in [1..m -> CreditRow]
    BY <1>2, <1>6
  <2> QED
    BY <2>1
<1>8. PICK r : /\ r = ClearCredit(book, p)
               /\ r = [alloc |-> book.alloc, credit |-> C, used |-> book.used]
  BY <1>3, <1>4
<1>9. r.alloc = book.alloc /\ r.credit = C /\ r.used = book.used
  BY <1>8
<1>10. r \in Books
  BY <1>1, <1>7, <1>8, <1>9 DEF Books
<1> QED
  BY <1>1, <1>6, <1>7, <1>8, <1>9, <1>10

\* Undoing a payment, with or without clearing the credit it left.
LEMMA ReversalShape ==
    ASSUME TypeInv, NEW p, NEW back,
           \/ back = GiveBack(ClearCredit(ReverseRows(Book, p), p), p)
           \/ back = GiveBack(ReverseRows(Book, p), p)
    PROVE  Reversed(back, p)
<1>1. PICK book : /\ back = GiveBack(book, p)
                  /\ book = ClearCredit(ReverseRows(Book, p), p) \/ book = ReverseRows(Book, p)
  OBVIOUS
<1>2. PICK m \in Nat : m = Len(credit) /\ \A c \in 1..m : credit[c] \in CreditRow
  BY TypeFacts
<1>3. /\ book \in Books /\ Len(book.credit) = Len(credit) /\ book.used = used
      /\ book.alloc = Silenced(alloc, {k \in PaymentIds \X Dues : k[1] = p})
      /\ \A c \in 1..m : /\ book.credit[c].source = credit[c].source
                         /\ book.credit[c].granted = credit[c].granted
                         /\ book.credit[c].balance <= credit[c].balance
  <2>1. CASE book = ReverseRows(Book, p)
    <3>1. book \in Books /\ book.credit = credit
      BY <2>1, ReverseRowsShape
    <3>2. \A c \in 1..m : credit[c].balance <= credit[c].balance
      BY <1>2 DEF CreditRow
    <3> QED
      BY <2>1, <3>1, <3>2, ReverseRowsShape
  <2>2. CASE book = ClearCredit(ReverseRows(Book, p), p)
    <3>1. PICK r : r = ReverseRows(Book, p)
      OBVIOUS
    <3>2. /\ r \in Books /\ r.credit = credit /\ r.used = used
          /\ r.alloc = Silenced(alloc, {k \in PaymentIds \X Dues : k[1] = p})
      BY <3>1, ReverseRowsShape
    <3>3. book = ClearCredit(r, p)
      BY <2>2, <3>1
    <3> QED
      BY <1>2, <3>2, <3>3, ClearCreditShape
  <2> QED
    BY <1>1, <2>1, <2>2
<1>4. /\ back.alloc = Silenced(book.alloc, {k \in PaymentIds \X Dues :
                                              \E u \in UsesPaidBy(p) : k = RowOf(u)})
      /\ back.used = Retired(UsesPaidBy(p))
      /\ back.credit = [c \in 1..m |-> [book.credit[c] EXCEPT !.balance = @ + BackTo(p, c)]]
  BY <1>1, <1>2, <1>3, GiveBackShape, ZenonT(60)
<1>5. \A c \in 1..m : book.credit[c] \in CreditRow
  <2>1. book.credit \in Seq(CreditRow)
    BY <1>3 DEF Books
  <2> QED
    BY <1>2, <1>3, <2>1
<1>6. ASSUME NEW c \in 1..m
      PROVE  /\ back.credit[c] \in CreditRow /\ back.credit[c].source = credit[c].source
             /\ back.credit[c].granted = credit[c].granted
             /\ back.credit[c].balance <= credit[c].balance + BackTo(p, c)
  <2>1. PICK n \in Nat : n = BackTo(p, c)
    BY BackToType
  <2>2. back.credit[c] = [book.credit[c] EXCEPT !.balance = book.credit[c].balance + n]
    BY <1>4, <2>1
  <2>3. book.credit[c] \in CreditRow /\ credit[c] \in CreditRow
    BY <1>2, <1>5
  <2>4. back.credit[c].balance = book.credit[c].balance + n
    BY <2>2, <2>3 DEF CreditRow
  <2> QED
    BY <1>3, <2>1, <2>2, <2>3, <2>4, SMTT(30) DEF CreditRow
<1>7. back.credit \in Seq(CreditRow) /\ Len(back.credit) = m
  <2>1. back.credit \in [1..m -> CreditRow]
    BY <1>4, <1>6
  <2> QED
    BY <2>1
<1>8. back.alloc = Silenced(alloc, {k \in PaymentIds \X Dues :
                                      k[1] = p \/ \E u \in UsesPaidBy(p) : k = RowOf(u)})
  <2> DEFINE K1 == {k \in PaymentIds \X Dues : k[1] = p}
             K2 == {k \in PaymentIds \X Dues : \E u \in UsesPaidBy(p) : k = RowOf(u)}
             K3 == {k \in PaymentIds \X Dues : k[1] = p \/ \E u \in UsesPaidBy(p) : k = RowOf(u)}
  <2>1. \A k \in PaymentIds \X Dues : k \in K3 <=> k \in K1 \/ k \in K2
    OBVIOUS
  <2>2. back.alloc = Silenced(Silenced(alloc, K1), K2)
    BY <1>3, <1>4
  <2> HIDE DEF K1, K2, K3
  <2>3. ASSUME NEW k \in PaymentIds \X Dues
        PROVE  Silenced(Silenced(alloc, K1), K2)[k] = Silenced(alloc, K3)[k]
    <3>1. alloc[k] \in Row
      BY TypeFacts
    <3>2. Silenced(alloc, K1)[k] = IF k \in K1 THEN [alloc[k] EXCEPT !.live = FALSE] ELSE alloc[k]
      BY DEF Silenced
    <3>3. Silenced(Silenced(alloc, K1), K2)[k] =
            IF k \in K2 THEN [Silenced(alloc, K1)[k] EXCEPT !.live = FALSE]
            ELSE Silenced(alloc, K1)[k]
      BY DEF Silenced
    <3>4. Silenced(alloc, K3)[k] = IF k \in K3 THEN [alloc[k] EXCEPT !.live = FALSE] ELSE alloc[k]
      BY DEF Silenced
    <3>5. [[alloc[k] EXCEPT !.live = FALSE] EXCEPT !.live = FALSE] = [alloc[k] EXCEPT !.live = FALSE]
      BY <3>1 DEF Row
    <3> QED
      BY <2>1, <3>2, <3>3, <3>4, <3>5
  <2>4. Silenced(Silenced(alloc, K1), K2) = Silenced(alloc, K3)
    BY <2>3 DEF Silenced
  <2> QED
    BY <2>2, <2>4 DEF K3
<1> QED
  BY <1>2, <1>4, <1>6, <1>7, <1>8 DEF Reversed

-----------------------------------------------------------------------------
(* Recording a payment.                                                    *)

Covered(f, useCredit) == Fifo(f, CreditToUse(f, useCredit))
Cash(f, useCredit)    == [a \in DOMAIN f |-> f[a] - Covered(f, useCredit)[a]]

LEMMA AvailableType ==
    ASSUME TypeInv
    PROVE  AvailableCredit \in Nat
<1>1. PICK m \in Nat : m = Len(credit) /\ \A c \in 1..m : credit[c] \in CreditRow
  BY TypeFacts
<1>2. PICK g : g = [c \in 1..m |-> credit[c].balance]
  OBVIOUS
<1>3. \A c \in 1..m : g[c] \in Nat
  BY <1>1, <1>2 DEF CreditRow
<1>4. IsFiniteSet(1..m) /\ DOMAIN g = 1..m
  BY <1>2, FS_Interval
<1>5. SumFunctionOnSet(g, 1..m) \in Nat
  BY <1>3, <1>4, SumType
<1>6. AvailableCredit = SumFunctionOnSet(g, 1..m)
  BY <1>1, <1>2, <1>4 DEF AvailableCredit, SumFunction
<1> QED
  BY <1>5, <1>6

\* Credit covers a part of each target, cash the rest.
LEMMA CashType ==
    ASSUME TypeInv, NEW f \in Targets, NEW useCredit
    PROVE  /\ CreditToUse(f, useCredit) \in Nat /\ CreditToUse(f, useCredit) <= SumFunction(f)
           /\ DOMAIN Covered(f, useCredit) = DOMAIN f /\ DOMAIN Cash(f, useCredit) = DOMAIN f
           /\ \A a \in DOMAIN f :
                 /\ Covered(f, useCredit)[a] \in Nat /\ Cash(f, useCredit)[a] \in Nat
                 /\ f[a] = Covered(f, useCredit)[a] + Cash(f, useCredit)[a]
<1>1. PICK n : n = CreditToUse(f, useCredit)
  OBVIOUS
<1>2. SumFunction(f) \in Nat /\ AvailableCredit \in Nat
  BY AvailableType, TargetsType
<1>3. n \in Nat /\ n <= SumFunction(f)
  BY <1>1, <1>2 DEF CreditToUse, Min2
<1>4. DOMAIN f \subseteq Int /\ IsFiniteSet(DOMAIN f) /\ \A a \in DOMAIN f : f[a] \in Nat
  <2>1. DOMAIN f \subseteq Dues /\ Dues \subseteq Int
    BY TargetsType, DuesFacts
  <2> QED
    BY <2>1, TargetsType
<1>5. PICK g : g = Fifo(f, n)
  OBVIOUS
<1>6. DOMAIN g = DOMAIN f /\ \A a \in DOMAIN f : g[a] \in 0..f[a]
  BY <1>3, <1>4, <1>5, FifoType
<1>7. g = Covered(f, useCredit)
  BY <1>1, <1>5 DEF Covered
<1>8. \A a \in DOMAIN f : Cash(f, useCredit)[a] = f[a] - g[a]
  BY <1>7 DEF Cash
<1>9. \A a \in DOMAIN f : g[a] \in Nat /\ f[a] - g[a] \in Nat /\ f[a] = g[a] + (f[a] - g[a])
  BY <1>4, <1>6
<1>10. DOMAIN Cash(f, useCredit) = DOMAIN f
  BY DEF Cash
<1> QED
  BY <1>1, <1>3, <1>6, <1>7, <1>8, <1>9, <1>10

LEMMA CashRowsShape ==
    ASSUME TypeInv, NEW p, NEW cash, DOMAIN cash \subseteq Dues, \A a \in DOMAIN cash : cash[a] \in Nat
    PROVE  /\ CashRows(Book, p, cash) \in Books
           /\ CashRows(Book, p, cash).credit = credit /\ CashRows(Book, p, cash).used = used
           /\ \A k \in PaymentIds \X Dues :
                 /\ k[1] = p /\ k[2] \in DOMAIN cash =>
                       /\ CashRows(Book, p, cash).alloc[k].amount = cash[k[2]]
                       /\ CashRows(Book, p, cash).alloc[k].live <=> cash[k[2]] > 0
                 /\ ~(k[1] = p /\ k[2] \in DOMAIN cash) =>
                       CashRows(Book, p, cash).alloc[k] = alloc[k]
<1>1. PICK T : T = [k \in PaymentIds \X Dues |->
                      IF k[1] = p /\ k[2] \in DOMAIN cash
                      THEN [amount |-> cash[k[2]], live |-> cash[k[2]] > 0] ELSE alloc[k]]
  OBVIOUS
<1>2. ASSUME NEW k \in PaymentIds \X Dues
      PROVE  /\ T[k] \in Row /\ (T[k].live => T[k].amount > 0)
             /\ k[1] = p /\ k[2] \in DOMAIN cash =>
                   T[k].amount = cash[k[2]] /\ (T[k].live <=> cash[k[2]] > 0)
             /\ ~(k[1] = p /\ k[2] \in DOMAIN cash) => T[k] = alloc[k]
  <2>1. CASE k[1] = p /\ k[2] \in DOMAIN cash
    <3>1. PICK n \in Nat : n = cash[k[2]]
      BY <2>1
    <3>2. CASE n > 0
      <4>1. (n > 0) = TRUE
        BY <3>2
      <4>2. T[k] = [amount |-> n, live |-> TRUE]
        BY <1>1, <2>1, <3>1, <4>1, Zenon
      <4> QED
        BY <2>1, <3>1, <3>2, <4>2 DEF Row
    <3>3. CASE ~(n > 0)
      <4>1. (n > 0) = FALSE
        BY <3>3
      <4>2. T[k] = [amount |-> n, live |-> FALSE]
        BY <1>1, <2>1, <3>1, <4>1, Zenon
      <4> QED
        BY <2>1, <3>1, <3>3, <4>2 DEF Row
    <3> QED
      BY <3>2, <3>3
  <2>2. CASE ~(k[1] = p /\ k[2] \in DOMAIN cash)
    <3>1. T[k] = alloc[k]
      BY <1>1, <2>2
    <3> QED
      BY <2>2, <3>1, TypeFacts
  <2> QED
    BY <2>1, <2>2
<1>3. T \in [PaymentIds \X Dues -> Row]
  <2>1. T = [k \in PaymentIds \X Dues |-> T[k]]
    BY <1>1
  <2> QED
    BY <1>2, <2>1
<1>4. CashRows(Book, p, cash) = [Book EXCEPT !.alloc = T]
  <2>1. DOMAIN Book.alloc = PaymentIds \X Dues /\ Book.alloc = alloc
    BY BookFacts, TypeFacts
  <2> QED
    BY <1>1, <2>1, Zenon DEF CashRows
<1>5. [Book EXCEPT !.alloc = T] = [alloc |-> T, credit |-> credit, used |-> used]
  BY BookFacts
<1>6. PICK r : r = CashRows(Book, p, cash) /\ r = [alloc |-> T, credit |-> credit, used |-> used]
  BY <1>4, <1>5
<1>7. r.alloc = T /\ r.credit = credit /\ r.used = used
  BY <1>6
<1>8. r \in Books
  BY <1>2, <1>3, <1>6, <1>7, TypeFacts DEF Books
<1> QED
  BY <1>2, <1>6, <1>7, <1>8

NewRow(kind, amount, status) ==
    [kind |-> kind, amount |-> amount, status |-> status, deleted |-> FALSE]

\* A recorded payment is the next one; its rows hold its cash, and the credit
\* it uses is spent on top of them.
CashBook(f, useCredit) == CashRows(Book, Len(pay) + 1, Cash(f, useCredit))

LEMMA RecordEffect ==
    ASSUME TypeInv, NEW kind \in PayKind, NEW status \in PayStatus, NEW f \in Targets,
           NEW useCredit, RecordPayment(kind, status, f, useCredit)
    PROVE  /\ Len(pay) < MaxPayments /\ due' = due
           /\ SumFunction(f) - CreditToUse(f, useCredit) \in Nat
           /\ pay' = Append(pay, NewRow(kind, SumFunction(f) - CreditToUse(f, useCredit), status))
           /\ CashBook(f, useCredit) \in Books
           /\ Book' = SpendAll(CashBook(f, useCredit), Covered(f, useCredit), Len(pay) + 1)
           /\ SpentFrom(CashBook(f, useCredit), Book', DOMAIN f, Len(pay) + 1)
           /\ Len(used') <= MaxUses
<1>1. PICK c : c = Cash(f, useCredit)
  OBVIOUS
<1>2. DOMAIN c \subseteq Dues /\ DOMAIN c = DOMAIN f /\ \A a \in DOMAIN c : c[a] \in Nat
  BY <1>1, CashType, TargetsType
<1>3. CashBook(f, useCredit) \in Books
  BY <1>1, <1>2, CashRowsShape DEF CashBook
<1>4. /\ Len(pay) < MaxPayments /\ due' = due
      /\ pay' = Append(pay, NewRow(kind, SumFunction(f) - CreditToUse(f, useCredit), status))
      /\ KeepBook(SpendAll(CashBook(f, useCredit), Covered(f, useCredit), Len(pay) + 1))
  BY Zenon DEF RecordPayment, NewPayment, NewRow, CashBook, Cash, Covered
<1>5. Len(pay) + 1 \in PaymentIds
  BY <1>4, TypeFacts, ConstantFacts
<1>6. PICK n : n = Covered(f, useCredit)
  OBVIOUS
<1>7. DOMAIN n = DOMAIN f /\ DOMAIN n \subseteq Dues /\ \A a \in DOMAIN n : n[a] \in Nat
  BY <1>6, CashType, TargetsType
<1>8. PICK b : b = SpendAll(CashBook(f, useCredit), n, Len(pay) + 1)
  OBVIOUS
<1>9. SpentFrom(CashBook(f, useCredit), b, DOMAIN f, Len(pay) + 1)
  BY <1>3, <1>5, <1>7, <1>8, SpendAllIsSpending
<1>10. b \in Books
  BY <1>9 DEF SpentFrom
<1>11. alloc' = b.alloc /\ credit' = b.credit /\ used' = b.used /\ Len(used') <= MaxUses
  BY <1>4, <1>6, <1>8 DEF KeepBook
<1>12. Book' = b
  BY <1>10, <1>11, NextBook
<1>13. SumFunction(f) - CreditToUse(f, useCredit) \in Nat
  BY CashType, TargetsType
<1> QED
  BY <1>3, <1>4, <1>6, <1>8, <1>9, <1>11, <1>12, <1>13

-----------------------------------------------------------------------------
(* What each action does to payments, books and assessments.               *)

\* Only payment p changes, in one field.
PayChanged(p) ==
    /\ pay' \in Seq(PayRow) /\ Len(pay') = Len(pay)
    /\ \A q \in 1..Len(pay) : /\ q # p => pay'[q] = pay[q]
                              /\ pay'[q].kind = pay[q].kind

StatusSet(p, status) ==
    /\ PayChanged(p)
    /\ pay'[p].status = status /\ pay'[p].deleted = pay[p].deleted /\ pay'[p].amount = pay[p].amount

LEMMA StatusEffect ==
    ASSUME TypeInv, NEW p \in 1..Len(pay), NEW status \in PayStatus, SetStatus(p, status)
    PROVE  StatusSet(p, status)
<1>1. PICK m \in Nat : m = Len(pay) /\ DOMAIN pay = 1..m
  BY TypeFacts
<1>2. \A q \in 1..m : pay[q] \in PayRow
  BY <1>1, TypeFacts
<1>3. pay' = [pay EXCEPT ![p] = [pay[p] EXCEPT !.status = status]]
  BY DEF SetStatus
<1>4. ASSUME NEW q \in 1..m
      PROVE  /\ pay'[q] \in PayRow /\ (q # p => pay'[q] = pay[q]) /\ pay'[q].kind = pay[q].kind
             /\ q = p => /\ pay'[q].status = status /\ pay'[q].deleted = pay[q].deleted
                         /\ pay'[q].amount = pay[q].amount
  <2>1. CASE q = p
    <3>1. pay'[q] = [pay[q] EXCEPT !.status = status]
      BY <1>1, <1>3, <2>1
    <3> QED
      BY <1>2, <2>1, <3>1 DEF PayRow
  <2>2. CASE q # p
    <3>1. pay'[q] = pay[q]
      BY <1>1, <1>3, <2>2
    <3> QED
      BY <1>2, <2>2, <3>1
  <2> QED
    BY <2>1, <2>2
<1>5. pay' \in Seq(PayRow) /\ Len(pay') = m
  <2>1. pay' \in [1..m -> PayRow]
    <3>1. pay' = [q \in 1..m |-> pay'[q]]
      BY <1>1, <1>3
    <3> QED
      BY <1>4, <3>1
  <2> QED
    BY <2>1
<1> QED
  BY <1>1, <1>4, <1>5 DEF StatusSet, PayChanged

LEMMA AppendEffect ==
    ASSUME TypeInv, NEW kind \in PayKind, NEW amount \in Nat, NEW status \in PayStatus,
           Len(pay) < MaxPayments, pay' = Append(pay, NewRow(kind, amount, status))
    PROVE  /\ pay' \in Seq(PayRow) /\ Len(pay') = Len(pay) + 1 /\ Len(pay') <= MaxPayments
           /\ pay'[Len(pay) + 1] = NewRow(kind, amount, status)
           /\ \A q \in 1..Len(pay) : pay'[q] = pay[q]
<1>1. NewRow(kind, amount, status) \in PayRow
  BY DEF NewRow, PayRow
<1>2. pay \in Seq(PayRow) /\ Len(pay) \in Nat
  BY TypeFacts
<1> QED
  BY <1>1, <1>2, ConstantFacts

\* Spending credit with no payment behind it.
LEMMA SpendEffect ==
    ASSUME TypeInv, NEW f \in Targets, KeepBook(SpendAll(Book, f, NoOne))
    PROVE  /\ Book' = SpendAll(Book, f, NoOne) /\ SpentFrom(Book, Book', DOMAIN f, NoOne)
<1>1. PICK b : b = SpendAll(Book, f, NoOne)
  OBVIOUS
<1>2. DOMAIN f \subseteq Dues /\ \A a \in DOMAIN f : f[a] \in Nat
  BY TargetsType
<1>3. SpentFrom(Book, b, DOMAIN f, NoOne)
  BY <1>1, <1>2, BookFacts, SpendAllIsSpending
<1>4. b \in Books
  BY <1>3 DEF SpentFrom
<1>5. alloc' = b.alloc /\ credit' = b.credit /\ used' = b.used
  BY <1>1 DEF KeepBook
<1>6. Book' = b
  BY <1>4, <1>5, NextBook
<1> QED
  BY <1>1, <1>3, <1>6

\* Undoing a payment.
LEMMA ReversalEffect ==
    ASSUME TypeInv, NEW p, NEW back, Reversed(back, p),
           alloc' = back.alloc, credit' = back.credit, used' = back.used
    PROVE  Book' \in Books /\ Reversed(Book', p)
<1>1. /\ Book' = [alloc |-> alloc', credit |-> credit', used |-> used']
      /\ Book'.alloc = alloc' /\ Book'.credit = credit' /\ Book'.used = used'
  BY DEF Book
<1>2. Reversed(Book', p)
  BY <1>1 DEF Reversed
<1>3. /\ alloc' \in [PaymentIds \X Dues -> Row]
      /\ \A k \in PaymentIds \X Dues : alloc'[k].live => alloc'[k].amount > 0
  <2>1. /\ alloc \in [PaymentIds \X Dues -> Row]
        /\ \A k \in PaymentIds \X Dues : alloc[k].live => alloc[k].amount > 0
    BY TypeFacts
  <2>2. PICK K : alloc' = Silenced(alloc, K)
    BY DEF Reversed
  <2>3. /\ Silenced(alloc, K) \in [PaymentIds \X Dues -> Row]
        /\ \A k \in PaymentIds \X Dues :
              Silenced(alloc, K)[k].live => Silenced(alloc, K)[k].amount > 0
    BY <2>1, SilencedType
  <2> QED
    BY <2>2, <2>3
<1>4. /\ used' \in Seq(UseRow) /\ Len(used') = Len(used)
      /\ \A u \in 1..Len(used) : used'[u].credit = used[u].credit
  <2>1. PICK U : U = UsesPaidBy(p)
    OBVIOUS
  <2>2. used' = Retired(U)
    BY <2>1 DEF Reversed
  <2>3. /\ Retired(U) \in Seq(UseRow) /\ Len(Retired(U)) = Len(used)
        /\ \A u \in 1..Len(used) : Retired(U)[u].credit = used[u].credit
    BY RetiredType, Zenon
  <2> QED
    BY <2>2, <2>3
<1>5. credit' \in Seq(CreditRow) /\ Len(credit') = Len(credit) /\ Len(credit) <= MaxCredits
  BY TypeFacts DEF Reversed
<1>6. \A u \in 1..Len(used') : used'[u].credit \in 1..Len(credit')
  BY <1>4, <1>5, TypeFacts
<1>7. Book' \in Books
  BY <1>1, <1>3, <1>4, <1>5, <1>6 DEF Books
<1> QED
  BY <1>2, <1>7

UnwindsTo(p) ==
    \/ LET back == GiveBack(ClearCredit(ReverseRows(Book, p), p), p)
       IN  alloc' = back.alloc /\ credit' = back.credit /\ used' = back.used
    \/ LET back == GiveBack(ReverseRows(Book, p), p)
       IN  alloc' = back.alloc /\ credit' = back.credit /\ used' = back.used

LEMMA UnwindEffect ==
    ASSUME TypeInv, NEW p, UnwindsTo(p)
    PROVE  Book' \in Books /\ Reversed(Book', p)
<1>1. PICK back : /\ \/ back = GiveBack(ClearCredit(ReverseRows(Book, p), p), p)
                     \/ back = GiveBack(ReverseRows(Book, p), p)
                  /\ alloc' = back.alloc /\ credit' = back.credit /\ used' = back.used
  BY Zenon DEF UnwindsTo
<1>2. Reversed(back, p)
  BY <1>1, ReversalShape
<1> QED
  BY <1>1, <1>2, ReversalEffect

\* Voiding credit c.
Voided(c) ==
    /\ alloc' = Silenced(alloc, {k \in PaymentIds \X Dues : \E u \in UsesOf(c) : k = RowOf(u)})
    /\ used' = Retired(UsesOf(c))
    /\ credit' \in Seq(CreditRow) /\ Len(credit') = Len(credit)
    /\ \A d \in 1..Len(credit) :
          /\ credit'[d].source = credit[d].source /\ credit'[d].granted = credit[d].granted
          /\ d # c => credit'[d] = credit[d]
          /\ d = c => credit'[d].balance = 0

LEMMA VoidEffect ==
    ASSUME TypeInv, NEW c, VoidCredit(c)
    PROVE  Voided(c) /\ Book' \in Books
<1>1. PICK m \in Nat : m = Len(credit) /\ DOMAIN credit = 1..m /\ \A d \in 1..m : credit[d] \in CreditRow
  BY TypeFacts
<1>2. c \in 1..m
  BY <1>1 DEF VoidCredit
<1>3. UsesOf(c) \in SUBSET (1..Len(used))
  BY DEF UsesOf
<1>4. /\ Book \in Books /\ Book.used = used /\ Len(Book.credit) = Len(credit)
      /\ Book.alloc = alloc
  BY BookFacts
<1>5. PICK un : un = Unapply(Book, UsesOf(c))
  OBVIOUS
<1>6. un = [alloc  |-> [k \in PaymentIds \X Dues |->
                          IF \E u \in UsesOf(c) : k = RowOf(u)
                          THEN [Book.alloc[k] EXCEPT !.live = FALSE] ELSE Book.alloc[k]],
            credit |-> Book.credit,
            used   |-> [u \in 1..Len(used) |->
                          IF u \in UsesOf(c) THEN [Book.used[u] EXCEPT !.live = FALSE]
                          ELSE Book.used[u]]]
  BY <1>3, <1>4, <1>5, UnapplyShape
<1>7. alloc' = un.alloc /\ used' = un.used /\ credit' = [credit EXCEPT ![c].balance = 0]
  BY <1>5 DEF VoidCredit
<1>8. PICK K : K = {k \in PaymentIds \X Dues : \E u \in UsesOf(c) : k = RowOf(u)}
  OBVIOUS
<1>9. alloc' = Silenced(alloc, K) /\ used' = Retired(UsesOf(c))
  BY <1>4, <1>6, <1>7, <1>8 DEF Silenced, Retired
<1>10. credit' = [credit EXCEPT ![c] = [credit[c] EXCEPT !.balance = 0]]
  BY <1>7
<1>11. ASSUME NEW d \in 1..m
       PROVE  /\ credit'[d] \in CreditRow /\ credit'[d].source = credit[d].source
              /\ credit'[d].granted = credit[d].granted /\ (d # c => credit'[d] = credit[d])
              /\ d = c => credit'[d].balance = 0
  <2>1. CASE d = c
    <3>1. credit'[d] = [credit[d] EXCEPT !.balance = 0]
      BY <1>1, <1>10, <2>1
    <3> QED
      BY <1>1, <2>1, <3>1 DEF CreditRow
  <2>2. CASE d # c
    <3>1. credit'[d] = credit[d]
      BY <1>1, <1>10, <2>2
    <3> QED
      BY <1>1, <2>2, <3>1
  <2> QED
    BY <2>1, <2>2
<1>12. credit' \in Seq(CreditRow) /\ Len(credit') = m
  <2>1. credit' = [d \in 1..m |-> credit'[d]]
    BY <1>1, <1>10
  <2>2. credit' \in [1..m -> CreditRow]
    BY <1>11, <2>1
  <2> QED
    BY <2>2
<1>13. Voided(c)
  BY <1>1, <1>8, <1>9, <1>11, <1>12 DEF Voided
<1>14. /\ alloc' \in [PaymentIds \X Dues -> Row]
       /\ \A k \in PaymentIds \X Dues : alloc'[k].live => alloc'[k].amount > 0
  <2>1. /\ alloc \in [PaymentIds \X Dues -> Row]
        /\ \A k \in PaymentIds \X Dues : alloc[k].live => alloc[k].amount > 0
    BY TypeFacts
  <2> QED
    BY <1>9, <2>1, SilencedType
<1>15. /\ used' \in Seq(UseRow) /\ Len(used') = Len(used)
       /\ \A u \in 1..Len(used) : used'[u].credit = used[u].credit
  <2>1. PICK U : U = UsesOf(c)
    OBVIOUS
  <2>2. used' = Retired(U)
    BY <1>9, <2>1
  <2>3. /\ Retired(U) \in Seq(UseRow) /\ Len(Retired(U)) = Len(used)
        /\ \A u \in 1..Len(used) : Retired(U)[u].credit = used[u].credit
    BY RetiredType, Zenon
  <2> QED
    BY <2>2, <2>3
<1>16. \A u \in 1..Len(used') : used'[u].credit \in 1..Len(credit')
  BY <1>1, <1>12, <1>15, TypeFacts
<1>17. /\ Book' = [alloc |-> alloc', credit |-> credit', used |-> used']
       /\ Book'.alloc = alloc' /\ Book'.credit = credit' /\ Book'.used = used'
  BY DEF Book
<1>18. Book' \in Books
  BY <1>1, <1>12, <1>14, <1>15, <1>16, <1>17, TypeFacts DEF Books
<1> QED
  BY <1>13, <1>18

-----------------------------------------------------------------------------
(* The type invariant holds, action by action; along the way, what each    *)
(* action does to an assessment.                                           *)

\* An assessment stays, is synchronised, or is moved by an officer or the sweep.
DueMoved(a) ==
    \/ due'[a] = due[a]
    \/ Synced(a)
    \/ /\ due'[a].paid = due[a].paid
       /\ \/ due'[a].status = "ISSUED" /\ due[a].status \in {"DRAFT", "CANCELLED"}
          \/ due'[a].status = "CANCELLED"
          \/ due'[a].status = "WAIVED" /\ due[a].status \notin {"PAID", "CANCELLED", "WAIVED", "DRAFT"}
          \/ due'[a].status = "OVERDUE" /\ due[a].status \in {"ISSUED", "PARTIALLY_PAID"}

StepOK == TypeInv' /\ \A a \in Dues : DueMoved(a)

LEMMA NextBookFacts ==
    /\ Book' = [alloc |-> alloc', credit |-> credit', used |-> used']
    /\ Book'.alloc = alloc' /\ Book'.credit = credit' /\ Book'.used = used'
  BY DEF Book

\* The pieces of the next state, put together.
LEMMA TypeAssembles ==
    ASSUME due' \in [Dues -> DueRow], pay' \in Seq(PayRow), Len(pay') <= MaxPayments,
           Book' \in Books, \A c \in 1..Len(credit') : credit'[c].source \in 1..Len(pay')
    PROVE  TypeInv'
  BY DEF TypeInv

LEMMA SyncStep ==
    ASSUME TypeInv, pay' \in Seq(PayRow), Len(pay') <= MaxPayments, Book' \in Books,
           \A c \in 1..Len(credit') : credit'[c].source \in 1..Len(pay'),
           NEW S, SyncAssessments(S)
    PROVE  StepOK
<1>1. alloc' \in [PaymentIds \X Dues -> Row]
  BY NextBookFacts DEF Books
<1>2. /\ due' \in [Dues -> DueRow]
      /\ \A a \in Dues : (a \in S => Synced(a)) /\ (a \notin S => due'[a] = due[a])
  BY <1>1, SyncEffect
<1>3. \A a \in Dues : DueMoved(a)
  BY <1>2 DEF DueMoved
<1> QED
  BY <1>2, <1>3, TypeAssembles DEF StepOK

LEMMA RecordStep ==
    ASSUME TypeInv, NEW kind \in PayKind, NEW status \in PayStatus, NEW f \in Targets,
           NEW useCredit, RecordPayment(kind, status, f, useCredit)
    PROVE  StepOK
<1>1. PICK n \in Nat : /\ pay' = Append(pay, NewRow(kind, n, status))
                       /\ Len(pay) < MaxPayments /\ due' = due
  BY RecordEffect
<1>2. /\ pay' \in Seq(PayRow) /\ Len(pay') = Len(pay) + 1 /\ Len(pay') <= MaxPayments
  BY <1>1, AppendEffect
<1>3. PICK cash : /\ cash \in Books /\ cash.credit = credit
                  /\ SpentFrom(cash, Book', DOMAIN f, Len(pay) + 1)
  <2>1. PICK c : c = Cash(f, useCredit)
    OBVIOUS
  <2>2. DOMAIN c \subseteq Dues /\ \A a \in DOMAIN c : c[a] \in Nat
    BY <2>1, CashType, TargetsType
  <2>3. CashBook(f, useCredit).credit = credit
    BY <2>1, <2>2, CashRowsShape DEF CashBook
  <2> QED
    BY <2>3, RecordEffect
<1>4. Book' \in Books /\ Len(credit') = Len(credit)
      /\ \A c \in 1..Len(credit) : credit'[c].source = credit[c].source
  BY <1>3, NextBookFacts DEF SpentFrom
<1>5. \A c \in 1..Len(credit') : credit'[c].source \in 1..Len(pay')
  BY <1>2, <1>4, TypeFacts
<1>6. due' \in [Dues -> DueRow] /\ \A a \in Dues : DueMoved(a)
  BY <1>1, TypeFacts DEF DueMoved
<1> QED
  BY <1>2, <1>4, <1>5, <1>6, TypeAssembles DEF StepOK

LEMMA SpendTypes ==
    ASSUME TypeInv, NEW f \in Targets, KeepBook(SpendAll(Book, f, NoOne)), pay' = pay
    PROVE  /\ Book' \in Books /\ pay' \in Seq(PayRow) /\ Len(pay') <= MaxPayments
           /\ \A c \in 1..Len(credit') : credit'[c].source \in 1..Len(pay')
<1>1. SpentFrom(Book, Book', DOMAIN f, NoOne)
  BY SpendEffect
<1>2. Book' \in Books /\ Len(credit') = Len(credit)
      /\ \A c \in 1..Len(credit) : credit'[c].source = credit[c].source
  BY <1>1, BookFacts, NextBookFacts DEF SpentFrom
<1> QED
  BY <1>2, TypeFacts

LEMMA SettleStep ==
    ASSUME TypeInv, SettleByCredit
    PROVE  StepOK
<1>1. PICK f \in Targets : KeepBook(SpendAll(Book, f, NoOne)) /\ due' = due /\ pay' = pay
  BY DEF SettleByCredit
<1>2. due' \in [Dues -> DueRow] /\ \A a \in Dues : DueMoved(a)
  BY <1>1, TypeFacts DEF DueMoved
<1> QED
  BY <1>1, <1>2, SpendTypes, TypeAssembles DEF StepOK

LEMMA ApplyStep ==
    ASSUME TypeInv, ApplyManual
    PROVE  StepOK
<1>1. PICK f \in Targets : /\ KeepBook(SpendAll(Book, f, NoOne)) /\ pay' = pay
                           /\ SyncAssessments(DOMAIN f)
  BY DEF ApplyManual
<1>2. /\ Book' \in Books /\ pay' \in Seq(PayRow) /\ Len(pay') <= MaxPayments
      /\ \A c \in 1..Len(credit') : credit'[c].source \in 1..Len(pay')
  BY <1>1, SpendTypes
<1> QED
  BY <1>1, <1>2, SyncStep

\* New rows for p in place of the old ones.
LEMMA ReplaceRowsShape ==
    ASSUME TypeInv, NEW p, NEW f, DOMAIN f \subseteq Dues, \A a \in DOMAIN f : f[a] \in Nat \ {0},
           ReplaceRows(p, f)
    PROVE  /\ alloc' \in [PaymentIds \X Dues -> Row]
           /\ \A k \in PaymentIds \X Dues : /\ alloc'[k].live => alloc'[k].amount > 0
                                            /\ k[1] # p => alloc'[k] = alloc[k]
<1>1. alloc \in [PaymentIds \X Dues -> Row] /\ DOMAIN alloc = PaymentIds \X Dues
  BY TypeFacts
<1>2. alloc' = [k \in PaymentIds \X Dues |->
                  IF k[1] # p THEN alloc[k]
                  ELSE IF k[2] \in DOMAIN f THEN [amount |-> f[k[2]], live |-> TRUE]
                  ELSE [amount |-> 0, live |-> FALSE]]
  BY <1>1, Zenon DEF ReplaceRows
<1>3. ASSUME NEW k \in PaymentIds \X Dues
      PROVE  /\ alloc'[k] \in Row /\ (alloc'[k].live => alloc'[k].amount > 0)
             /\ k[1] # p => alloc'[k] = alloc[k]
  <2>1. CASE k[1] # p
    <3>1. alloc'[k] = alloc[k]
      BY <1>2, <2>1
    <3> QED
      BY <1>1, <3>1, TypeFacts
  <2>2. CASE k[1] = p /\ k[2] \in DOMAIN f
    <3>1. alloc'[k] = [amount |-> f[k[2]], live |-> TRUE]
      BY <1>2, <2>2
    <3>2. f[k[2]] \in Nat \ {0}
      BY <2>2
    <3> QED
      BY <2>2, <3>1, <3>2 DEF Row
  <2>3. CASE k[1] = p /\ k[2] \notin DOMAIN f
    <3>1. alloc'[k] = [amount |-> 0, live |-> FALSE]
      BY <1>2, <2>3
    <3> QED
      BY <2>3, <3>1 DEF Row
  <2> QED
    BY <2>1, <2>2, <2>3
<1>4. alloc' \in [PaymentIds \X Dues -> Row]
  <2>1. alloc' = [k \in PaymentIds \X Dues |-> alloc'[k]]
    BY <1>2
  <2> QED
    BY <1>3, <2>1
<1> QED
  BY <1>3, <1>4

\* Editing a pending payment: its amount, and possibly its rows.
LEMMA UpdateEffect ==
    ASSUME TypeInv, NEW p \in PaymentIds, UpdatePayment(p)
    PROVE  /\ PayChanged(p) /\ p \in 1..Len(pay)
           /\ pay[p].status = "PENDING_VERIFICATION" /\ pay'[p].status = pay[p].status
           /\ pay'[p].deleted = pay[p].deleted
           /\ alloc' \in [PaymentIds \X Dues -> Row]
           /\ \A k \in PaymentIds \X Dues : /\ alloc'[k].live => alloc'[k].amount > 0
                                            /\ k[1] # p => alloc'[k] = alloc[k]
           /\ due' = due /\ credit' = credit /\ used' = used
<1>1. p \in 1..Len(pay) /\ pay[p].status = "PENDING_VERIFICATION" /\ due' = due
      /\ credit' = credit /\ used' = used
  BY DEF UpdatePayment, HasStatus, Live
<1>2. Dues # {} => Max(ToSet(Amount)) \in Nat
  BY LargestAmount
<1>3. PICK n \in 1..Max(ToSet(Amount)) :
        /\ pay' = [pay EXCEPT ![p].amount = n]
        /\ \/ alloc' = alloc
           \/ ReplaceRows(p, << >>)
           \/ \E f \in Targets : SumFunction(f) = n /\ ReplaceRows(p, f)
  BY DEF UpdatePayment
<1>4. /\ alloc' \in [PaymentIds \X Dues -> Row]
      /\ \A k \in PaymentIds \X Dues : /\ alloc'[k].live => alloc'[k].amount > 0
                                       /\ k[1] # p => alloc'[k] = alloc[k]
  <2>1. CASE alloc' = alloc
    BY <2>1, TypeFacts
  <2>2. CASE ReplaceRows(p, << >>)
    <3>1. DOMAIN << >> = {}
      OBVIOUS
    <3> QED
      BY <2>2, <3>1, ReplaceRowsShape
  <2>3. ASSUME NEW f \in Targets, ReplaceRows(p, f)
        PROVE  /\ alloc' \in [PaymentIds \X Dues -> Row]
               /\ \A k \in PaymentIds \X Dues : /\ alloc'[k].live => alloc'[k].amount > 0
                                                /\ k[1] # p => alloc'[k] = alloc[k]
    <3>1. DOMAIN f \subseteq Dues /\ \A a \in DOMAIN f : f[a] \in Nat \ {0}
      BY TargetsType
    <3> QED
      BY <2>3, <3>1, ReplaceRowsShape
  <2> QED
    BY <1>3, <2>1, <2>2, <2>3
<1>5. n \in Nat
  BY <1>3
<1>6. PICK m \in Nat : m = Len(pay) /\ DOMAIN pay = 1..m /\ \A q \in 1..m : pay[q] \in PayRow
  BY TypeFacts
<1>7. pay' = [pay EXCEPT ![p] = [pay[p] EXCEPT !.amount = n]]
  BY <1>3
<1>8. ASSUME NEW q \in 1..m
      PROVE  /\ pay'[q] \in PayRow /\ (q # p => pay'[q] = pay[q]) /\ pay'[q].kind = pay[q].kind
             /\ q = p => pay'[q].status = pay[q].status /\ pay'[q].deleted = pay[q].deleted
  <2>1. CASE q = p
    <3>1. pay'[q] = [pay[q] EXCEPT !.amount = n]
      BY <1>6, <1>7, <2>1
    <3> QED
      BY <1>5, <1>6, <2>1, <3>1 DEF PayRow
  <2>2. CASE q # p
    <3>1. pay'[q] = pay[q]
      BY <1>6, <1>7, <2>2
    <3> QED
      BY <1>6, <2>2, <3>1
  <2> QED
    BY <2>1, <2>2
<1>9. pay' \in Seq(PayRow) /\ Len(pay') = m
  <2>1. pay' \in [1..m -> PayRow]
    <3>1. pay' = [q \in 1..m |-> pay'[q]]
      BY <1>6, <1>7
    <3> QED
      BY <1>8, <3>1
  <2> QED
    BY <2>1
<1>10. PayChanged(p)
  BY <1>6, <1>8, <1>9 DEF PayChanged
<1> QED
  BY <1>1, <1>4, <1>6, <1>8, <1>10

LEMMA UpdateStep ==
    ASSUME TypeInv, NEW p \in PaymentIds, UpdatePayment(p)
    PROVE  StepOK
<1>1. /\ pay' \in Seq(PayRow) /\ Len(pay') = Len(pay)
      /\ alloc' \in [PaymentIds \X Dues -> Row]
      /\ \A k \in PaymentIds \X Dues : alloc'[k].live => alloc'[k].amount > 0
      /\ due' = due /\ credit' = credit /\ used' = used
  BY UpdateEffect DEF PayChanged
<1>2. Book' \in Books
  BY <1>1, NextBookFacts, TypeFacts DEF Books
<1>3. due' \in [Dues -> DueRow] /\ \A a \in Dues : DueMoved(a)
  BY <1>1, TypeFacts DEF DueMoved
<1>4. Len(pay') <= MaxPayments /\ \A c \in 1..Len(credit') : credit'[c].source \in 1..Len(pay')
  BY <1>1, TypeFacts
<1> QED
  BY <1>1, <1>2, <1>3, <1>4, TypeAssembles DEF StepOK

\* A change of one payment and no books, then the synchronisation.
LEMMA PlainStep ==
    ASSUME TypeInv, NEW p \in 1..Len(pay), NEW status \in PayStatus, SetStatus(p, status),
           alloc' = alloc, credit' = credit, used' = used, NEW S, SyncAssessments(S)
    PROVE  StepOK
<1>1. pay' \in Seq(PayRow) /\ Len(pay') = Len(pay) /\ Len(pay') <= MaxPayments
  BY StatusEffect, TypeFacts DEF StatusSet, PayChanged
<1>2. Book' \in Books
  BY BookFacts, NextBookFacts
<1>3. \A c \in 1..Len(credit') : credit'[c].source \in 1..Len(pay')
  BY <1>1, TypeFacts
<1> QED
  BY <1>1, <1>2, <1>3, SyncStep

\* A change of one payment that is undone, then the synchronisation.
LEMMA UndoStep ==
    ASSUME TypeInv, NEW p, PayChanged(p), UnwindsTo(p), NEW S, SyncAssessments(S)
    PROVE  StepOK
<1>1. Book' \in Books /\ Reversed(Book', p)
  BY UnwindEffect
<1>2. Len(credit') = Len(credit) /\ \A c \in 1..Len(credit) : credit'[c].source = credit[c].source
  BY <1>1, NextBookFacts DEF Reversed
<1>3. pay' \in Seq(PayRow) /\ Len(pay') = Len(pay) /\ Len(pay') <= MaxPayments
  BY TypeFacts DEF PayChanged
<1>4. \A c \in 1..Len(credit') : credit'[c].source \in 1..Len(pay')
  BY <1>2, <1>3, TypeFacts
<1> QED
  BY <1>1, <1>3, <1>4, SyncStep

\* Deleting payment p.
Deletes(p) == pay' = [pay EXCEPT ![p].deleted = TRUE]

LEMMA DeleteEffect ==
    ASSUME TypeInv, NEW p \in 1..Len(pay), Deletes(p)
    PROVE  /\ PayChanged(p) /\ pay'[p].deleted /\ pay'[p].status = pay[p].status
           /\ pay'[p].amount = pay[p].amount
<1>1. PICK m \in Nat : m = Len(pay) /\ DOMAIN pay = 1..m /\ \A q \in 1..m : pay[q] \in PayRow
  BY TypeFacts
<1>2. pay' = [pay EXCEPT ![p] = [pay[p] EXCEPT !.deleted = TRUE]]
  BY DEF Deletes
<1>3. ASSUME NEW q \in 1..m
      PROVE  /\ pay'[q] \in PayRow /\ (q # p => pay'[q] = pay[q]) /\ pay'[q].kind = pay[q].kind
             /\ q = p => /\ pay'[q].status = pay[q].status /\ pay'[q].deleted = TRUE
                         /\ pay'[q].amount = pay[q].amount
  <2>1. CASE q = p
    <3>1. pay'[q] = [pay[q] EXCEPT !.deleted = TRUE]
      BY <1>1, <1>2, <2>1
    <3> QED
      BY <1>1, <2>1, <3>1 DEF PayRow
  <2>2. CASE q # p
    <3>1. pay'[q] = pay[q]
      BY <1>1, <1>2, <2>2
    <3> QED
      BY <1>1, <2>2, <3>1
  <2> QED
    BY <2>1, <2>2
<1>4. pay' \in Seq(PayRow) /\ Len(pay') = m
  <2>1. pay' \in [1..m -> PayRow]
    <3>1. pay' = [q \in 1..m |-> pay'[q]]
      BY <1>1, <1>2
    <3> QED
      BY <1>3, <3>1
  <2> QED
    BY <2>1
<1> QED
  BY <1>1, <1>3, <1>4 DEF PayChanged

\* What rejecting, refunding, cancelling, deleting and giving up on a payment
\* have in common.
Undone(p) ==
    /\ p \in 1..Len(pay) /\ ~pay[p].deleted /\ PayChanged(p) /\ UnwindsTo(p)
    /\ \/ pay'[p].status \in {"REJECTED", "REFUNDED", "CANCELLED", "FAILED", "EXPIRED"}
       \/ pay'[p].deleted
    /\ pay'[p].amount = pay[p].amount
    /\ \E S : SyncAssessments(S) /\ Rows(p) \subseteq S
              /\ \A u \in UsesPaidBy(p) : used[u].due \in S

UndoAction(p) ==
    \/ Reject(p) \/ Refund(p) \/ Cancel(p) \/ RemovePayment(p)
    \/ GatewayFailed(p) \/ GatewayExpired(p)

LEMMA UndoEffect ==
    ASSUME TypeInv, NEW p, UndoAction(p)
    PROVE  Undone(p)
<1> DEFINE Sync == \E S : SyncAssessments(S) /\ Rows(p) \subseteq S
                          /\ \A u \in UsesPaidBy(p) : used[u].due \in S
<1>1. p \in 1..Len(pay) /\ ~pay[p].deleted
  BY DEF UndoAction, Reject, Refund, Cancel, RemovePayment, GatewayFailed, GatewayExpired,
         GatewayGaveUp, HasStatus, Live
<1>2. UnwindsTo(p)
  BY Zenon DEF UndoAction, Reject, Refund, Cancel, RemovePayment, GatewayFailed, GatewayExpired,
               GatewayGaveUp, Unwind, UnwindsTo
<1>3. SyncAssessments(Rows(p) \cup {used[u].due : u \in UsesPaidBy(p)})
  BY Zenon DEF UndoAction, Reject, Refund, Cancel, RemovePayment, GatewayFailed, GatewayExpired,
               GatewayGaveUp, Unwind
<1>4. Sync
  <2>1. PICK S : S = Rows(p) \cup {used[u].due : u \in UsesPaidBy(p)}
    OBVIOUS
  <2>2. Rows(p) \subseteq S /\ \A u \in UsesPaidBy(p) : used[u].due \in S
    BY <2>1
  <2> QED
    BY <1>3, <2>1, <2>2
<1>5. CASE \E s \in {"REJECTED", "REFUNDED", "CANCELLED", "FAILED", "EXPIRED"} : SetStatus(p, s)
  <2>1. PICK s \in {"REJECTED", "REFUNDED", "CANCELLED", "FAILED", "EXPIRED"} : SetStatus(p, s)
    BY <1>5
  <2>2. s \in PayStatus
    BY <2>1 DEF PayStatus
  <2>3. StatusSet(p, s)
    BY <1>1, <2>1, <2>2, StatusEffect
  <2> QED
    BY <1>1, <1>2, <1>4, <2>1, <2>3 DEF StatusSet, Undone
<1>6. CASE Deletes(p)
  BY <1>1, <1>2, <1>4, <1>6, DeleteEffect DEF Undone
<1> QED
  BY <1>5, <1>6 DEF UndoAction, Reject, Refund, Cancel, RemovePayment, GatewayFailed,
                    GatewayExpired, GatewayGaveUp, Deletes

LEMMA UndoActionStep ==
    ASSUME TypeInv, NEW p, UndoAction(p)
    PROVE  StepOK
  BY UndoEffect, UndoStep DEF Undone

LEMMA PlainVerifyStep ==
    ASSUME TypeInv, NEW p, (HasStatus(p, {"PENDING_VERIFICATION"}) /\ VerifyPlain(p))
                           \/ GatewaySucceeded(p)
    PROVE  StepOK
<1>1. p \in 1..Len(pay) /\ "VERIFIED" \in PayStatus
  BY DEF HasStatus, Live, GatewaySucceeded, PayStatus
<1>2. SetStatus(p, "VERIFIED") /\ SyncAssessments(Rows(p))
  BY Zenon DEF VerifyPlain, GatewaySucceeded
<1>3. alloc' = alloc /\ credit' = credit /\ used' = used
  BY DEF VerifyPlain, GatewaySucceeded
<1> QED
  BY <1>1, <1>2, <1>3, PlainStep

\* An advance payment settles outstanding assessments and leaves the rest as
\* a credit of its own.
Hands(p)  == Fifo([a \in Outstanding |-> Collectible(a)], pay[p].amount)
Hits(p)   == {a \in DOMAIN Hands(p) : Hands(p)[a] > 0}
Done(p)   == {a \in Hits(p) : \A b \in Hits(p) \cap Rows(p) : a < b}
Excess(p) == pay[p].amount - SumFunction(Hands(p))

LEMMA AdvanceEffect ==
    ASSUME TypeInv, NEW p, HasStatus(p, {"PENDING_VERIFICATION"}), VerifyAdvance(p)
    PROVE  /\ p \in 1..Len(pay) /\ pay[p].kind = "ADVANCE" /\ StatusSet(p, "VERIFIED")
           /\ Book' \in Books /\ used' = used
           /\ \A k \in PaymentIds \X Dues : k[1] # p => alloc'[k] = alloc[k]
           /\ \/ credit' = credit
              \/ \E n \in Nat : credit' = Append(credit, [source |-> p, balance |-> n, granted |-> n])
           /\ \E S : SyncAssessments(S)
<1>1. /\ p \in 1..Len(pay) /\ pay[p] \in PayRow /\ "VERIFIED" \in PayStatus /\ p \in PaymentIds
  BY TypeFacts, ConstantFacts DEF HasStatus, Live, PayStatus
<1>2. pay[p].kind = "ADVANCE" /\ SetStatus(p, "VERIFIED") /\ used' = used
  BY DEF VerifyAdvance
<1>3. StatusSet(p, "VERIFIED")
  BY <1>1, <1>2, StatusEffect
<1>4. /\ DOMAIN Hands(p) \subseteq Dues /\ \A a \in DOMAIN Hands(p) : Hands(p)[a] \in Nat
      /\ SumFunction(Hands(p)) \in Nat
  <2>1. PICK cap : cap = [a \in Outstanding |-> Collectible(a)]
    OBVIOUS
  <2>2. Outstanding \subseteq Dues /\ IsFiniteSet(Outstanding) /\ Dues \subseteq Int
    <3>1. Outstanding \subseteq Dues
      BY DEF Outstanding
    <3> QED
      BY <3>1, DuesFacts
  <2>3. \A a \in Outstanding : Collectible(a) \in Nat
    <3> SUFFICES ASSUME NEW a \in Outstanding PROVE Collectible(a) \in Nat
      OBVIOUS
    <3>1. due[a].paid \in Nat /\ Amount[a] \in Nat
      BY <2>2, TypeFacts, DuesFacts DEF DueRow
    <3> QED
      BY <3>1 DEF Collectible, Max2
  <2>4. DOMAIN cap = Outstanding /\ \A a \in DOMAIN cap : cap[a] \in Nat
    BY <2>1, <2>3
  <2>5. PICK n \in Nat : n = pay[p].amount
    BY <1>1 DEF PayRow
  <2>6. PICK g : g = Fifo(cap, n)
    OBVIOUS
  <2>7. DOMAIN g = DOMAIN cap /\ \A a \in DOMAIN cap : g[a] \in 0..cap[a]
    <3>1. DOMAIN cap \subseteq Int /\ IsFiniteSet(DOMAIN cap)
      BY <2>2, <2>4
    <3> QED
      BY <2>4, <2>5, <2>6, <3>1, FifoType
  <2>8. g = Hands(p)
    BY <2>1, <2>5, <2>6 DEF Hands
  <2>9. \A a \in DOMAIN g : g[a] \in Nat
    BY <2>4, <2>7
  <2>10. SumFunctionOnSet(g, DOMAIN g) \in Nat
    BY <2>2, <2>4, <2>7, <2>9, SumType
  <2> QED
    BY <2>2, <2>4, <2>7, <2>8, <2>9, <2>10 DEF SumFunction
<1>5. alloc' = [k \in DOMAIN alloc |->
                  IF k[1] = p /\ k[2] \in Done(p)
                  THEN [amount |-> Hands(p)[k[2]], live |-> TRUE] ELSE alloc[k]]
  BY Zenon DEF VerifyAdvance, Hands, Hits, Done
<1>6. /\ alloc \in [PaymentIds \X Dues -> Row] /\ DOMAIN alloc = PaymentIds \X Dues
      /\ \A k \in PaymentIds \X Dues : alloc[k].live => alloc[k].amount > 0
  BY TypeFacts
<1>7. ASSUME NEW k \in PaymentIds \X Dues
      PROVE  /\ alloc'[k] \in Row /\ (alloc'[k].live => alloc'[k].amount > 0)
             /\ k[1] # p => alloc'[k] = alloc[k]
  <2>1. CASE k[1] = p /\ k[2] \in Done(p)
    <3>1. alloc'[k] = [amount |-> Hands(p)[k[2]], live |-> TRUE]
      BY <1>5, <1>6, <2>1
    <3>2. Hands(p)[k[2]] \in Nat /\ Hands(p)[k[2]] > 0
      BY <1>4, <2>1 DEF Done, Hits
    <3> QED
      BY <2>1, <3>1, <3>2 DEF Row
  <2>2. CASE ~(k[1] = p /\ k[2] \in Done(p))
    <3>1. alloc'[k] = alloc[k]
      BY <1>5, <1>6, <2>2
    <3> QED
      BY <1>6, <3>1
  <2> QED
    BY <2>1, <2>2
<1>8. alloc' \in [PaymentIds \X Dues -> Row]
  <2>1. alloc' = [k \in PaymentIds \X Dues |-> alloc'[k]]
    BY <1>5, <1>6
  <2> QED
    BY <1>7, <2>1
<1>9. \/ credit' = credit
      \/ /\ Excess(p) > 0 /\ Len(credit) < MaxCredits
         /\ credit' = Append(credit, [source |-> p, balance |-> Excess(p), granted |-> Excess(p)])
  BY Zenon DEF VerifyAdvance, Excess, Hands
<1>10. \/ credit' = credit
       \/ /\ Len(credit) < MaxCredits
          /\ \E n \in Nat : credit' = Append(credit, [source |-> p, balance |-> n, granted |-> n])
  <2>1. Excess(p) > 0 => Excess(p) \in Nat
    BY <1>1, <1>4 DEF Excess, PayRow
  <2> QED
    BY <1>9, <2>1
<1>11. credit' \in Seq(CreditRow) /\ Len(credit') <= MaxCredits /\ Len(credit) <= Len(credit')
  <2>1. credit \in Seq(CreditRow) /\ Len(credit) \in Nat /\ Len(credit) <= MaxCredits
    BY TypeFacts
  <2>2. ASSUME NEW n \in Nat PROVE [source |-> p, balance |-> n, granted |-> n] \in CreditRow
    BY <1>1 DEF CreditRow
  <2>3. CASE credit' = credit
    BY <2>1, <2>3
  <2>4. ASSUME NEW r \in CreditRow, credit' = Append(credit, r), Len(credit) < MaxCredits
        PROVE  credit' \in Seq(CreditRow) /\ Len(credit') <= MaxCredits /\ Len(credit) <= Len(credit')
    BY <2>1, <2>4, ConstantFacts
  <2> QED
    BY <1>10, <2>2, <2>3, <2>4
<1>12. Book' \in Books
  <2>1. \A u \in 1..Len(used') : used'[u].credit \in 1..Len(credit')
    BY <1>2, <1>11, TypeFacts
  <2> QED
    BY <1>2, <1>7, <1>8, <1>11, <2>1, NextBookFacts, TypeFacts DEF Books
<1>13. \E S : SyncAssessments(S)
  BY Zenon DEF VerifyAdvance
<1> QED
  BY <1>1, <1>2, <1>3, <1>7, <1>10, <1>12, <1>13

\* A new credit comes from a payment that exists by then.
LEMMA GrantedSources ==
    ASSUME TypeInv, NEW p, NEW n, Len(pay) <= Len(pay'), Len(pay') \in Nat, p \in 1..Len(pay'),
           credit' = Append(credit, [source |-> p, balance |-> n, granted |-> n])
    PROVE  \A c \in 1..Len(credit') : credit'[c].source \in 1..Len(pay')
<1>1. PICK m \in Nat : m = Len(credit) /\ \A c \in 1..m : credit[c].source \in 1..Len(pay)
  BY TypeFacts
<1>2. PICK r : r = [source |-> p, balance |-> n, granted |-> n]
  OBVIOUS
<1>3. /\ Len(credit') = m + 1 /\ credit'[m + 1] = r
      /\ \A c \in 1..m : credit'[c] = credit[c]
  BY <1>1, <1>2, TypeFacts
<1>4. r.source = p
  BY <1>2
<1>5. \A c \in 1..m : credit'[c].source \in 1..Len(pay')
  BY <1>1, <1>3, TypeFacts
<1> QED
  BY <1>1, <1>3, <1>4, <1>5

LEMMA AdvanceStep ==
    ASSUME TypeInv, NEW p, HasStatus(p, {"PENDING_VERIFICATION"}), VerifyAdvance(p)
    PROVE  StepOK
<1>1. pay' \in Seq(PayRow) /\ Len(pay') = Len(pay) /\ Len(pay') <= MaxPayments
  BY AdvanceEffect, TypeFacts DEF StatusSet, PayChanged
<1>2. \A c \in 1..Len(credit') : credit'[c].source \in 1..Len(pay')
  <2>1. CASE credit' = credit
    BY <1>1, <2>1, TypeFacts
  <2>2. CASE \E n \in Nat : credit' = Append(credit, [source |-> p, balance |-> n, granted |-> n])
    <3>1. Len(pay) <= Len(pay') /\ Len(pay') \in Nat /\ p \in 1..Len(pay')
      BY <1>1, AdvanceEffect, TypeFacts
    <3> QED
      BY <2>2, <3>1, GrantedSources
  <2> QED
    BY <2>1, <2>2, AdvanceEffect
<1> QED
  BY <1>1, <1>2, AdvanceEffect, SyncStep

LEMMA SpentType ==
    ASSUME TypeInv, NEW c
    PROVE  SpentOf(c) \in Nat
<1>1. PICK m \in Nat : m = Len(used) /\ \A u \in 1..m : used[u] \in UseRow
  BY TypeFacts
<1>2. PICK f : f = [u \in 1..m |-> used[u].amount]
  OBVIOUS
<1>3. UsesOf(c) \subseteq 1..m /\ IsFiniteSet(UsesOf(c))
  <2>1. UsesOf(c) \subseteq 1..m
    BY <1>1 DEF UsesOf
  <2>2. IsFiniteSet(1..m)
    BY FS_Interval
  <2> QED
    BY <2>1, <2>2, FS_Subset
<1>4. \A u \in UsesOf(c) : f[u] \in Nat
  BY <1>1, <1>2, <1>3 DEF UseRow
<1>5. SpentOf(c) = SumFunctionOnSet(f, UsesOf(c))
  BY <1>1, <1>2 DEF SpentOf
<1> QED
  BY <1>3, <1>4, <1>5, SumType

\* Issuing a credit: one more payment, one more credit.
LEMMA IssueEffect ==
    ASSUME TypeInv, NEW n \in CreditAmounts, IssueCredit(n)
    PROVE  /\ n \in Nat /\ Len(pay) < MaxPayments /\ Len(credit) < MaxCredits
           /\ pay' = Append(pay, NewRow("CREDIT_ISSUE", n, "VERIFIED"))
           /\ credit' = Append(credit, [source |-> Len(pay) + 1, balance |-> n, granted |-> n])
           /\ credit' \in Seq(CreditRow) /\ Len(credit') = Len(credit) + 1
           /\ due' = due /\ alloc' = alloc /\ used' = used
<1>1. n \in Nat
  BY ConstantFacts
<1>2. /\ Len(pay) < MaxPayments /\ Len(credit) < MaxCredits
      /\ pay' = Append(pay, NewRow("CREDIT_ISSUE", n, "VERIFIED"))
      /\ credit' = Append(credit, [source |-> Len(pay) + 1, balance |-> n, granted |-> n])
      /\ due' = due /\ alloc' = alloc /\ used' = used
  BY DEF IssueCredit, NewPayment, NewRow
<1>3. Len(pay) + 1 \in PaymentIds
  BY <1>2, TypeFacts, ConstantFacts
<1>4. PICK r \in CreditRow : r = [source |-> Len(pay) + 1, balance |-> n, granted |-> n]
  BY <1>1, <1>3 DEF CreditRow
<1>5. credit' \in Seq(CreditRow) /\ Len(credit') = Len(credit) + 1
  <2>1. credit \in Seq(CreditRow)
    BY TypeFacts
  <2>2. credit' = Append(credit, r)
    BY <1>2, <1>4
  <2> QED
    BY <2>1, <2>2
<1> QED
  BY <1>1, <1>2, <1>5

LEMMA IssueStep ==
    ASSUME TypeInv, NEW n \in CreditAmounts, IssueCredit(n)
    PROVE  StepOK
<1>1. PICK m \in Nat : m = n
  BY IssueEffect
<1>2. "CREDIT_ISSUE" \in PayKind /\ "VERIFIED" \in PayStatus
  BY DEF PayKind, PayStatus
<1>3. /\ pay' \in Seq(PayRow) /\ Len(pay') = Len(pay) + 1 /\ Len(pay') <= MaxPayments
  BY <1>1, <1>2, IssueEffect, AppendEffect
<1>4. \A c \in 1..Len(credit') : credit'[c].source \in 1..Len(pay')
  <2>1. PICK p : p = Len(pay) + 1
    OBVIOUS
  <2>2. Len(pay) <= Len(pay') /\ Len(pay') \in Nat /\ p \in 1..Len(pay')
    BY <1>3, <2>1, TypeFacts
  <2>3. credit' = Append(credit, [source |-> p, balance |-> n, granted |-> n])
    BY <2>1, IssueEffect
  <2> QED
    BY <2>2, <2>3, GrantedSources
<1>5. Book' \in Books
  <2>0. PICK m1 \in Nat : /\ m1 = Len(credit) /\ m1 < MaxCredits /\ Len(credit') = m1 + 1
                         /\ used' = used /\ Len(used) \in Nat
    BY IssueEffect, TypeFacts
  <2>1. \A u \in 1..Len(used') : used'[u].credit \in 1..Len(credit')
    <3>1. \A u \in 1..Len(used) : used[u].credit \in 1..m1
      BY <2>0, TypeFacts
    <3> QED
      BY <2>0, <3>1
  <2>2. Len(credit') <= MaxCredits
    BY <2>0, ConstantFacts
  <2> QED
    BY <2>1, <2>2, IssueEffect, NextBookFacts, TypeFacts DEF Books
<1>6. due' \in [Dues -> DueRow] /\ \A a \in Dues : DueMoved(a)
  BY IssueEffect, TypeFacts DEF DueMoved
<1> QED
  BY <1>3, <1>4, <1>5, <1>6, TypeAssembles DEF StepOK

\* Adjusting a credit.
LEMMA AdjustEffect ==
    ASSUME TypeInv, NEW c, NEW n \in CreditAmounts, AdjustCredit(c, n)
    PROVE  /\ credit' \in Seq(CreditRow) /\ Len(credit') = Len(credit)
           /\ c \in 1..Len(credit)
           /\ credit'[c].balance = n /\ credit'[c].granted = n + SpentOf(c)
           /\ \A d \in 1..Len(credit) : /\ credit'[d].source = credit[d].source
                                        /\ d # c => credit'[d] = credit[d]
           /\ due' = due /\ alloc' = alloc /\ used' = used /\ pay' = pay
<1>1. n \in Nat /\ SpentOf(c) \in Nat
  BY ConstantFacts, SpentType
<1>2. PICK m \in Nat : m = Len(credit) /\ DOMAIN credit = 1..m /\ \A d \in 1..m : credit[d] \in CreditRow
  BY TypeFacts
<1>3. c \in 1..m
  BY <1>2 DEF AdjustCredit
<1>4. PICK g \in Nat : g = n + SpentOf(c)
  BY <1>1
<1>5. credit' = [credit EXCEPT ![c].balance = n, ![c].granted = g]
  BY <1>4 DEF AdjustCredit
<1>6. PICK C : C = [credit EXCEPT ![c] = [credit[c] EXCEPT !.balance = n]]
  OBVIOUS
<1>7. credit' = [C EXCEPT ![c] = [C[c] EXCEPT !.granted = g]]
  BY <1>5, <1>6
<1>8. DOMAIN C = 1..m /\ \A d \in 1..m : d # c => C[d] = credit[d]
  BY <1>2, <1>6
<1>9. C[c] = [credit[c] EXCEPT !.balance = n]
  BY <1>2, <1>3, <1>6
<1>10. C[c] \in CreditRow /\ C[c].balance = n /\ C[c].source = credit[c].source
  BY <1>1, <1>2, <1>3, <1>9 DEF CreditRow
<1>11. /\ DOMAIN credit' = 1..m /\ \A d \in 1..m : d # c => credit'[d] = credit[d]
       /\ credit' = [d \in 1..m |-> credit'[d]]
  BY <1>7, <1>8
<1>12. credit'[c] = [C[c] EXCEPT !.granted = g]
  BY <1>3, <1>7, <1>8
<1>13. credit'[c] \in CreditRow /\ credit'[c].balance = n /\ credit'[c].granted = g
       /\ credit'[c].source = credit[c].source
  BY <1>10, <1>12 DEF CreditRow
<1>14. credit' \in Seq(CreditRow) /\ Len(credit') = m
  <2>1. \A d \in 1..m : credit'[d] \in CreditRow
    BY <1>2, <1>11, <1>13
  <2>2. credit' \in [1..m -> CreditRow]
    BY <1>11, <2>1
  <2> HIDE <1>5, <1>7
  <2> QED
    BY <2>2
<1>15. due' = due /\ alloc' = alloc /\ used' = used /\ pay' = pay
  BY DEF AdjustCredit
<1> QED
  BY <1>2, <1>3, <1>4, <1>11, <1>13, <1>14, <1>15

LEMMA AdjustStep ==
    ASSUME TypeInv, NEW c, NEW n \in CreditAmounts, AdjustCredit(c, n)
    PROVE  StepOK
<1>1. Book' \in Books
  <2>1. \A u \in 1..Len(used') : used'[u].credit \in 1..Len(credit')
    BY AdjustEffect, TypeFacts
  <2>2. Len(credit') <= MaxCredits
    BY AdjustEffect, TypeFacts
  <2> QED
    BY <2>1, <2>2, AdjustEffect, NextBookFacts, TypeFacts DEF Books
<1>2. due' \in [Dues -> DueRow] /\ \A a \in Dues : DueMoved(a)
  BY AdjustEffect, TypeFacts DEF DueMoved
<1>3. \A d \in 1..Len(credit') : credit'[d].source \in 1..Len(pay')
  BY AdjustEffect, TypeFacts
<1>4. pay' \in Seq(PayRow) /\ Len(pay') <= MaxPayments
  BY AdjustEffect, TypeFacts
<1> QED
  BY <1>1, <1>2, <1>3, <1>4, TypeAssembles DEF StepOK

\* Voiding a credit, and what becomes of the payment behind it.
LEMMA VoidPays ==
    ASSUME TypeInv, NEW c, VoidCredit(c)
    PROVE  /\ c \in 1..Len(credit) /\ credit[c].source \in 1..Len(pay)
           /\ pay' = pay \/ StatusSet(credit[c].source, "REFUNDED")
           /\ pay[credit[c].source].kind # "CREDIT_ISSUE" => pay' = pay
           /\ pay[credit[c].source].kind = "CREDIT_ISSUE" => StatusSet(credit[c].source, "REFUNDED")
<1>1. c \in 1..Len(credit)
  BY DEF VoidCredit
<1>2. PICK s \in 1..Len(pay) : s = credit[c].source
  BY <1>1, TypeFacts
<1>3. "REFUNDED" \in PayStatus
  BY DEF PayStatus
<1>4. CASE pay[s].kind = "CREDIT_ISSUE"
  <2>1. SetStatus(s, "REFUNDED")
    BY <1>2, <1>4, Zenon DEF VoidCredit
  <2> QED
    BY <1>1, <1>2, <1>3, <1>4, <2>1, StatusEffect
<1>5. CASE pay[s].kind # "CREDIT_ISSUE"
  <2>1. pay' = pay
    BY <1>2, <1>5, Zenon DEF VoidCredit
  <2> QED
    BY <1>1, <1>2, <1>5, <2>1
<1> QED
  BY <1>4, <1>5

LEMMA VoidStep ==
    ASSUME TypeInv, NEW c, VoidCredit(c)
    PROVE  StepOK
<1>1. pay' \in Seq(PayRow) /\ Len(pay') = Len(pay) /\ Len(pay') <= MaxPayments
  BY VoidPays, TypeFacts DEF StatusSet, PayChanged
<1>2. Voided(c) /\ Book' \in Books
  BY VoidEffect
<1>3. \A d \in 1..Len(credit') : credit'[d].source \in 1..Len(pay')
  BY <1>1, <1>2, TypeFacts DEF Voided
<1>4. PICK S : SyncAssessments(S)
  BY Zenon DEF VoidCredit
<1> QED
  BY <1>1, <1>2, <1>3, <1>4, SyncStep

\* Officers and the sweep move assessments only.
LEMMA MoveStep ==
    ASSUME TypeInv, NEW a, NEW from, NEW to \in DueStatus, MoveDue(a, from, to),
           \/ to = "ISSUED" /\ from = {"DRAFT", "CANCELLED"}
           \/ to = "CANCELLED"
           \/ to = "WAIVED" /\ from = DueStatus \ {"PAID", "CANCELLED", "WAIVED", "DRAFT"}
    PROVE  StepOK
<1>1. due' = [due EXCEPT ![a] = [due[a] EXCEPT !.status = to]] /\ due[a].status \in from
  BY DEF MoveDue
<1>2. ASSUME NEW b \in Dues PROVE due'[b] \in DueRow /\ DueMoved(b)
  <2>1. due[b] \in DueRow
    BY TypeFacts
  <2>2. CASE a = b
    <3>1. due'[b] = [due[b] EXCEPT !.status = to]
      BY <1>1, <2>2, TypeFacts
    <3> QED
      BY <1>1, <2>1, <2>2, <3>1 DEF DueRow, DueMoved
  <2>3. CASE a # b
    <3>1. due'[b] = due[b]
      BY <1>1, <2>3, TypeFacts
    <3> QED
      BY <2>1, <3>1 DEF DueMoved
  <2> QED
    BY <2>2, <2>3
<1>3. due' \in [Dues -> DueRow]
  <2>1. due' = [b \in Dues |-> due'[b]]
    BY <1>1, TypeFacts
  <2> QED
    BY <1>2, <2>1
<1>4. pay' = pay /\ alloc' = alloc /\ credit' = credit /\ used' = used
  BY DEF MoveDue
<1>5. Book' \in Books /\ pay' \in Seq(PayRow) /\ Len(pay') <= MaxPayments
  BY <1>4, BookFacts, NextBookFacts, TypeFacts
<1>6. \A c \in 1..Len(credit') : credit'[c].source \in 1..Len(pay')
  BY <1>4, TypeFacts
<1> QED
  BY <1>2, <1>3, <1>5, <1>6, TypeAssembles DEF StepOK

LEMMA SweepStep ==
    ASSUME TypeInv, SweepOverdue
    PROVE  StepOK
<1>1. PICK hit : /\ hit = {a \in Late : due[a].status \in {"ISSUED", "PARTIALLY_PAID"}}
                 /\ due' = [a \in Dues |-> IF a \in hit THEN [due[a] EXCEPT !.status = "OVERDUE"]
                                           ELSE due[a]]
  BY Zenon DEF SweepOverdue
<1>2. ASSUME NEW b \in Dues PROVE due'[b] \in DueRow /\ DueMoved(b)
  <2>1. due[b] \in DueRow
    BY TypeFacts
  <2>2. CASE b \in hit
    <3>1. due'[b] = [due[b] EXCEPT !.status = "OVERDUE"]
      BY <1>1, <2>2
    <3>2. due[b].status \in {"ISSUED", "PARTIALLY_PAID"}
      BY <1>1, <2>2
    <3> QED
      BY <2>1, <3>1, <3>2 DEF DueRow, DueStatus, DueMoved
  <2>3. CASE b \notin hit
    <3>1. due'[b] = due[b]
      BY <1>1, <2>3
    <3> QED
      BY <2>1, <3>1 DEF DueMoved
  <2> QED
    BY <2>2, <2>3
<1>3. due' \in [Dues -> DueRow]
  <2>1. due' = [b \in Dues |-> due'[b]]
    BY <1>1
  <2> QED
    BY <1>2, <2>1
<1>4. pay' = pay /\ alloc' = alloc /\ credit' = credit /\ used' = used
  BY DEF SweepOverdue
<1>5. Book' \in Books /\ pay' \in Seq(PayRow) /\ Len(pay') <= MaxPayments
  BY <1>4, BookFacts, NextBookFacts, TypeFacts
<1>6. \A c \in 1..Len(credit') : credit'[c].source \in 1..Len(pay')
  BY <1>4, TypeFacts
<1> QED
  BY <1>2, <1>3, <1>5, <1>6, TypeAssembles DEF StepOK

\* Every action keeps the types, and moves each assessment as DueMoved allows.
LEMMA EveryStep == TypeInv /\ Next => StepOK
<1> SUFFICES ASSUME TypeInv, Next PROVE StepOK
  OBVIOUS
<1>1. CASE CreatePayment \/ CreateCheckout
  <2>1. "CASH" \in PayKind /\ "ADVANCE" \in PayKind /\ "ONLINE" \in PayKind
    BY DEF PayKind
  <2>2. /\ "PENDING_VERIFICATION" \in PayStatus /\ "PROCESSING" \in PayStatus
        /\ "FAILED" \in PayStatus
    BY DEF PayStatus
  <2>3. CASE CreatePayment
    <3>1. PICK f \in Targets, useCredit \in {FALSE, ApplyCredit} :
             \/ RecordPayment("CASH", "PENDING_VERIFICATION", f, useCredit)
             \/ RecordPayment("ADVANCE", "PENDING_VERIFICATION", f, useCredit)
      BY <2>3, Zenon DEF CreatePayment
    <3> QED
      BY <2>1, <2>2, <3>1, RecordStep
  <2>4. CASE CreateCheckout
    <3>1. PICK f \in Targets, useCredit \in {FALSE, ApplyCredit} :
             \/ RecordPayment("ONLINE", "PROCESSING", f, useCredit)
             \/ RecordPayment("ONLINE", "FAILED", f, useCredit)
      BY <2>4, Zenon DEF CreateCheckout
    <3> QED
      BY <2>1, <2>2, <3>1, RecordStep
  <2> QED
    BY <1>1, <2>3, <2>4
<1>2. CASE SettleByCredit
  BY <1>2, SettleStep
<1>3. ASSUME NEW p \in PaymentIds, PaymentAction(p) PROVE StepOK
  <2>1. CASE UpdatePayment(p)
    BY <2>1, UpdateStep
  <2>2. CASE Verify(p)
    <3>1. HasStatus(p, {"PENDING_VERIFICATION"}) /\ (VerifyPlain(p) \/ VerifyAdvance(p))
      BY <2>2 DEF Verify
    <3> QED
      BY <3>1, PlainVerifyStep, AdvanceStep
  <2>3. CASE GatewaySucceeded(p)
    BY <2>3, PlainVerifyStep
  <2>4. CASE UndoAction(p)
    BY <2>4, UndoActionStep
  <2> QED
    BY <1>3, <2>1, <2>2, <2>3, <2>4 DEF PaymentAction, UndoAction
<1>4. CASE CreditAction
  <2>1. ASSUME NEW n \in CreditAmounts, IssueCredit(n) PROVE StepOK
    BY <2>1, IssueStep
  <2>2. ASSUME NEW c, VoidCredit(c) PROVE StepOK
    BY <2>2, VoidStep
  <2>3. ASSUME NEW c, NEW n \in CreditAmounts, AdjustCredit(c, n) PROVE StepOK
    BY <2>3, AdjustStep
  <2>4. CASE ApplyManual
    BY <2>4, ApplyStep
  <2> QED
    BY <1>4, <2>1, <2>2, <2>3, <2>4 DEF CreditAction
<1>5. CASE DueAction
  <2>1. {"ISSUED", "CANCELLED", "WAIVED"} \subseteq DueStatus
    BY DEF DueStatus
  <2>2. ASSUME NEW a, IssueDue(a) PROVE StepOK
    BY <2>1, <2>2, MoveStep DEF IssueDue
  <2>3. ASSUME NEW a, CancelDue(a) PROVE StepOK
    BY <2>1, <2>3, MoveStep DEF CancelDue
  <2>4. ASSUME NEW a, WaiveDue(a) PROVE StepOK
    BY <2>1, <2>4, MoveStep DEF WaiveDue
  <2>5. CASE SweepOverdue
    BY <2>5, SweepStep
  <2> QED
    BY <1>5, <2>2, <2>3, <2>4, <2>5 DEF DueAction
<1> QED
  BY <1>1, <1>2, <1>3, <1>4, <1>5 DEF Next

LEMMA TypeStep == TypeInv /\ [Next]_vars => TypeInv'
<1> SUFFICES ASSUME TypeInv, [Next]_vars PROVE TypeInv'
  OBVIOUS
<1>1. CASE Next
  BY <1>1, EveryStep DEF StepOK
<1>2. CASE UNCHANGED vars
  <2>1. /\ due' = due /\ pay' = pay /\ alloc' = alloc /\ credit' = credit /\ used' = used
    BY <1>2 DEF vars
  <2>2. Book' = Book
    BY <2>1, BookFacts, NextBookFacts
  <2> QED
    BY <2>1, <2>2 DEF TypeInv
<1> QED
  BY <1>1, <1>2

LEMMA TypeAlways == Spec => []TypeInv
<1> QED
  BY InitType, TypeStep, PTL DEF Spec

-----------------------------------------------------------------------------
(* The theorems.                                                           *)

\* Every variable has its type in every reachable state: no sequence of
\* payments, reversals and credit operations makes a balance, a granted sum or
\* a stored paidAmount negative.
THEOREM TypeCorrect == Spec => []TypeOK
<1> QED
  BY TypeAlways, TypeInvImpliesTypeOK, PTL

\* An assessment shown as PAID is covered by its stored paidAmount, and one
\* shown as PARTIALLY_PAID is not, in every reachable state
\* (determineAssessmentStatus as syncAssessmentById uses it).
THEOREM StatusIsHonest == Spec => []PaidStatusHonest
<1>1. Init => PaidStatusHonest
  BY DEF Init, PaidStatusHonest
<1>2. TypeInv /\ PaidStatusHonest /\ [Next]_vars => PaidStatusHonest'
  <2> SUFFICES ASSUME TypeInv, PaidStatusHonest, [Next]_vars, NEW a \in Dues
               PROVE  /\ due'[a].status = "PAID" => due'[a].paid >= Amount[a]
                      /\ due'[a].status = "PARTIALLY_PAID" => due'[a].paid \in 1..(Amount[a] - 1)
    BY DEF PaidStatusHonest
  <2>1. Amount[a] \in Nat /\ due[a] \in DueRow
    BY DuesFacts, TypeFacts
  <2>2. DueMoved(a)
    <3>1. CASE Next
      BY <3>1, EveryStep DEF StepOK
    <3>2. CASE UNCHANGED vars
      BY <3>2 DEF vars, DueMoved
    <3> QED
      BY <3>1, <3>2
  <2>3. CASE due'[a] = due[a]
    BY <2>3 DEF PaidStatusHonest
  <2>4. CASE Synced(a)
    <3>1. PICK n \in Nat : n = LedgerPaid(a)'
      BY <2>4 DEF Synced
    <3>2. due'[a] = [status |-> DetermineStatus(a, due[a].status, n), paid |-> n]
      BY <2>4, <3>1 DEF Synced
    <3>3. due'[a].status = DetermineStatus(a, due[a].status, n) /\ due'[a].paid = n
      BY <3>2
    <3> QED
      BY <2>1, <3>1, <3>3 DEF DetermineStatus
  <2>5. CASE ~(due'[a] = due[a]) /\ ~Synced(a)
    <3>1. due'[a].status \in {"ISSUED", "CANCELLED", "WAIVED", "OVERDUE"}
      BY <2>2, <2>5 DEF DueMoved
    <3> QED
      BY <3>1
  <2> QED
    BY <2>3, <2>4, <2>5
<1> QED
  BY <1>1, <1>2, TypeAlways, PTL DEF Spec

\* Payments, credit and the overdue sweep never bring a waived or cancelled
\* assessment back to life: a waived one stays waived until an officer cancels
\* it, and only issuing it again revives a cancelled one.
THEOREM OfficersSettle == Spec => SettledByOfficerOnly
<1> DEFINE A == \A a \in Dues :
         /\ due[a].status = "WAIVED" => due'[a].status \in {"WAIVED", "CANCELLED"}
         /\ due[a].status = "CANCELLED" /\ due'[a].status # "CANCELLED"
              => due'[a].status = "ISSUED" /\ due'[a].paid = due[a].paid
<1>1. TypeInv /\ [Next]_vars => [A]_vars
  <2> SUFFICES ASSUME TypeInv, Next, NEW a \in Dues
               PROVE  /\ due[a].status = "WAIVED" => due'[a].status \in {"WAIVED", "CANCELLED"}
                      /\ due[a].status = "CANCELLED" /\ due'[a].status # "CANCELLED"
                           => due'[a].status = "ISSUED" /\ due'[a].paid = due[a].paid
    OBVIOUS
  <2>1. DueMoved(a)
    BY EveryStep DEF StepOK
  <2>2. CASE Synced(a)
    <3>1. due'[a].status = DetermineStatus(a, due[a].status, LedgerPaid(a)')
      BY <2>2 DEF Synced
    <3> QED
      BY <3>1 DEF DetermineStatus
  <2>3. CASE ~Synced(a)
    BY <2>1, <2>3 DEF DueMoved
  <2> QED
    BY <2>2, <2>3
<1> QED
  BY <1>1, TypeAlways, PTL DEF Spec, SettledByOfficerOnly

-----------------------------------------------------------------------------
(* Credit spent on behalf of a payment.                                    *)

\* What may be recorded: a payment that waits, or one whose checkout failed.
Recorded(kind, status, f, useCredit) ==
    /\ kind \in {"CASH", "ADVANCE", "ONLINE"} /\ (kind = "ADVANCE" => Advances)
    /\ status \in {"PENDING_VERIFICATION", "PROCESSING"} \/ (status = "FAILED" /\ CheckoutErrors)
    /\ useCredit = FALSE \/ useCredit = ApplyCredit
    /\ RecordPayment(kind, status, f, useCredit)

Verified(p) ==
    \/ HasStatus(p, {"PENDING_VERIFICATION"}) /\ VerifyPlain(p)
    \/ GatewaySucceeded(p)

Untouched == pay' = pay /\ alloc' = alloc /\ credit' = credit /\ used' = used

\* The actions, sorted by what they do to payments and books.
LEMMA Cases ==
    ASSUME TypeInv, Next
    PROVE  \/ \E f \in Targets, useCredit \in {FALSE, ApplyCredit},
                 kind \in PayKind, status \in PayStatus : Recorded(kind, status, f, useCredit)
           \/ SettleByCredit \/ ApplyManual
           \/ \E p \in PaymentIds :
                 \/ UpdatePayment(p) \/ Verified(p) \/ UndoAction(p)
                 \/ HasStatus(p, {"PENDING_VERIFICATION"}) /\ VerifyAdvance(p)
           \/ \E n \in CreditAmounts : IssueCredit(n)
           \/ \E c, n : n \in CreditAmounts /\ AdjustCredit(c, n)
           \/ \E c : VoidCredit(c)
           \/ Untouched /\ \A a \in Dues : due'[a].paid = due[a].paid
<1>1. CASE CreatePayment
  <2>1. PICK f \in Targets, useCredit \in {FALSE, ApplyCredit} :
           \/ /\ useCredit = FALSE \/ useCredit = ApplyCredit
              /\ RecordPayment("CASH", "PENDING_VERIFICATION", f, useCredit)
           \/ /\ Advances /\ useCredit = FALSE
              /\ RecordPayment("ADVANCE", "PENDING_VERIFICATION", f, useCredit)
    BY <1>1, Zenon DEF CreatePayment
  <2>2. \/ Recorded("CASH", "PENDING_VERIFICATION", f, useCredit)
        \/ Recorded("ADVANCE", "PENDING_VERIFICATION", f, useCredit)
    BY <2>1 DEF Recorded
  <2> QED
    BY <2>2 DEF PayKind, PayStatus
<1>2. CASE CreateCheckout
  <2>1. PICK f \in Targets, useCredit \in {FALSE, ApplyCredit} :
           /\ useCredit = FALSE \/ useCredit = ApplyCredit
           /\ \/ RecordPayment("ONLINE", "PROCESSING", f, useCredit)
              \/ CheckoutErrors /\ RecordPayment("ONLINE", "FAILED", f, useCredit)
    BY <1>2, Zenon DEF CreateCheckout
  <2>2. \/ Recorded("ONLINE", "PROCESSING", f, useCredit)
        \/ Recorded("ONLINE", "FAILED", f, useCredit)
    BY <2>1 DEF Recorded
  <2> QED
    BY <2>2 DEF PayKind, PayStatus
<1>3. ASSUME NEW p \in PaymentIds, PaymentAction(p)
      PROVE  \/ UpdatePayment(p) \/ Verified(p) \/ UndoAction(p)
             \/ HasStatus(p, {"PENDING_VERIFICATION"}) /\ VerifyAdvance(p)
  BY <1>3 DEF PaymentAction, Verify, Verified, UndoAction
<1>4. ASSUME CreditAction
      PROVE  \/ ApplyManual
             \/ \E n \in CreditAmounts : IssueCredit(n)
             \/ \E c, n : n \in CreditAmounts /\ AdjustCredit(c, n)
             \/ \E c : VoidCredit(c)
  BY <1>4, Zenon DEF CreditAction
<1>5. ASSUME DueAction
      PROVE  Untouched /\ \A a \in Dues : due'[a].paid = due[a].paid
  <2>1. CASE SweepOverdue
    <3>1. PICK hit : due' = [a \in Dues |-> IF a \in hit THEN [due[a] EXCEPT !.status = "OVERDUE"]
                                             ELSE due[a]]
      BY <2>1, Zenon DEF SweepOverdue
    <3>2. \A a \in Dues : due'[a].paid = due[a].paid
      BY <3>1
    <3> QED
      BY <2>1, <3>2 DEF SweepOverdue, Untouched
  <2>2. ASSUME NEW a \in Managed, NEW from, NEW to, MoveDue(a, from, to)
        PROVE  Untouched /\ \A b \in Dues : due'[b].paid = due[b].paid
    <3>1. due' = [due EXCEPT ![a] = [due[a] EXCEPT !.status = to]]
      BY <2>2 DEF MoveDue
    <3>2. \A b \in Dues : due'[b].paid = due[b].paid
      BY <3>1, TypeFacts DEF DueRow
    <3> QED
      BY <2>2, <3>2 DEF MoveDue, Untouched
  <2> QED
    BY <1>5, <2>1, <2>2 DEF DueAction, IssueDue, CancelDue, WaiveDue
<1> QED
  BY <1>1, <1>2, <1>3, <1>4, <1>5 DEF Next

\* A payment that may hold the credit it consumed.
Standing(row) ==
    /\ ~row.deleted /\ row.kind # "CREDIT_ISSUE"
    /\ \/ row.status \in {"PENDING_VERIFICATION", "PROCESSING", "VERIFIED"}
       \/ row.status = "FAILED" /\ CheckoutErrors

PayerInv ==
    \A u \in 1..Len(used) : used[u].live /\ used[u].payer # NoOne =>
        used[u].payer \in 1..Len(pay) /\ Standing(pay[used[u].payer])

\* The applications are as before, and whoever stood still stands.
LEMMA PayersStay ==
    ASSUME TypeInv, PayerInv, used' = used, Len(pay') \in Nat, Len(pay') >= Len(pay),
           \A q \in 1..Len(pay) : Standing(pay[q]) => Standing(pay'[q])
    PROVE  PayerInv'
<1> SUFFICES ASSUME NEW u \in 1..Len(used), used[u].live, used[u].payer # NoOne
             PROVE  used[u].payer \in 1..Len(pay') /\ Standing(pay'[used[u].payer])
  BY DEF PayerInv, Standing
<1>1. used[u].payer \in 1..Len(pay) /\ Standing(pay[used[u].payer])
  BY DEF PayerInv
<1>2. Len(pay) \in Nat
  BY TypeFacts
<1> QED
  BY <1>1, <1>2

\* There are more applications, on behalf of no one or of payment q.
LEMMA PayersJoin ==
    ASSUME TypeInv, PayerInv, NEW old \in Books, old.used = used, NEW D, NEW q,
           SpentFrom(old, Book', D, q), Len(pay') \in Nat, Len(pay') >= Len(pay),
           \A r \in 1..Len(pay) : pay'[r] = pay[r],
           q # NoOne => q \in 1..Len(pay') /\ Standing(pay'[q])
    PROVE  PayerInv'
<1>1. /\ \A u \in 1..Len(used) : used'[u] = used[u]
      /\ \A u \in (Len(used) + 1)..Len(used') : used'[u].payer = q
      /\ Len(used) \in Nat
  BY NextBookFacts, TypeFacts DEF SpentFrom
<1> SUFFICES ASSUME NEW u \in 1..Len(used'), used'[u].live, used'[u].payer # NoOne
             PROVE  used'[u].payer \in 1..Len(pay') /\ Standing(pay'[used'[u].payer])
  BY DEF PayerInv, Standing
<1>2. CASE u \in 1..Len(used)
  <2>1. used[u].payer \in 1..Len(pay) /\ Standing(pay[used[u].payer]) /\ used'[u] = used[u]
    BY <1>1, <1>2 DEF PayerInv
  <2> QED
    BY <2>1, TypeFacts
<1>3. CASE u \notin 1..Len(used)
  <2>1. u \in (Len(used) + 1)..Len(used')
    BY <1>1, <1>3
  <2> QED
    BY <1>1, <2>1
<1> QED
  BY <1>2, <1>3

\* Some applications are reversed; whoever stood still stands, but for a
\* payment whose applications are all among them.
LEMMA PayersLeave ==
    ASSUME TypeInv, PayerInv, NEW U, used' = Retired(U), Len(pay') = Len(pay), NEW p,
           UsesPaidBy(p) \subseteq U \/ p \notin 1..Len(pay) \/ ~Standing(pay[p]),
           \A q \in 1..Len(pay) : q # p /\ Standing(pay[q]) => Standing(pay'[q])
    PROVE  PayerInv'
<1>1. /\ Len(used') = Len(used)
      /\ \A u \in 1..Len(used) : /\ used'[u].payer = used[u].payer
                                 /\ u \in U => used'[u].live = FALSE
                                 /\ u \notin U => used'[u] = used[u]
  BY RetiredType
<1> SUFFICES ASSUME NEW u \in 1..Len(used), used'[u].live, used'[u].payer # NoOne
             PROVE  used'[u].payer \in 1..Len(pay') /\ Standing(pay'[used'[u].payer])
  BY <1>1 DEF PayerInv, Standing
<1>2. u \notin U /\ used'[u] = used[u]
  BY <1>1
<1>3. used[u].payer \in 1..Len(pay) /\ Standing(pay[used[u].payer])
  BY <1>2 DEF PayerInv
<1>4. used[u].payer # p
  BY <1>2, <1>3 DEF UsesPaidBy
<1> QED
  BY <1>2, <1>3, <1>4

LEMMA PayerStep ==
    ASSUME TypeInv, PayerInv, Next
    PROVE  PayerInv'
<1>1. ASSUME NEW f \in Targets, NEW useCredit, NEW kind, NEW status,
             Recorded(kind, status, f, useCredit)
      PROVE  PayerInv'
  <2>1. kind \in PayKind /\ status \in PayStatus /\ RecordPayment(kind, status, f, useCredit)
    BY <1>1 DEF Recorded, PayKind, PayStatus
  <2>2. PICK n \in Nat : pay' = Append(pay, NewRow(kind, n, status)) /\ Len(pay) < MaxPayments
    BY <2>1, RecordEffect
  <2>3. /\ Len(pay') = Len(pay) + 1 /\ pay'[Len(pay) + 1] = NewRow(kind, n, status)
        /\ \A r \in 1..Len(pay) : pay'[r] = pay[r]
    BY <2>1, <2>2, AppendEffect
  <2>4. PICK q : q = Len(pay) + 1
    OBVIOUS
  <2>5. Standing(pay'[q])
    BY <1>1, <2>3, <2>4 DEF Standing, NewRow, Recorded
  <2>6. PICK old \in Books : old = CashBook(f, useCredit) /\ SpentFrom(old, Book', DOMAIN f, q)
    BY <2>1, <2>4, RecordEffect
  <2>7. old.used = used
    <3>1. PICK c : c = Cash(f, useCredit)
      OBVIOUS
    <3>2. DOMAIN c \subseteq Dues /\ \A a \in DOMAIN c : c[a] \in Nat
      BY <3>1, CashType, TargetsType
    <3> QED
      BY <2>6, <3>1, <3>2, CashRowsShape DEF CashBook
  <2>8. Len(pay) \in Nat
    BY TypeFacts
  <2>9. Len(pay') \in Nat /\ Len(pay') >= Len(pay) /\ q \in 1..Len(pay')
    BY <2>3, <2>4, <2>8
  <2> QED
    BY <2>3, <2>5, <2>6, <2>7, <2>9, PayersJoin
<1>2. ASSUME NEW f \in Targets, KeepBook(SpendAll(Book, f, NoOne)), pay' = pay
      PROVE  PayerInv'
  <2>1. Book \in Books /\ Book.used = used /\ SpentFrom(Book, Book', DOMAIN f, NoOne)
    BY <1>2, BookFacts, SpendEffect
  <2>2. Len(pay') \in Nat /\ Len(pay') >= Len(pay)
    BY <1>2, TypeFacts
  <2> QED
    BY <1>2, <2>1, <2>2, PayersJoin
<1>3. CASE SettleByCredit \/ ApplyManual
  <2>1. PICK f \in Targets : KeepBook(SpendAll(Book, f, NoOne)) /\ pay' = pay
    BY <1>3 DEF SettleByCredit, ApplyManual
  <2> QED
    BY <1>2, <2>1
<1>4. ASSUME NEW p \in 1..Len(pay), StatusSet(p, "VERIFIED"), used' = used
      PROVE  PayerInv'
  <2>1. Len(pay') = Len(pay) /\ Len(pay) \in Nat
    BY <1>4, TypeFacts DEF StatusSet, PayChanged
  <2>2. \A q \in 1..Len(pay) : Standing(pay[q]) => Standing(pay'[q])
    BY <1>4 DEF StatusSet, PayChanged, Standing
  <2> QED
    BY <1>4, <2>1, <2>2, PayersStay
<1>5. ASSUME NEW p \in PaymentIds, UpdatePayment(p) PROVE PayerInv'
  <2>1. Len(pay') = Len(pay) /\ Len(pay) \in Nat /\ used' = used
    BY <1>5, UpdateEffect, TypeFacts DEF PayChanged
  <2>2. \A q \in 1..Len(pay) : Standing(pay[q]) => Standing(pay'[q])
    BY <1>5, UpdateEffect DEF PayChanged, Standing
  <2> QED
    BY <2>1, <2>2, PayersStay
<1>6. ASSUME NEW p, Verified(p) PROVE PayerInv'
  <2>1. /\ p \in 1..Len(pay) /\ "VERIFIED" \in PayStatus /\ SetStatus(p, "VERIFIED")
        /\ used' = used
    BY <1>6 DEF Verified, VerifyPlain, GatewaySucceeded, HasStatus, Live, PayStatus
  <2>2. StatusSet(p, "VERIFIED")
    BY <2>1, StatusEffect
  <2> QED
    BY <1>4, <2>1, <2>2
<1>7. ASSUME NEW p, HasStatus(p, {"PENDING_VERIFICATION"}), VerifyAdvance(p) PROVE PayerInv'
  <2>1. p \in 1..Len(pay) /\ StatusSet(p, "VERIFIED") /\ used' = used
    BY <1>7, AdvanceEffect
  <2> QED
    BY <1>4, <2>1
<1>8. ASSUME NEW p, UndoAction(p) PROVE PayerInv'
  <2>1. PayChanged(p) /\ UnwindsTo(p)
    BY <1>8, UndoEffect DEF Undone
  <2>2. used' = Retired(UsesPaidBy(p))
    BY <2>1, UnwindEffect, NextBookFacts DEF Reversed
  <2>3. Len(pay') = Len(pay) /\ \A q \in 1..Len(pay) : q # p /\ Standing(pay[q]) => Standing(pay'[q])
    BY <2>1 DEF PayChanged
  <2>4. PICK U : U = UsesPaidBy(p)
    OBVIOUS
  <2>5. used' = Retired(U) /\ UsesPaidBy(p) \subseteq U
    BY <2>2, <2>4
  <2> QED
    BY <2>3, <2>5, PayersLeave
<1>9. ASSUME NEW c, VoidCredit(c) PROVE PayerInv'
  <2>1. PICK s \in 1..Len(pay) : s = credit[c].source
    BY <1>9, VoidPays
  <2>2. PICK U : used' = Retired(U)
    BY <1>9, VoidEffect DEF Voided
  <2>3. Len(pay') = Len(pay)
    BY <1>9, VoidPays DEF StatusSet, PayChanged
  <2>4. CASE pay[s].kind = "CREDIT_ISSUE"
    <3>1. ~Standing(pay[s])
      BY <2>4 DEF Standing
    <3>2. \A q \in 1..Len(pay) : q # s /\ Standing(pay[q]) => Standing(pay'[q])
      BY <1>9, <2>1, <2>4, VoidPays DEF StatusSet, PayChanged
    <3> QED
      BY <2>2, <2>3, <3>1, <3>2, PayersLeave
  <2>5. CASE pay[s].kind # "CREDIT_ISSUE"
    <3>1. PICK z : z = 0
      OBVIOUS
    <3>2. z \notin 1..Len(pay)
      BY <3>1
    <3>3. \A q \in 1..Len(pay) : q # z /\ Standing(pay[q]) => Standing(pay'[q])
      BY <1>9, <2>1, <2>5, VoidPays
    <3> QED
      BY <2>2, <2>3, <3>2, <3>3, PayersLeave
  <2> QED
    BY <2>4, <2>5
<1>10. ASSUME NEW n \in CreditAmounts, IssueCredit(n) PROVE PayerInv'
  <2>1. /\ "CREDIT_ISSUE" \in PayKind /\ "VERIFIED" \in PayStatus /\ n \in Nat
        /\ pay' = Append(pay, NewRow("CREDIT_ISSUE", n, "VERIFIED")) /\ Len(pay) < MaxPayments
        /\ used' = used
    BY <1>10, IssueEffect DEF PayKind, PayStatus
  <2>2. Len(pay') = Len(pay) + 1 /\ \A r \in 1..Len(pay) : pay'[r] = pay[r]
    BY <2>1, AppendEffect
  <2>3. Len(pay) \in Nat
    BY TypeFacts
  <2>4. Len(pay') \in Nat /\ Len(pay') >= Len(pay)
    BY <2>2, <2>3
  <2> QED
    BY <2>1, <2>2, <2>4, PayersStay
<1>11. ASSUME pay' = pay, used' = used PROVE PayerInv'
  <2>1. Len(pay') \in Nat /\ Len(pay') >= Len(pay)
    BY <1>11, TypeFacts
  <2> QED
    BY <1>11, <2>1, PayersStay
<1>12. ASSUME NEW c, NEW n \in CreditAmounts, AdjustCredit(c, n) PROVE PayerInv'
  BY <1>11, <1>12, AdjustEffect
<1>13. CASE Untouched
  BY <1>11, <1>13 DEF Untouched
<1> QED
  BY <1>1, <1>3, <1>5, <1>6, <1>7, <1>8, <1>9, <1>10, <1>12, <1>13, Cases

\* Credit that was consumed on behalf of a payment belongs to a payment that
\* still stands, as long as every checkout opens: whoever fails, expires, is
\* rejected, refunded, cancelled or deleted gives it back
\* (household-credit.service.ts:252-257).
THEOREM DeadPaymentsHoldNoCredit ==
    ASSUME ~CheckoutErrors
    PROVE  Spec => []NoCreditHeldByDeadPayment
<1>1. Init => PayerInv
  BY DEF Init, PayerInv
<1>2. TypeInv /\ PayerInv /\ [Next]_vars => PayerInv'
  <2> SUFFICES ASSUME TypeInv, PayerInv, [Next]_vars PROVE PayerInv'
    OBVIOUS
  <2>1. CASE Next
    BY <2>1, PayerStep
  <2>2. CASE UNCHANGED vars
    BY <2>2 DEF vars, PayerInv, Standing
  <2> QED
    BY <2>1, <2>2
<1>3. PayerInv => NoCreditHeldByDeadPayment
  BY DEF PayerInv, Standing, NoCreditHeldByDeadPayment, HasStatus, Live
<1> QED
  BY <1>1, <1>2, <1>3, TypeAlways, PTL DEF Spec

-----------------------------------------------------------------------------
(* The rows of cash and online payments.                                   *)

\* First come, first served gives away all there is, if there is room for it.
LEMMA FifoExact ==
    ASSUME NEW cap, NEW total \in Nat, DOMAIN cap \subseteq Int, IsFiniteSet(DOMAIN cap),
           \A i \in DOMAIN cap : cap[i] \in Nat, total <= SumFunction(cap)
    PROVE  SumFunctionOnSet(Fifo(cap, total), DOMAIN cap) = total
<1> DEFINE D == DOMAIN cap
           F == Fifo(cap, total)
           Initial(T) == \A i \in T, j \in D : j < i => j \in T
           Good == {T \in SUBSET D : Initial(T) =>
                      SumFunctionOnSet(F, T) = Min2(total, SumFunctionOnSet(cap, T))}
<1>1. \A i \in D : F[i] \in 0..cap[i] /\ F[i] \in Nat
  BY FifoType
<1>2. \A T \in SUBSET D : IsFiniteSet(T) /\ SumFunctionOnSet(cap, T) \in Nat
  <2> SUFFICES ASSUME NEW T \in SUBSET D PROVE IsFiniteSet(T) /\ SumFunctionOnSet(cap, T) \in Nat
    OBVIOUS
  <2>1. IsFiniteSet(T) /\ \A i \in T : cap[i] \in Nat
    BY FS_Subset
  <2> QED
    BY <2>1, SumType
<1>3. {} \in Good
  BY SumEmpty DEF Min2
<1>4. ASSUME NEW T \in SUBSET D, T # {}, \A y \in T : T \ {y} \in Good PROVE T \in Good
  <2> SUFFICES ASSUME Initial(T)
               PROVE  SumFunctionOnSet(F, T) = Min2(total, SumFunctionOnSet(cap, T))
    OBVIOUS
  <2>1. PICK x \in T : \A y \in T : x >= y
    <3>1. IsFiniteSet(T) /\ T \subseteq Int
      BY <1>2
    <3> QED
      BY <1>4, <3>1, MaxIsMember
  <2>2. x \in Int /\ T \subseteq Int /\ D \subseteq Int
    OBVIOUS
  <2>3. T \ {x} = {j \in D : j < x}
    BY <2>1, <2>2
  <2>4. Initial(T \ {x})
    BY <2>2, <2>3
  <2>5. SumFunctionOnSet(F, T \ {x}) = Min2(total, SumFunctionOnSet(cap, T \ {x}))
    BY <1>4, <2>4
  <2>6. PICK b \in Nat : b = SumFunctionOnSet(cap, T \ {x})
    BY <1>2
  <2>7. IsFiniteSet(T) /\ (\A y \in T : cap[y] \in Nat) /\ (\A y \in T : F[y] \in Nat)
    BY <1>1, <1>2
  <2>8. SumFunctionOnSet(cap, T) = cap[x] + b
    BY <2>6, <2>7, SumRemove
  <2>9. SumFunctionOnSet(F, T) = F[x] + Min2(total, b)
    <3> HIDE DEF F
    <3>1. SumFunctionOnSet(F, T) = F[x] + SumFunctionOnSet(F, T \ {x})
      BY <2>7, SumRemove
    <3> QED
      BY <2>5, <2>6, <3>1
  <2>10. F[x] = Min2(cap[x], Max2(0, total - b))
    BY <2>3, <2>6 DEF Fifo
  <2>11. cap[x] \in Nat
    OBVIOUS
  <2> HIDE DEF F
  <2> QED
    BY <2>6, <2>8, <2>9, <2>10, <2>11 DEF Min2, Max2
<1>5. D \in Good
  <2>1. IsFiniteSet(D) /\ D \in SUBSET D
    OBVIOUS
  <2> HIDE DEF Good, D
  <2> QED
    BY <1>3, <1>4, <2>1, SubsetInduction
<1>6. Initial(D) /\ SumFunctionOnSet(cap, D) \in Nat
  BY <1>2
<1>7. SumFunctionOnSet(F, D) = Min2(total, SumFunctionOnSet(cap, D))
  BY <1>5, <1>6
<1> QED
  BY <1>6, <1>7 DEF Min2, SumFunction

\* What payment p's live rows hold.
Held(A, p) ==
    SumFunctionOnSet([a \in Dues |-> A[<<p, a>>].amount], {a \in Dues : A[<<p, a>>].live})

LEMMA HeldIs ==
    \A p : HeldBy(p) = Held(alloc, p) /\ HeldBy(p)' = Held(alloc', p)
  BY Zenon DEF HeldBy, Held

LEMMA HeldStays ==
    ASSUME NEW A, NEW B, NEW p, \A a \in Dues : A[<<p, a>>] = B[<<p, a>>]
    PROVE  Held(A, p) = Held(B, p)
<1>1. /\ [a \in Dues |-> A[<<p, a>>].amount] = [a \in Dues |-> B[<<p, a>>].amount]
      /\ {a \in Dues : A[<<p, a>>].live} = {a \in Dues : B[<<p, a>>].live}
  OBVIOUS
<1> QED
  BY <1>1 DEF Held

LEMMA HeldNothing ==
    ASSUME NEW A, NEW p, \A a \in Dues : ~(A[<<p, a>>].live)
    PROVE  Held(A, p) = 0
<1>1. {a \in Dues : A[<<p, a>>].live} = {}
  OBVIOUS
<1> QED
  BY <1>1, SumEmpty DEF Held

\* The cash rows of a payment hold what credit does not cover.
LEMMA HeldCash ==
    ASSUME TypeInv, NEW f \in Targets, NEW useCredit, NEW A, NEW p,
           \A a \in DOMAIN f : /\ A[<<p, a>>].amount = Cash(f, useCredit)[a]
                               /\ A[<<p, a>>].live <=> Cash(f, useCredit)[a] > 0,
           \A a \in Dues \ DOMAIN f : ~(A[<<p, a>>].live)
    PROVE  Held(A, p) = SumFunction(f) - CreditToUse(f, useCredit)
<1>1. PICK n \in Nat : n = CreditToUse(f, useCredit) /\ n <= SumFunction(f)
  BY CashType
<1>2. PICK g, h : g = Covered(f, useCredit) /\ h = Cash(f, useCredit)
  OBVIOUS
<1>3. PICK D : D = DOMAIN f
  OBVIOUS
<1>4. /\ IsFiniteSet(D) /\ D \subseteq Dues /\ D \subseteq Int
      /\ \A a \in D : f[a] \in Nat
  <2>1. DOMAIN f \subseteq Dues /\ Dues \subseteq Int
    BY TargetsType, DuesFacts
  <2> QED
    BY <1>3, <2>1, TargetsType
<1>5. /\ \A a \in D : g[a] \in Nat /\ h[a] \in Nat /\ f[a] = g[a] + h[a]
  BY <1>2, <1>3, CashType
<1>6. SumFunctionOnSet(f, D) = SumFunctionOnSet(g, D) + SumFunctionOnSet(h, D)
  BY <1>4, <1>5, SumOfSum
<1>7. SumFunctionOnSet(g, D) = n
  BY <1>1, <1>2, <1>3, <1>4, FifoExact DEF Covered
<1>8. PICK r : r = [a \in Dues |-> A[<<p, a>>].amount]
  OBVIOUS
<1>9. PICK L : L = {a \in Dues : A[<<p, a>>].live}
  OBVIOUS
<1>10. L \in SUBSET D /\ \A a \in D \ L : h[a] = 0
  BY <1>2, <1>3, <1>4, <1>5, <1>9
<1>11. SumFunctionOnSet(h, D) = SumFunctionOnSet(h, L)
  BY <1>4, <1>5, <1>10, SumSupport, ZenonT(60)
<1>12. IsFiniteSet(L) /\ \A a \in L : h[a] \in Nat /\ r[a] = h[a]
  BY <1>2, <1>3, <1>4, <1>5, <1>8, <1>10, FS_Subset
<1>13. SumFunctionOnSet(r, L) = SumFunctionOnSet(h, L)
  BY <1>12, SumCongruence
<1>14. Held(A, p) = SumFunctionOnSet(r, L)
  BY <1>8, <1>9 DEF Held
<1>15. SumFunctionOnSet(h, L) \in Nat
  BY <1>12, SumType
<1>16. SumFunction(f) = SumFunctionOnSet(f, D)
  BY <1>3 DEF SumFunction
<1> QED
  BY <1>1, <1>6, <1>7, <1>11, <1>13, <1>14, <1>15, <1>16

\* What a payment's live rows must hold.
CashRow(row, held) ==
    row.kind \in {"CASH", "ONLINE"} =>
        /\ ~row.deleted /\ row.status \in {"PENDING_VERIFICATION", "PROCESSING", "VERIFIED"}
              => held = row.amount
        /\ row.deleted \/ row.status \in {"REJECTED", "REFUNDED", "CANCELLED", "EXPIRED"}
              => held = 0

\* No row counts before its payment exists, credit comes from advance payments
\* and from issued credit only, and the rows of the other payments are exact.
UnbornInv == \A k \in PaymentIds \X Dues : k[1] > Len(pay) => ~(alloc[k].live)

SourceInv ==
    \A c \in 1..Len(credit) : pay[credit[c].source].kind \in {"ADVANCE", "CREDIT_ISSUE"}

CashInv == UnbornInv /\ SourceInv /\ \A p \in 1..Len(pay) : CashRow(pay[p], Held(alloc, p))

LEMMA CashInvSuffices == TypeInv /\ CashInv => CashHeldExactly
<1> SUFFICES ASSUME TypeInv, CashInv, NEW p \in 1..Len(pay), pay[p].kind \in {"CASH", "ONLINE"}
             PROVE  /\ HasStatus(p, {"PENDING_VERIFICATION", "PROCESSING", "VERIFIED"})
                          => HeldBy(p) = pay[p].amount
                    /\ (pay[p].deleted \/ pay[p].status \in {"REJECTED", "REFUNDED",
                                                          "CANCELLED", "EXPIRED"})
                          => HeldBy(p) = 0
  BY DEF CashHeldExactly
<1>1. HeldBy(p) = Held(alloc, p) /\ CashRow(pay[p], Held(alloc, p))
  BY HeldIs DEF CashInv
<1> QED
  BY <1>1 DEF CashRow, HasStatus, Live

\* A payment whose rows stay as they are stays exact while it waits, and when
\* it is verified.
CashStays(q) ==
    /\ pay'[q].kind = pay[q].kind /\ pay'[q].amount = pay[q].amount
    /\ pay'[q].deleted = pay[q].deleted
    /\ \/ pay'[q].status = pay[q].status
       \/ pay'[q].status = "VERIFIED" /\ pay[q].status \in {"PENDING_VERIFICATION", "PROCESSING"}
    /\ pay[q].kind \in {"CASH", "ONLINE"} => \A a \in Dues : alloc'[<<q, a>>] = alloc[<<q, a>>]

LEMMA CashKept ==
    ASSUME CashInv, NEW q \in 1..Len(pay), CashStays(q)
    PROVE  CashRow(pay'[q], Held(alloc', q))
<1>1. CashRow(pay[q], Held(alloc, q))
  BY DEF CashInv
<1>2. pay[q].kind \in {"CASH", "ONLINE"} => Held(alloc', q) = Held(alloc, q)
  BY HeldStays DEF CashStays
<1> QED
  BY <1>1, <1>2 DEF CashRow, CashStays

\* Credit spent, given back or voided touches no row of a cash or online payment.
LEMMA SpendSparesCash ==
    ASSUME TypeInv, CashInv, NEW old \in Books, old.credit = credit, NEW D, NEW payer,
           SpentFrom(old, Book', D, payer)
    PROVE  /\ \A q \in 1..Len(pay) : pay[q].kind \in {"CASH", "ONLINE"} =>
                 \A a \in Dues : alloc'[<<q, a>>] = old.alloc[<<q, a>>]
           /\ \A k \in PaymentIds \X Dues : k[1] > Len(pay) => alloc'[k] = old.alloc[k]
           /\ Len(credit') = Len(credit)
           /\ \A c \in 1..Len(credit) : credit'[c].source = credit[c].source
<1>1. \A k \in PaymentIds \X Dues :
         \/ alloc'[k] = old.alloc[k]
         \/ \E c \in 1..Len(credit) : credit[c].source = k[1]
  BY NextBookFacts DEF SpentFrom
<1>2. \A c \in 1..Len(credit) : /\ pay[credit[c].source].kind \notin {"CASH", "ONLINE"}
                                /\ credit[c].source \in 1..Len(pay)
  BY TypeFacts DEF CashInv, SourceInv
<1>3. ASSUME NEW q \in 1..Len(pay), pay[q].kind \in {"CASH", "ONLINE"}, NEW a \in Dues
      PROVE  alloc'[<<q, a>>] = old.alloc[<<q, a>>]
  <2>1. q \in PaymentIds
    BY TypeFacts, ConstantFacts
  <2>2. PICK k \in PaymentIds \X Dues : k = <<q, a>> /\ k[1] = q
    <3>1. <<q, a>> \in PaymentIds \X Dues /\ <<q, a>>[1] = q
      BY <2>1
    <3> QED
      BY <3>1, Zenon
  <2> QED
    BY <1>1, <1>2, <1>3, <2>2
<1>4. ASSUME NEW k \in PaymentIds \X Dues, k[1] > Len(pay)
      PROVE  alloc'[k] = old.alloc[k]
  <2>1. Len(pay) \in Nat /\ k[1] \in Int
    BY TypeFacts, ConstantFacts
  <2>2. k[1] \notin 1..Len(pay)
    BY <1>4, <2>1
  <2> QED
    BY <1>1, <1>2, <2>2
<1> QED
  BY <1>3, <1>4, NextBookFacts DEF SpentFrom

LEMMA SilenceEffect ==
    ASSUME TypeInv, NEW K, alloc' = Silenced(alloc, K), NEW k \in PaymentIds \X Dues
    PROVE  /\ k \in K => ~(alloc'[k].live)
           /\ k \notin K => alloc'[k] = alloc[k]
<1>1. alloc[k] \in Row
  BY TypeFacts
<1>2. CASE k \in K
  <2>1. alloc'[k] = [alloc[k] EXCEPT !.live = FALSE]
    BY <1>2 DEF Silenced
  <2> QED
    BY <1>1, <1>2, <2>1 DEF Row
<1>3. CASE k \notin K
  BY <1>3 DEF Silenced
<1> QED
  BY <1>2, <1>3

LEMMA SilenceSparesCash ==
    ASSUME TypeInv, CashInv, NEW U \in SUBSET (1..Len(used)), NEW p,
           alloc' = Silenced(alloc, {k \in PaymentIds \X Dues :
                                       k[1] = p \/ \E u \in U : k = RowOf(u)})
    PROVE  /\ \A q \in 1..Len(pay) : q # p /\ pay[q].kind \in {"CASH", "ONLINE"} =>
                 \A a \in Dues : alloc'[<<q, a>>] = alloc[<<q, a>>]
           /\ \A k \in PaymentIds \X Dues : alloc'[k].live => alloc[k].live /\ k[1] # p
<1>1. PICK K : K = {k \in PaymentIds \X Dues : k[1] = p \/ \E u \in U : k = RowOf(u)}
  OBVIOUS
<1>2. \A k \in PaymentIds \X Dues : /\ k \in K => ~(alloc'[k].live)
                                    /\ k \notin K => alloc'[k] = alloc[k]
  <2>1. alloc' = Silenced(alloc, K)
    BY <1>1
  <2> SUFFICES ASSUME NEW k \in PaymentIds \X Dues
               PROVE  (k \in K => ~(alloc'[k].live)) /\ (k \notin K => alloc'[k] = alloc[k])
    OBVIOUS
  <2> QED
    BY <2>1, SilenceEffect
<1>3. ASSUME NEW q \in 1..Len(pay), q # p, pay[q].kind \in {"CASH", "ONLINE"}, NEW a \in Dues
      PROVE  alloc'[<<q, a>>] = alloc[<<q, a>>]
  <2>1. q \in PaymentIds
    BY TypeFacts, ConstantFacts
  <2>2. PICK k \in PaymentIds \X Dues : k = <<q, a>> /\ k[1] = q
    <3>1. <<q, a>> \in PaymentIds \X Dues /\ <<q, a>>[1] = q
      BY <2>1
    <3> QED
      BY <3>1, Zenon
  <2>3. ASSUME NEW u \in U PROVE k # RowOf(u)
    <3>1. used[u].credit \in 1..Len(credit)
      BY TypeFacts
    <3>2. pay[credit[used[u].credit].source].kind \notin {"CASH", "ONLINE"}
      BY <3>1 DEF CashInv, SourceInv
    <3>3. credit[used[u].credit].source # q
      BY <1>3, <3>2
    <3> QED
      BY <2>2, <3>3 DEF RowOf
  <2>4. k \notin K
    BY <1>1, <1>3, <2>2, <2>3
  <2> QED
    BY <1>2, <2>2, <2>4
<1>4. ASSUME NEW k \in PaymentIds \X Dues, alloc'[k].live PROVE alloc[k].live /\ k[1] # p
  BY <1>1, <1>2, <1>4
<1> QED
  BY <1>3, <1>4

\* No payment is added: who keeps its rows stays exact, payment p apart.
LEMMA CashFrame ==
    ASSUME TypeInv, CashInv, Len(pay') = Len(pay), Len(credit') = Len(credit),
           \A q \in 1..Len(pay) : pay'[q].kind = pay[q].kind,
           \A c \in 1..Len(credit) : credit'[c].source = credit[c].source,
           \A k \in PaymentIds \X Dues : k[1] > Len(pay) /\ alloc'[k].live => alloc[k].live,
           NEW p, \A q \in 1..Len(pay) : q # p => CashStays(q),
           p \in 1..Len(pay) => CashRow(pay'[p], Held(alloc', p))
    PROVE  CashInv'
<1>1. UnbornInv'
  BY DEF CashInv, UnbornInv
<1>2. SourceInv'
  <2>1. \A c \in 1..Len(credit) : /\ credit[c].source \in 1..Len(pay)
                                  /\ pay[credit[c].source].kind \in {"ADVANCE", "CREDIT_ISSUE"}
    BY TypeFacts DEF CashInv, SourceInv
  <2> QED
    BY <2>1 DEF SourceInv
<1>3. \A q \in 1..Len(pay) : CashRow(pay'[q], Held(alloc', q))
  BY CashKept
<1> QED
  BY <1>1, <1>2, <1>3 DEF CashInv, CashRow, Held

\* Credit spent with no payment behind it.
LEMMA CashSpend ==
    ASSUME TypeInv, CashInv, NEW f \in Targets, KeepBook(SpendAll(Book, f, NoOne)), pay' = pay
    PROVE  CashInv'
<1>1. SpentFrom(Book, Book', DOMAIN f, NoOne) /\ Book \in Books /\ Book.credit = credit
      /\ Book.alloc = alloc
  BY SpendEffect, BookFacts
<1>2. /\ \A q \in 1..Len(pay) : pay[q].kind \in {"CASH", "ONLINE"} =>
               \A a \in Dues : alloc'[<<q, a>>] = alloc[<<q, a>>]
      /\ \A k \in PaymentIds \X Dues : k[1] > Len(pay) => alloc'[k] = alloc[k]
      /\ Len(credit') = Len(credit)
      /\ \A c \in 1..Len(credit) : credit'[c].source = credit[c].source
  BY <1>1, SpendSparesCash
<1>3. \A q \in 1..Len(pay) : CashStays(q)
  BY <1>2 DEF CashStays
<1>4. PICK p : p = 0
  OBVIOUS
<1>5. p \notin 1..Len(pay)
  BY <1>4
<1> QED
  BY <1>2, <1>3, <1>5, CashFrame

\* A recorded payment holds its cash.
LEMMA CashRecord ==
    ASSUME TypeInv, CashInv, NEW f \in Targets, NEW useCredit, NEW kind, NEW status,
           Recorded(kind, status, f, useCredit)
    PROVE  CashInv'
<1>1. kind \in PayKind /\ status \in PayStatus /\ RecordPayment(kind, status, f, useCredit)
  BY DEF Recorded, PayKind, PayStatus
<1>2. PICK n \in Nat : /\ n = SumFunction(f) - CreditToUse(f, useCredit)
                       /\ pay' = Append(pay, NewRow(kind, n, status)) /\ Len(pay) < MaxPayments
  BY <1>1, RecordEffect
<1>3. PICK m \in Nat : m = Len(pay)
  BY TypeFacts
<1>4. /\ Len(pay') = m + 1 /\ pay'[m + 1] = NewRow(kind, n, status)
      /\ \A r \in 1..m : pay'[r] = pay[r]
  BY <1>1, <1>2, <1>3, AppendEffect
<1>5. PICK h : h = Cash(f, useCredit)
  OBVIOUS
<1>6. DOMAIN h = DOMAIN f /\ DOMAIN h \subseteq Dues /\ \A a \in DOMAIN h : h[a] \in Nat
  BY <1>5, CashType, TargetsType
<1>7. PICK old : old = CashRows(Book, m + 1, h)
  OBVIOUS
<1>8. /\ old \in Books /\ old.credit = credit
      /\ \A k \in PaymentIds \X Dues :
            /\ k[1] = m + 1 /\ k[2] \in DOMAIN h =>
                  old.alloc[k].amount = h[k[2]] /\ (old.alloc[k].live <=> h[k[2]] > 0)
            /\ ~(k[1] = m + 1 /\ k[2] \in DOMAIN h) => old.alloc[k] = alloc[k]
  BY <1>6, <1>7, CashRowsShape
<1>9. SpentFrom(old, Book', DOMAIN f, m + 1)
  BY <1>1, <1>3, <1>5, <1>7, RecordEffect DEF CashBook
<1>10. /\ \A q \in 1..m : pay[q].kind \in {"CASH", "ONLINE"} =>
                \A a \in Dues : alloc'[<<q, a>>] = old.alloc[<<q, a>>]
       /\ \A k \in PaymentIds \X Dues : k[1] > m => alloc'[k] = old.alloc[k]
       /\ Len(credit') = Len(credit)
       /\ \A c \in 1..Len(credit) : credit'[c].source = credit[c].source
  BY <1>3, <1>8, <1>9, SpendSparesCash
<1>11. m + 1 \in PaymentIds /\ 1..m \subseteq PaymentIds
  BY <1>2, <1>3, ConstantFacts
<1>12. ASSUME NEW q \in 1..m PROVE CashRow(pay'[q], Held(alloc', q))
  <2>1. pay[q].kind \in {"CASH", "ONLINE"} => \A a \in Dues : alloc'[<<q, a>>] = alloc[<<q, a>>]
    <3> SUFFICES ASSUME pay[q].kind \in {"CASH", "ONLINE"}, NEW a \in Dues
                 PROVE  alloc'[<<q, a>>] = alloc[<<q, a>>]
      OBVIOUS
    <3>1. <<q, a>> \in PaymentIds \X Dues /\ <<q, a>>[1] = q /\ q # m + 1
      BY <1>11
    <3> QED
      BY <1>8, <1>10, <3>1
  <2>2. CashStays(q)
    BY <1>4, <2>1 DEF CashStays
  <2> QED
    BY <1>3, <2>2, CashKept
<1>13. Held(alloc', m + 1) = n
  <2>1. PICK q : q = m + 1
    OBVIOUS
  <2>2. \A a \in Dues : <<q, a>> \in PaymentIds \X Dues /\ <<q, a>>[1] = q /\ <<q, a>>[2] = a
    BY <1>11, <2>1
  <2>3. \A a \in Dues : alloc'[<<q, a>>] = old.alloc[<<q, a>>]
    BY <1>10, <2>1, <2>2
  <2>4. \A a \in DOMAIN f : /\ alloc'[<<q, a>>].amount = h[a]
                            /\ alloc'[<<q, a>>].live <=> h[a] > 0
    <3> SUFFICES ASSUME NEW a \in DOMAIN f
                 PROVE  alloc'[<<q, a>>].amount = h[a] /\ (alloc'[<<q, a>>].live <=> h[a] > 0)
      OBVIOUS
    <3>1. a \in Dues
      BY <1>6
    <3> QED
      BY <1>6, <1>8, <2>1, <2>2, <2>3, <3>1
  <2>5. \A a \in Dues \ DOMAIN f : ~(alloc'[<<q, a>>].live)
    <3> SUFFICES ASSUME NEW a \in Dues \ DOMAIN f PROVE ~(alloc'[<<q, a>>].live)
      OBVIOUS
    <3>1. alloc'[<<q, a>>] = alloc[<<q, a>>]
      BY <1>6, <1>8, <2>2, <2>3
    <3>2. ~(alloc[<<q, a>>].live)
      BY <1>3, <2>1, <2>2 DEF CashInv, UnbornInv
    <3> QED
      BY <3>1, <3>2
  <2>6. \A a \in DOMAIN f : /\ alloc'[<<q, a>>].amount = Cash(f, useCredit)[a]
                            /\ alloc'[<<q, a>>].live <=> Cash(f, useCredit)[a] > 0
    BY <1>5, <2>4
  <2> HIDE <1>5
  <2> QED
    BY <1>2, <2>1, <2>5, <2>6, HeldCash
<1>14. CashRow(pay'[m + 1], Held(alloc', m + 1))
  <2>1. /\ pay'[m + 1].kind = kind /\ pay'[m + 1].amount = n /\ pay'[m + 1].status = status
        /\ pay'[m + 1].deleted = FALSE
    BY <1>4 DEF NewRow
  <2>2. status \notin {"REJECTED", "REFUNDED", "CANCELLED", "EXPIRED"}
    BY DEF Recorded
  <2> QED
    BY <1>13, <2>1, <2>2 DEF CashRow
<1>15. UnbornInv'
  <2> SUFFICES ASSUME NEW k \in PaymentIds \X Dues, k[1] > m + 1 PROVE ~(alloc'[k].live)
    BY <1>4 DEF UnbornInv
  <2>1. k[1] \in Nat /\ k[1] > m /\ k[1] # m + 1
    BY ConstantFacts
  <2>2. alloc'[k] = alloc[k]
    BY <1>8, <1>10, <2>1
  <2> QED
    BY <1>3, <2>1, <2>2 DEF CashInv, UnbornInv
<1>16. SourceInv'
  <2>1. \A c \in 1..Len(credit) : /\ credit[c].source \in 1..m
                                  /\ pay[credit[c].source].kind \in {"ADVANCE", "CREDIT_ISSUE"}
    BY <1>3, TypeFacts DEF CashInv, SourceInv
  <2> QED
    BY <1>4, <1>10, <2>1 DEF SourceInv
<1>17. \A q \in 1..Len(pay') : CashRow(pay'[q], Held(alloc', q))
  <2>1. \A q \in 1..Len(pay') : q \in 1..m \/ q = m + 1
    BY <1>4
  <2> QED
    BY <1>12, <1>14, <2>1
<1> QED
  BY <1>15, <1>16, <1>17 DEF CashInv, CashRow, Held

\* One payment is undone.
LEMMA CashUndo ==
    ASSUME TypeInv, CashInv, NEW p, UndoAction(p)
    PROVE  CashInv'
<1>1. /\ p \in 1..Len(pay) /\ PayChanged(p) /\ UnwindsTo(p)
      /\ \/ pay'[p].status \in {"REJECTED", "REFUNDED", "CANCELLED", "FAILED", "EXPIRED"}
         \/ pay'[p].deleted
  BY UndoEffect DEF Undone
<1>2. PICK U : U = UsesPaidBy(p)
  OBVIOUS
<1>3. U \in SUBSET (1..Len(used))
  BY <1>2 DEF UsesPaidBy
<1>4. /\ alloc' = Silenced(alloc, {k \in PaymentIds \X Dues :
                                     k[1] = p \/ \E u \in U : k = RowOf(u)})
      /\ Len(credit') = Len(credit)
      /\ \A c \in 1..Len(credit) : credit'[c].source = credit[c].source
  BY <1>1, <1>2, UnwindEffect, NextBookFacts DEF Reversed
<1>5. /\ \A q \in 1..Len(pay) : q # p /\ pay[q].kind \in {"CASH", "ONLINE"} =>
               \A a \in Dues : alloc'[<<q, a>>] = alloc[<<q, a>>]
      /\ \A k \in PaymentIds \X Dues : alloc'[k].live => alloc[k].live /\ k[1] # p
  BY <1>3, <1>4, SilenceSparesCash
<1>6. \A q \in 1..Len(pay) : q # p => CashStays(q)
  BY <1>1, <1>5 DEF CashStays, PayChanged
<1>7. Held(alloc', p) = 0
  <2>1. \A a \in Dues : <<p, a>> \in PaymentIds \X Dues /\ <<p, a>>[1] = p
    BY <1>1, TypeFacts, ConstantFacts
  <2>2. \A a \in Dues : ~(alloc'[<<p, a>>].live)
    BY <1>5, <2>1
  <2> QED
    BY <2>2, HeldNothing
<1>8. CashRow(pay'[p], Held(alloc', p))
  BY <1>1, <1>7 DEF CashRow
<1>9. Len(pay') = Len(pay) /\ \A q \in 1..Len(pay) : pay'[q].kind = pay[q].kind
  BY <1>1 DEF PayChanged
<1> HIDE <1>2
<1>10. \A k \in PaymentIds \X Dues : k[1] > Len(pay) /\ alloc'[k].live => alloc[k].live
  BY <1>5
<1>11. /\ Len(credit') = Len(credit)
       /\ \A c \in 1..Len(credit) : credit'[c].source = credit[c].source
  BY <1>4
<1> HIDE <1>4
<1> QED
  BY <1>6, <1>8, <1>9, <1>10, <1>11, CashFrame

\* A credit is voided.
LEMMA CashVoid ==
    ASSUME TypeInv, CashInv, NEW c, VoidCredit(c)
    PROVE  CashInv'
<1>1. PICK s \in 1..Len(pay) : s = credit[c].source
  BY VoidPays
<1>2. pay[s].kind \notin {"CASH", "ONLINE"}
  BY <1>1, VoidPays DEF CashInv, SourceInv
<1>3. /\ Len(pay') = Len(pay) /\ \A q \in 1..Len(pay) : pay'[q].kind = pay[q].kind
      /\ \A q \in 1..Len(pay) : q # s => pay'[q] = pay[q]
  BY <1>1, VoidPays DEF StatusSet, PayChanged
<1>4. PICK U : U = UsesOf(c)
  OBVIOUS
<1>5. U \in SUBSET (1..Len(used))
  BY <1>4 DEF UsesOf
<1>6. PICK z : z = 0 /\ z \notin 1..Len(pay)
  OBVIOUS
<1>7. alloc' = Silenced(alloc, {k \in PaymentIds \X Dues :
                                  k[1] = z \/ \E u \in U : k = RowOf(u)})
  <2>1. alloc' = Silenced(alloc, {k \in PaymentIds \X Dues : \E u \in U : k = RowOf(u)})
    BY <1>4, VoidEffect DEF Voided
  <2>2. \A k \in PaymentIds \X Dues : k[1] # z
    BY <1>6, ConstantFacts
  <2>3. {k \in PaymentIds \X Dues : \E u \in U : k = RowOf(u)} =
        {k \in PaymentIds \X Dues : k[1] = z \/ \E u \in U : k = RowOf(u)}
    BY <2>2
  <2> QED
    BY <2>1, <2>3
<1>8. /\ \A q \in 1..Len(pay) : q # z /\ pay[q].kind \in {"CASH", "ONLINE"} =>
               \A a \in Dues : alloc'[<<q, a>>] = alloc[<<q, a>>]
      /\ \A k \in PaymentIds \X Dues : alloc'[k].live => alloc[k].live /\ k[1] # z
  BY <1>5, <1>7, SilenceSparesCash
<1>9. \A q \in 1..Len(pay) : q # s => CashStays(q)
  BY <1>3, <1>6, <1>8 DEF CashStays
<1>10. CashRow(pay'[s], Held(alloc', s))
  BY <1>2, <1>3 DEF CashRow
<1>11. /\ Len(credit') = Len(credit)
       /\ \A d \in 1..Len(credit) : credit'[d].source = credit[d].source
  BY VoidEffect DEF Voided
<1>12. \A k \in PaymentIds \X Dues : k[1] > Len(pay) /\ alloc'[k].live => alloc[k].live
  BY <1>8
<1> HIDE <1>7
<1> QED
  BY <1>3, <1>9, <1>10, <1>11, <1>12, CashFrame

\* A credit granted from an advance payment or issued keeps SourceInv.
LEMMA SourceJoins ==
    ASSUME TypeInv, SourceInv, NEW p, NEW n,
           credit' = Append(credit, [source |-> p, balance |-> n, granted |-> n]),
           pay'[p].kind \in {"ADVANCE", "CREDIT_ISSUE"},
           \A q \in 1..Len(pay) : pay'[q].kind = pay[q].kind
    PROVE  SourceInv'
<1>1. PICK m \in Nat : m = Len(credit) /\ \A c \in 1..m : credit[c].source \in 1..Len(pay)
  BY TypeFacts
<1>2. PICK r : r = [source |-> p, balance |-> n, granted |-> n] /\ r.source = p
  OBVIOUS
<1>3. /\ Len(credit') = m + 1 /\ credit'[m + 1] = r
      /\ \A c \in 1..m : credit'[c] = credit[c]
  BY <1>1, <1>2, TypeFacts
<1>4. \A c \in 1..m : pay'[credit'[c].source].kind \in {"ADVANCE", "CREDIT_ISSUE"}
  BY <1>1, <1>3 DEF SourceInv
<1>5. \A c \in 1..Len(credit') : c \in 1..m \/ c = m + 1
  BY <1>3
<1> QED
  BY <1>2, <1>3, <1>4, <1>5 DEF SourceInv

LEMMA CashAdvance ==
    ASSUME TypeInv, CashInv, NEW p, HasStatus(p, {"PENDING_VERIFICATION"}), VerifyAdvance(p)
    PROVE  CashInv'
<1>1. /\ p \in 1..Len(pay) /\ pay[p].kind = "ADVANCE" /\ StatusSet(p, "VERIFIED")
      /\ \A k \in PaymentIds \X Dues : k[1] # p => alloc'[k] = alloc[k]
  BY AdvanceEffect
<1>2. PICK m \in Nat : m = Len(pay) /\ 1..m \subseteq PaymentIds
  BY TypeFacts, ConstantFacts
<1>3. /\ Len(pay') = m /\ \A q \in 1..m : pay'[q].kind = pay[q].kind
      /\ \A q \in 1..m : q # p => pay'[q] = pay[q]
  BY <1>1, <1>2 DEF StatusSet, PayChanged
<1>4. UnbornInv'
  BY <1>1, <1>2, <1>3 DEF CashInv, UnbornInv
<1>5. SourceInv'
  <2>1. CASE credit' = credit
    <3>1. \A c \in 1..Len(credit) : /\ credit[c].source \in 1..m
                                    /\ pay[credit[c].source].kind \in {"ADVANCE", "CREDIT_ISSUE"}
      BY <1>2, TypeFacts DEF CashInv, SourceInv
    <3> QED
      BY <1>3, <2>1, <3>1 DEF SourceInv
  <2>2. ASSUME NEW n \in Nat, credit' = Append(credit, [source |-> p, balance |-> n, granted |-> n])
        PROVE  SourceInv'
    <3>1. pay'[p].kind \in {"ADVANCE", "CREDIT_ISSUE"} /\ SourceInv
      BY <1>1, <1>2, <1>3 DEF CashInv
    <3>2. \A q \in 1..Len(pay) : pay'[q].kind = pay[q].kind
      BY <1>2, <1>3
    <3> QED
      BY <2>2, <3>1, <3>2, SourceJoins
  <2> QED
    BY <2>1, <2>2, AdvanceEffect
<1>6. ASSUME NEW q \in 1..m PROVE CashRow(pay'[q], Held(alloc', q))
  <2>1. CASE q = p
    BY <1>1, <1>3, <2>1 DEF CashRow
  <2>2. CASE q # p
    <3>1. \A a \in Dues : <<q, a>> \in PaymentIds \X Dues /\ <<q, a>>[1] = q
      BY <1>2
    <3>2. CashStays(q)
      BY <1>1, <1>3, <2>2, <3>1 DEF CashStays
    <3> QED
      BY <1>2, <3>2, CashKept
  <2> QED
    BY <2>1, <2>2
<1> QED
  BY <1>3, <1>4, <1>5, <1>6 DEF CashInv, CashRow, Held

LEMMA CashIssue ==
    ASSUME TypeInv, CashInv, NEW n \in CreditAmounts, IssueCredit(n)
    PROVE  CashInv'
<1>1. PICK m \in Nat : m = Len(pay)
  BY TypeFacts
<1>2. /\ "CREDIT_ISSUE" \in PayKind /\ "VERIFIED" \in PayStatus /\ n \in Nat /\ m < MaxPayments
      /\ pay' = Append(pay, NewRow("CREDIT_ISSUE", n, "VERIFIED")) /\ alloc' = alloc
      /\ credit' = Append(credit, [source |-> m + 1, balance |-> n, granted |-> n])
  BY <1>1, IssueEffect DEF PayKind, PayStatus
<1>3. /\ Len(pay') = m + 1 /\ \A q \in 1..m : pay'[q] = pay[q]
      /\ pay'[m + 1] = NewRow("CREDIT_ISSUE", n, "VERIFIED")
  BY <1>1, <1>2, AppendEffect
<1>4. pay'[m + 1].kind = "CREDIT_ISSUE"
  BY <1>3 DEF NewRow
<1>5. UnbornInv'
  <2> SUFFICES ASSUME NEW k \in PaymentIds \X Dues, k[1] > m + 1 PROVE ~(alloc[k].live)
    BY <1>2, <1>3 DEF UnbornInv
  <2>1. k[1] \in Nat /\ k[1] > m
    BY ConstantFacts
  <2> QED
    BY <1>1, <2>1 DEF CashInv, UnbornInv
<1>6. SourceInv'
  <2>1. PICK p : p = m + 1
    OBVIOUS
  <2>2. /\ credit' = Append(credit, [source |-> p, balance |-> n, granted |-> n])
        /\ pay'[p].kind \in {"ADVANCE", "CREDIT_ISSUE"} /\ SourceInv
    BY <1>2, <1>4, <2>1 DEF CashInv
  <2>3. \A q \in 1..Len(pay) : pay'[q].kind = pay[q].kind
    BY <1>1, <1>3
  <2> QED
    BY <2>2, <2>3, SourceJoins
<1>7. ASSUME NEW q \in 1..m PROVE CashRow(pay'[q], Held(alloc', q))
  <2>1. CashStays(q)
    BY <1>2, <1>3 DEF CashStays
  <2> QED
    BY <1>1, <2>1, CashKept
<1>8. CashRow(pay'[m + 1], Held(alloc', m + 1))
  BY <1>4 DEF CashRow
<1>9. \A q \in 1..Len(pay') : q \in 1..m \/ q = m + 1
  BY <1>3
<1>10. \A q \in 1..Len(pay') : CashRow(pay'[q], Held(alloc', q))
  BY <1>7, <1>8, <1>9
<1> QED
  BY <1>5, <1>6, <1>10 DEF CashInv, CashRow, Held

LEMMA CashStep ==
    ASSUME TypeInv, CashInv, ~Edits, Next
    PROVE  CashInv'
<1>1. ASSUME NEW p \in 1..Len(pay), alloc' = alloc, credit' = credit, PayChanged(p), CashStays(p)
      PROVE  CashInv'
  <2>1. /\ Len(pay') = Len(pay) /\ \A q \in 1..Len(pay) : pay'[q].kind = pay[q].kind
        /\ \A q \in 1..Len(pay) : q # p => pay'[q] = pay[q]
    BY <1>1 DEF PayChanged
  <2>2. \A q \in 1..Len(pay) : q # p => CashStays(q)
    BY <1>1, <2>1 DEF CashStays
  <2>3. CashRow(pay'[p], Held(alloc', p))
    BY <1>1, CashKept
  <2>4. /\ \A c \in 1..Len(credit) : credit'[c].source = credit[c].source
        /\ Len(credit') = Len(credit)
        /\ \A k \in PaymentIds \X Dues : k[1] > Len(pay) /\ alloc'[k].live => alloc[k].live
    BY <1>1
  <2> QED
    BY <2>1, <2>2, <2>3, <2>4, CashFrame
<1>2. ASSUME pay' = pay, alloc' = alloc, Len(credit') = Len(credit),
             \A c \in 1..Len(credit) : credit'[c].source = credit[c].source
      PROVE  CashInv'
  <2>1. \A q \in 1..Len(pay) : CashStays(q)
    BY <1>2 DEF CashStays
  <2>2. PICK z : z = 0 /\ z \notin 1..Len(pay)
    OBVIOUS
  <2> QED
    BY <1>2, <2>1, <2>2, CashFrame
<1>3. ASSUME NEW p, Verified(p) PROVE CashInv'
  <2>1. /\ p \in 1..Len(pay) /\ "VERIFIED" \in PayStatus /\ SetStatus(p, "VERIFIED")
        /\ alloc' = alloc /\ credit' = credit
        /\ pay[p].status \in {"PENDING_VERIFICATION", "PROCESSING"}
    BY <1>3 DEF Verified, VerifyPlain, GatewaySucceeded, HasStatus, Live, PayStatus
  <2>2. StatusSet(p, "VERIFIED")
    BY <2>1, StatusEffect
  <2>3. PayChanged(p) /\ CashStays(p)
    BY <2>1, <2>2 DEF StatusSet, PayChanged, CashStays
  <2> QED
    BY <1>1, <2>1, <2>3
<1>4. CASE SettleByCredit \/ ApplyManual
  <2>1. PICK f \in Targets : KeepBook(SpendAll(Book, f, NoOne)) /\ pay' = pay
    BY <1>4 DEF SettleByCredit, ApplyManual
  <2> QED
    BY <2>1, CashSpend
<1>5. ASSUME NEW c, NEW n \in CreditAmounts, AdjustCredit(c, n) PROVE CashInv'
  <2>1. /\ pay' = pay /\ alloc' = alloc /\ Len(credit') = Len(credit)
        /\ \A d \in 1..Len(credit) : credit'[d].source = credit[d].source
    BY <1>5, AdjustEffect
  <2> QED
    BY <1>2, <2>1
<1>6. CASE Untouched
  BY <1>2, <1>6 DEF Untouched
<1>7. \A p : ~UpdatePayment(p)
  BY DEF UpdatePayment
<1> QED
  BY <1>3, <1>4, <1>5, <1>6, <1>7, CashRecord, CashUndo, CashVoid, CashAdvance, CashIssue, Cases

\* As long as no one edits a pending payment, a cash or online payment that
\* stands holds exactly its amount in live allocations, and one that was
\* rejected, refunded, cancelled, expired or deleted holds nothing, whatever
\* credit is spent, given back or voided meanwhile.
THEOREM CashIsHeldExactly ==
    ASSUME ~Edits
    PROVE  Spec => []CashHeldExactly
<1>1. Init => CashInv
  <2> SUFFICES ASSUME Init PROVE CashInv
    OBVIOUS
  <2>1. Len(pay) = 0 /\ Len(credit) = 0 /\ \A k \in PaymentIds \X Dues : ~(alloc[k].live)
    BY DEF Init
  <2> QED
    BY <2>1 DEF CashInv, UnbornInv, SourceInv
<1>2. TypeInv /\ CashInv /\ [Next]_vars => CashInv'
  <2> SUFFICES ASSUME TypeInv, CashInv, [Next]_vars PROVE CashInv'
    OBVIOUS
  <2>1. CASE Next
    BY <2>1, CashStep
  <2>2. CASE UNCHANGED vars
    BY <2>2 DEF vars, CashInv, UnbornInv, SourceInv, CashRow, Held
  <2> QED
    BY <2>1, <2>2
<1> QED
  BY <1>1, <1>2, TypeAlways, CashInvSuffices, PTL DEF Spec

-----------------------------------------------------------------------------
(* Credit within its grant.                                                *)

\* A sum splits over a part of its indices and the rest.
LEMMA SumSplit ==
    ASSUME NEW S, IsFiniteSet(S), NEW f, \A x \in S : f[x] \in Nat, NEW T \in SUBSET S
    PROVE  SumFunctionOnSet(f, S) = SumFunctionOnSet(f, T) + SumFunctionOnSet(f, S \ T)
<1> DEFINE g == [x \in S |-> IF x \in T THEN f[x] ELSE 0]
           h == [x \in S |-> IF x \in T THEN 0 ELSE f[x]]
<1>1. \A x \in S : g[x] \in Nat /\ h[x] \in Nat /\ f[x] = g[x] + h[x]
  OBVIOUS
<1>2. SumFunctionOnSet(f, S) = SumFunctionOnSet(g, S) + SumFunctionOnSet(h, S)
  <2> HIDE DEF g, h
  <2> QED
    BY <1>1, SumOfSum
<1>3. IsFiniteSet(T) /\ IsFiniteSet(S \ T)
  BY FS_Subset
<1>4. SumFunctionOnSet(g, S) = SumFunctionOnSet(f, T)
  <2>1. /\ \A x \in S \ T : g[x] = 0
        /\ \A x \in T : f[x] \in Nat /\ g[x] = f[x]
    OBVIOUS
  <2> HIDE DEF g
  <2>2. SumFunctionOnSet(g, S) = SumFunctionOnSet(g, T)
    BY <1>1, <2>1, SumSupport
  <2>3. SumFunctionOnSet(g, T) = SumFunctionOnSet(f, T)
    BY <1>3, <2>1, SumCongruence
  <2> QED
    BY <2>2, <2>3
<1>5. SumFunctionOnSet(h, S) = SumFunctionOnSet(f, S \ T)
  <2>1. /\ \A x \in S \ (S \ T) : h[x] = 0
        /\ \A x \in S \ T : f[x] \in Nat /\ h[x] = f[x]
    OBVIOUS
  <2> HIDE DEF h
  <2>2. S \ T \in SUBSET S
    OBVIOUS
  <2>3. SumFunctionOnSet(h, S) = SumFunctionOnSet(h, S \ T)
    BY <1>1, <2>1, <2>2, SumSupport
  <2>4. SumFunctionOnSet(h, S \ T) = SumFunctionOnSet(f, S \ T)
    BY <1>3, <2>1, SumCongruence
  <2> QED
    BY <2>3, <2>4
<1> QED
  BY <1>2, <1>4, <1>5

\* What the applications V of credit c that count are worth.
LiveUses(V, c) == {u \in 1..Len(V) : V[u].credit = c /\ V[u].live}
Spent(V, c)    == SumFunctionOnSet([u \in 1..Len(V) |-> V[u].amount], LiveUses(V, c))
Within(b)      == \A c \in 1..Len(b.credit) :
                     b.credit[c].balance + Spent(b.used, c) <= b.credit[c].granted

LEMMA SpentIs ==
    \A c : SpentOf(c) = Spent(used, c) /\ SpentOf(c)' = Spent(used', c)
  BY Zenon DEF SpentOf, UsesOf, Spent, LiveUses

LEMMA SpentNat ==
    ASSUME NEW V \in Seq(UseRow), NEW c
    PROVE  /\ IsFiniteSet(LiveUses(V, c)) /\ LiveUses(V, c) \subseteq 1..Len(V)
           /\ \A u \in 1..Len(V) : V[u].amount \in Nat
           /\ Spent(V, c) \in Nat
<1>1. PICK m \in Nat : m = Len(V) /\ \A u \in 1..m : V[u] \in UseRow
  OBVIOUS
<1>2. IsFiniteSet(1..m)
  BY FS_Interval
<1>3. PICK T : T = LiveUses(V, c) /\ T \subseteq 1..m
  BY <1>1 DEF LiveUses
<1>4. IsFiniteSet(T)
  BY <1>2, <1>3, FS_Subset
<1>5. PICK f : f = [u \in 1..m |-> V[u].amount]
  OBVIOUS
<1>6. \A u \in 1..m : V[u].amount \in Nat
  BY <1>1 DEF UseRow
<1>7. \A u \in T : f[u] \in Nat
  BY <1>3, <1>5, <1>6
<1>8. SumFunctionOnSet(f, T) \in Nat
  BY <1>4, <1>7, SumType
<1> QED
  BY <1>1, <1>3, <1>4, <1>5, <1>6, <1>8 DEF Spent

\* One spending moves to the applications what it takes off the balances.
LEMMA SpentGrows ==
    ASSUME NEW V \in Seq(UseRow), NEW m \in Nat, NEW take \in [1..m -> Nat], NEW new, NEW a,
           NEW payer, Records(new, take, m, a, payer), NEW c \in 1..m
    PROVE  Spent(V \o new, c) <= Spent(V, c) + take[c]
<1>1. PICK W : W = V \o new
  OBVIOUS
<1>2. PICK x, y \in Nat : x = Len(V) /\ y = Len(new) /\ x \in Nat
  BY DEF Records
<1>3. /\ W \in Seq(UseRow) /\ Len(W) = x + y
      /\ \A u \in 1..x : W[u] = V[u]
      /\ \A u \in 1..y : W[x + u] = new[u]
  BY <1>1, <1>2 DEF Records
<1>4. PICK f : f = [u \in 1..Len(W) |-> W[u].amount]
  OBVIOUS
<1>5. PICK S : S = LiveUses(W, c)
  OBVIOUS
<1>6. PICK T : T = LiveUses(V, c)
  OBVIOUS
<1>7. IsFiniteSet(S) /\ S \subseteq 1..(x + y) /\ \A u \in 1..(x + y) : f[u] = W[u].amount /\ f[u] \in Nat
  BY <1>3, <1>4, <1>5, SpentNat
<1>8. T \in SUBSET S /\ \A u \in S \ T : u \in (x + 1)..(x + y) /\ W[u].credit = c
  <2>1. T = {u \in 1..x : V[u].credit = c /\ V[u].live}
    BY <1>2, <1>6 DEF LiveUses
  <2>2. S = {u \in 1..(x + y) : W[u].credit = c /\ W[u].live}
    BY <1>3, <1>5 DEF LiveUses
  <2> QED
    BY <1>2, <1>3, <2>1, <2>2
<1>9. Spent(W, c) = SumFunctionOnSet(f, T) + SumFunctionOnSet(f, S \ T)
  <2>1. \A u \in S : f[u] \in Nat
    BY <1>7
  <2> QED
    BY <1>4, <1>5, <1>7, <1>8, <2>1, SumSplit, ZenonT(60) DEF Spent
<1>10. SumFunctionOnSet(f, T) = Spent(V, c) /\ Spent(V, c) \in Nat
  <2>1. PICK g : g = [u \in 1..Len(V) |-> V[u].amount]
    OBVIOUS
  <2>2. IsFiniteSet(T) /\ T \subseteq 1..x /\ \A u \in T : g[u] \in Nat /\ f[u] = g[u]
    BY <1>2, <1>3, <1>4, <1>6, <2>1, SpentNat
  <2>3. SumFunctionOnSet(f, T) = SumFunctionOnSet(g, T)
    BY <2>2, SumCongruence
  <2> QED
    BY <1>6, <2>1, <2>3, SpentNat DEF Spent
<1>11. SumFunctionOnSet(f, S \ T) \in Nat /\ SumFunctionOnSet(f, S \ T) <= take[c]
  <2>1. ASSUME NEW u \in S \ T
        PROVE  u \in Nat /\ u - x \in 1..y /\ W[u] = new[u - x] /\ W[u].credit = c
    <3>1. u \in (x + 1)..(x + y) /\ W[u].credit = c
      BY <1>8
    <3>2. u \in Nat /\ u - x \in 1..y /\ x + (u - x) = u
      BY <3>1
    <3>3. W[x + (u - x)] = new[u - x]
      BY <1>3, <3>2
    <3> QED
      BY <3>1, <3>2, <3>3
  <2>2. ASSUME NEW u \in S \ T PROVE f[u] = take[c]
    <3>1. PICK i \in 1..y : i = u - x /\ W[u] = new[i] /\ f[u] = new[i].amount /\ new[i].credit = c
      BY <1>7, <2>1
    <3>2. i \in 1..Len(new)
      BY <1>2, <3>1
    <3>3. new[i].amount = take[new[i].credit]
      BY <3>2 DEF Records
    <3> QED
      BY <3>1, <3>3
  <2>3. \A u, v \in S \ T : u = v
    <3> SUFFICES ASSUME NEW u \in S \ T, NEW v \in S \ T PROVE u = v
      OBVIOUS
    <3>1. new[u - x].credit = c /\ new[v - x].credit = c
      BY <2>1
    <3>2. u - x = v - x
      BY <1>2, <2>1, <3>1 DEF Records
    <3>3. u \in Nat /\ v \in Nat
      BY <2>1
    <3>4. \A i, j, k \in Nat : i - k = j - k => i = j
      OBVIOUS
    <3> QED
      BY <3>2, <3>3, <3>4
  <2>4. take[c] \in Nat
    OBVIOUS
  <2>5. CASE S \ T = {}
    <3>1. SumFunctionOnSet(f, {}) = 0
      BY SumEmpty
    <3>2. SumFunctionOnSet(f, S \ T) = SumFunctionOnSet(f, {})
      BY <2>5, Zenon
    <3> QED
      BY <2>4, <3>1, <3>2
  <2>6. CASE S \ T # {}
    <3>1. PICK R : R = S \ T
      OBVIOUS
    <3>2. PICK u \in R : R \ {u} = {} /\ f[u] = take[c]
      BY <2>2, <2>3, <2>6, <3>1
    <3>3. IsFiniteSet(R) /\ \A v \in R : f[v] \in Nat
      BY <1>7, <3>1, FS_Subset
    <3>4. SumFunctionOnSet(f, R) = f[u] + SumFunctionOnSet(f, R \ {u})
      BY <3>3, SumRemove
    <3>5. SumFunctionOnSet(f, R \ {u}) = 0
      BY <3>2, SumEmpty
    <3> QED
      BY <2>4, <3>1, <3>2, <3>4, <3>5
  <2> QED
    BY <2>5, <2>6
<1>12. take[c] \in Nat
  OBVIOUS
<1> QED
  BY <1>1, <1>9, <1>10, <1>11, <1>12

LEMMA SpendWithin ==
    ASSUME NEW b \in Books, Within(b), NEW a \in Dues, NEW n \in Nat,
           NEW payer \in PaymentIds \cup {NoOne}
    PROVE  Within(Spend(b, a, n, payer))
<1>1. PICK take, new : OpenedUp(b, a, n, payer, take, new)
  BY SpendShape
<1>2. PICK m \in Nat : m = Len(b.credit)
  BY DEF Books
<1>3. PICK C : C = [c \in 1..m |-> [b.credit[c] EXCEPT !.balance = @ - take[c]]]
  OBVIOUS
<1>4. PICK r : r = Spend(b, a, n, payer)
  OBVIOUS
<1>5. r.credit = C /\ r.used = b.used \o new
  BY <1>1, <1>2, <1>3, <1>4 DEF OpenedUp
<1>6. Len(C) = m
  BY <1>3
<1>7. ASSUME NEW c \in 1..m
      PROVE  C[c].balance + Spent(b.used \o new, c) <= C[c].granted
  <2>1. b.credit[c] \in CreditRow
    <3>1. b.credit \in Seq(CreditRow)
      BY DEF Books
    <3> QED
      BY <1>2, <3>1
  <2>2. take \in [1..m -> Nat] /\ take[c] <= b.credit[c].balance /\ take[c] \in Nat
        /\ Records(new, take, m, a, payer)
    BY <1>1, <1>2 DEF OpenedUp, Takes
  <2>3. C[c] = [b.credit[c] EXCEPT !.balance = b.credit[c].balance - take[c]]
    BY <1>3
  <2>4. C[c].balance = b.credit[c].balance - take[c] /\ C[c].granted = b.credit[c].granted
    BY <2>1, <2>3 DEF CreditRow
  <2>5. b.used \in Seq(UseRow)
    BY DEF Books
  <2>6. PICK old \in Nat : old = Spent(b.used, c)
    BY <2>5, SpentNat
  <2>7. Spent(b.used \o new, c) <= old + take[c]
    BY <2>2, <2>5, <2>6, SpentGrows
  <2>8. Spent(b.used \o new, c) \in Nat
    <3>1. PICK W : W = b.used \o new
      OBVIOUS
    <3>2. W \in Seq(UseRow)
      BY <2>2, <2>5, <3>1 DEF Records
    <3> QED
      BY <3>1, <3>2, SpentNat
  <2>9. b.credit[c].balance + old <= b.credit[c].granted
    BY <1>2, <2>6 DEF Within
  <2>10. b.credit[c].balance \in Nat /\ b.credit[c].granted \in Nat
    BY <2>1 DEF CreditRow
  <2>11. PICK bal, g, t, sp \in Nat : /\ bal = b.credit[c].balance /\ g = b.credit[c].granted
                                    /\ t = take[c] /\ sp = Spent(b.used \o new, c)
    BY <2>2, <2>8, <2>10
  <2>12. sp <= old + t /\ bal + old <= g /\ (bal - t) + sp <= g
    BY <2>7, <2>9, <2>11
  <2>13. C[c].balance = bal - t /\ C[c].granted = g
    BY <2>4, <2>11
  <2> QED
    BY <2>11, <2>12, <2>13
<1>8. Within(r)
  BY <1>5, <1>6, <1>7 DEF Within
<1> QED
  BY <1>4, <1>8

LEMMA SpendAllWithin ==
    ASSUME NEW old \in Books, Within(old), NEW n, DOMAIN n \subseteq Dues,
           \A a \in DOMAIN n : n[a] \in Nat, NEW payer \in PaymentIds \cup {NoOne}
    PROVE  Within(SpendAll(old, n, payer))
<1> DEFINE V == {b \in Books : Within(b) /\ SpentFrom(old, b, DOMAIN n, payer)}
<1>1. old \in V
  <2>1. Len(old.used) \in Nat
    <3>1. old.used \in Seq(UseRow)
      BY DEF Books
    <3> QED
      BY <3>1
  <2>2. (Len(old.used) + 1)..Len(old.used) = {}
    BY <2>1
  <2> QED
    BY <2>1, <2>2 DEF SpentFrom
<1>2. ASSUME NEW b \in V, NEW a \in DOMAIN n PROVE Spend(b, a, n[a], payer) \in V
  <2>1. n[a] \in Nat /\ a \in Dues /\ SpentFrom(old, b, DOMAIN n, payer) /\ Within(b) /\ b \in Books
    OBVIOUS
  <2>2. SpentFrom(old, Spend(b, a, n[a], payer), DOMAIN n, payer)
    BY <2>1, SpendIsSpending
  <2>3. Within(Spend(b, a, n[a], payer))
    BY <2>1, SpendWithin
  <2> QED
    BY <2>2, <2>3 DEF SpentFrom
<1>3. DOMAIN n \subseteq Int /\ IsFiniteSet(DOMAIN n)
  <2>1. Dues \subseteq Int /\ \A T \in SUBSET Dues : IsFiniteSet(T)
    BY DuesFacts
  <2> QED
    BY <2>1
<1>4. SpendAll(old, n, payer) \in V
  <2> HIDE DEF V
  <2> QED
    BY <1>1, <1>2, <1>3, SpendAllKeeps
<1> QED
  BY <1>4

\* What is left of a credit and what was spent of it stay within its grant.
GrantInv ==
    \A c \in 1..Len(credit) : credit[c].balance + Spent(used, c) <= credit[c].granted

LEMMA GrantIs == (GrantInv <=> Within(Book)) /\ (Within(Book') => GrantInv')
<1>1. Book.credit = credit /\ Book.used = used
  BY DEF Book
<1>2. Book'.credit = credit' /\ Book'.used = used'
  BY NextBookFacts
<1>3. GrantInv <=> Within(Book)
  BY <1>1 DEF GrantInv, Within
<1>4. Within(Book') => GrantInv'
  <2> SUFFICES ASSUME Within(Book'), NEW c \in 1..Len(credit')
               PROVE  credit'[c].balance + Spent(used', c) <= credit'[c].granted
    BY Zenon DEF GrantInv
  <2> QED
    BY <1>2 DEF Within
<1> QED
  BY <1>3, <1>4

\* Applications that keep their amounts, some of which stop counting.
LEMMA SpentRetired ==
    ASSUME TypeInv, NEW U, NEW c,
           NEW B, B = {u \in LiveUses(used, c) : u \in U}
    PROVE  /\ LiveUses(Retired(U), c) = LiveUses(used, c) \ B
           /\ Spent(Retired(U), c) \in Nat
           /\ Spent(used, c) =
                SumFunctionOnSet([u \in 1..Len(used) |-> used[u].amount], B) + Spent(Retired(U), c)
<1>1. PICK W : W = Retired(U)
  OBVIOUS
<1>2. PICK m \in Nat : m = Len(used) /\ used \in Seq(UseRow) /\ \A u \in 1..m : used[u] \in UseRow
  BY TypeFacts
<1>3. /\ W \in Seq(UseRow) /\ Len(W) = m
      /\ \A u \in 1..m : /\ W[u].credit = used[u].credit /\ W[u].amount = used[u].amount
                         /\ u \in U => W[u].live = FALSE
                         /\ u \notin U => W[u] = used[u]
  BY <1>1, <1>2, RetiredType
<1>4. PICK S : S = LiveUses(used, c) /\ S = {u \in 1..m : used[u].credit = c /\ used[u].live}
  BY <1>2 DEF LiveUses
<1>5. LiveUses(W, c) = S \ B
  <2>1. LiveUses(W, c) = {u \in 1..m : W[u].credit = c /\ W[u].live}
    BY <1>3 DEF LiveUses
  <2>2. \A u \in 1..m : (W[u].credit = c /\ W[u].live) <=> (u \in S /\ u \notin U)
    BY <1>3, <1>4
  <2> QED
    BY <1>4, <2>1, <2>2
<1>6. PICK f : f = [u \in 1..m |-> used[u].amount]
  OBVIOUS
<1>7. f = [u \in 1..Len(used) |-> used[u].amount] /\ f = [u \in 1..Len(W) |-> W[u].amount]
  BY <1>2, <1>3, <1>6
<1>8. Spent(W, c) = SumFunctionOnSet(f, S \ B) /\ Spent(W, c) \in Nat
  <2>1. Spent(W, c) \in Nat
    BY <1>3, SpentNat
  <2> QED
    BY <1>5, <1>7, <2>1, Zenon DEF Spent
<1>9. Spent(used, c) = SumFunctionOnSet(f, S)
  BY <1>4, <1>7, Zenon DEF Spent
<1>10. IsFiniteSet(S) /\ \A u \in S : f[u] \in Nat
  BY <1>2, <1>4, <1>6, SpentNat
<1>11. B \in SUBSET S
  BY <1>4
<1>12. SumFunctionOnSet(f, S) = SumFunctionOnSet(f, B) + SumFunctionOnSet(f, S \ B)
  BY <1>10, <1>11, SumSplit
<1> QED
  BY <1>1, <1>4, <1>5, <1>7, <1>8, <1>9, <1>12

LEMMA GrantUndo ==
    ASSUME TypeInv, GrantInv, NEW p, UndoAction(p)
    PROVE  GrantInv'
<1>1. Reversed(Book', p)
  BY UndoEffect, UnwindEffect DEF Undone
<1>2. /\ used' = Retired(UsesPaidBy(p)) /\ credit' \in Seq(CreditRow) /\ Len(credit') = Len(credit)
      /\ \A c \in 1..Len(credit) :
            /\ credit'[c].granted = credit[c].granted
            /\ credit'[c].balance <= credit[c].balance + BackTo(p, c)
  BY <1>1, NextBookFacts DEF Reversed
<1>3. ASSUME NEW c \in 1..Len(credit)
      PROVE  credit'[c].balance + Spent(used', c) <= credit'[c].granted
  <2>1. PICK B : B = {u \in LiveUses(used, c) : u \in UsesPaidBy(p)}
    OBVIOUS
  <2>2. B = {u \in UsesPaidBy(p) : used[u].credit = c}
    BY <2>1 DEF LiveUses, UsesPaidBy
  <2>3. PICK b \in Nat : b = BackTo(p, c)
    BY BackToType
  <2>4. b = SumFunctionOnSet([u \in 1..Len(used) |-> used[u].amount], B)
    BY <2>2, <2>3 DEF BackTo
  <2>5. Spent(used', c) \in Nat /\ Spent(used, c) = b + Spent(used', c)
    BY <1>2, <2>1, <2>4, SpentRetired
  <2>6. credit[c] \in CreditRow /\ credit'[c] \in CreditRow
    BY <1>2, TypeFacts
  <2>7. PICK bal, g, bal2, s2 \in Nat : /\ bal = credit[c].balance /\ g = credit[c].granted
                                        /\ bal2 = credit'[c].balance /\ s2 = Spent(used', c)
    BY <2>5, <2>6 DEF CreditRow
  <2>8. bal + (b + s2) <= g
    BY <2>5, <2>7 DEF GrantInv
  <2>9. bal2 <= bal + b /\ credit'[c].granted = g
    BY <1>2, <2>3, <2>7
  <2>10. bal2 + s2 <= g
    BY <2>8, <2>9
  <2> QED
    BY <2>7, <2>9, <2>10
<1> QED
  BY <1>2, <1>3 DEF GrantInv

LEMMA GrantVoid ==
    ASSUME TypeInv, GrantInv, NEW c, VoidCredit(c)
    PROVE  GrantInv'
<1>1. /\ used' = Retired(UsesOf(c)) /\ credit' \in Seq(CreditRow) /\ Len(credit') = Len(credit)
      /\ \A d \in 1..Len(credit) :
            /\ credit'[d].granted = credit[d].granted
            /\ d # c => credit'[d] = credit[d]
            /\ d = c => credit'[d].balance = 0
  BY VoidEffect DEF Voided
<1>2. ASSUME NEW d \in 1..Len(credit)
      PROVE  credit'[d].balance + Spent(used', d) <= credit'[d].granted
  <2>1. PICK B : B = {u \in LiveUses(used, d) : u \in UsesOf(c)}
    OBVIOUS
  <2>2. PICK g : g = [u \in 1..Len(used) |-> used[u].amount]
    OBVIOUS
  <2>3. /\ LiveUses(used', d) = LiveUses(used, d) \ B
        /\ Spent(used', d) \in Nat
        /\ Spent(used, d) = SumFunctionOnSet(g, B) + Spent(used', d)
    <3>1. PICK U : U = UsesOf(c) /\ used' = Retired(U) /\ B = {u \in LiveUses(used, d) : u \in U}
      BY <1>1, <2>1
    <3>2. /\ LiveUses(Retired(U), d) = LiveUses(used, d) \ B
          /\ Spent(Retired(U), d) \in Nat
          /\ Spent(used, d) =
               SumFunctionOnSet([u \in 1..Len(used) |-> used[u].amount], B) + Spent(Retired(U), d)
      BY <3>1, SpentRetired
    <3> QED
      BY <2>2, <3>1, <3>2
  <2>4. credit[d] \in CreditRow
    BY TypeFacts
  <2>5. CASE d = c
    <3>1. B = LiveUses(used, d)
      BY <2>1, <2>5 DEF LiveUses, UsesOf
    <3>2. LiveUses(used', d) = {}
      BY <2>3, <3>1
    <3>3. Spent(used', d) = 0
      BY <3>2, SumEmpty DEF Spent
    <3>4. credit'[d].balance = 0 /\ credit'[d].granted = credit[d].granted
      BY <1>1, <2>5
    <3> QED
      BY <2>4, <3>3, <3>4 DEF CreditRow
  <2>6. CASE d # c
    <3>1. B = {}
      BY <2>1, <2>6 DEF LiveUses, UsesOf
    <3>2. SumFunctionOnSet(g, {}) = 0
      BY SumEmpty
    <3>3. SumFunctionOnSet(g, B) = 0
      BY <3>1, <3>2, Zenon
    <3>4. Spent(used, d) = Spent(used', d)
      BY <2>3, <3>3
    <3> QED
      BY <1>1, <2>6, <3>4 DEF GrantInv
  <2> QED
    BY <2>5, <2>6
<1> QED
  BY <1>1, <1>2 DEF GrantInv

LEMMA GrantAdjust ==
    ASSUME TypeInv, GrantInv, NEW c, NEW n \in CreditAmounts, AdjustCredit(c, n)
    PROVE  GrantInv'
<1>1. /\ Len(credit') = Len(credit) /\ used' = used
      /\ credit'[c].balance = n /\ credit'[c].granted = n + SpentOf(c)
      /\ \A d \in 1..Len(credit) : d # c => credit'[d] = credit[d]
  BY AdjustEffect
<1>2. SpentOf(c) = Spent(used, c) /\ SpentOf(c) \in Nat /\ n \in Nat
  BY SpentIs, SpentType, ConstantFacts
<1>3. credit'[c].balance + Spent(used', c) <= credit'[c].granted
  <2>1. PICK s, x \in Nat : s = SpentOf(c) /\ x = n
    BY <1>2
  <2>2. Spent(used', c) = s /\ credit'[c].balance = x /\ credit'[c].granted = x + s
    BY <1>1, <1>2, <2>1
  <2> QED
    BY <2>2
<1>4. \A d \in 1..Len(credit) : d # c =>
         credit'[d].balance + Spent(used', d) <= credit'[d].granted
  BY <1>1 DEF GrantInv
<1> QED
  BY <1>1, <1>3, <1>4 DEF GrantInv

\* A new credit has not been spent.
LEMMA GrantJoins ==
    ASSUME TypeInv, GrantInv, NEW p, NEW n \in Nat, used' = used,
           credit' = Append(credit, [source |-> p, balance |-> n, granted |-> n])
    PROVE  GrantInv'
<1>1. PICK m \in Nat : m = Len(credit) /\ credit \in Seq(CreditRow)
                       /\ \A u \in 1..Len(used) : used[u].credit \in 1..m
  BY TypeFacts
<1>2. PICK r : r = [source |-> p, balance |-> n, granted |-> n] /\ r.balance = n /\ r.granted = n
  OBVIOUS
<1>3. /\ Len(credit') = m + 1 /\ credit'[m + 1] = r
      /\ \A c \in 1..m : credit'[c] = credit[c]
  BY <1>1, <1>2
<1>4. Spent(used, m + 1) = 0
  <2>1. LiveUses(used, m + 1) = {}
    BY <1>1 DEF LiveUses
  <2> QED
    BY <2>1, SumEmpty DEF Spent
<1>5. \A c \in 1..m : credit'[c].balance + Spent(used', c) <= credit'[c].granted
  BY <1>1, <1>3 DEF GrantInv
<1>6. credit'[m + 1].balance + Spent(used', m + 1) <= credit'[m + 1].granted
  BY <1>2, <1>3, <1>4
<1>7. \A c \in 1..Len(credit') : c \in 1..m \/ c = m + 1
  BY <1>3
<1> QED
  BY <1>5, <1>6, <1>7 DEF GrantInv

LEMMA GrantRecord ==
    ASSUME TypeInv, GrantInv, NEW f \in Targets, NEW useCredit, NEW kind, NEW status,
           Recorded(kind, status, f, useCredit)
    PROVE  GrantInv'
<1>1. kind \in PayKind /\ status \in PayStatus /\ RecordPayment(kind, status, f, useCredit)
  BY DEF Recorded, PayKind, PayStatus
<1>2. PICK q, old, n : /\ q = Len(pay) + 1 /\ old = CashBook(f, useCredit)
                       /\ n = Covered(f, useCredit)
  OBVIOUS
<1>3. Len(pay) < MaxPayments /\ old \in Books /\ Book' = SpendAll(old, n, q)
  BY <1>1, <1>2, RecordEffect
<1>4. q \in PaymentIds \cup {NoOne}
  BY <1>2, <1>3, TypeFacts, ConstantFacts
<1>5. DOMAIN n \subseteq Dues /\ \A a \in DOMAIN n : n[a] \in Nat
  BY <1>2, CashType, TargetsType
<1>6. old.used = used /\ old.credit = credit
  <2>1. PICK c : c = Cash(f, useCredit)
    OBVIOUS
  <2>2. DOMAIN c \subseteq Dues /\ \A a \in DOMAIN c : c[a] \in Nat
    BY <2>1, CashType, TargetsType
  <2> QED
    BY <1>2, <2>1, <2>2, CashRowsShape DEF CashBook
<1>7. Within(old)
  BY <1>6 DEF GrantInv, Within
<1>8. Within(SpendAll(old, n, q))
  BY <1>3, <1>4, <1>5, <1>7, SpendAllWithin
<1> QED
  BY <1>3, <1>8, GrantIs

LEMMA GrantSpend ==
    ASSUME TypeInv, GrantInv, NEW f \in Targets, KeepBook(SpendAll(Book, f, NoOne))
    PROVE  GrantInv'
<1>1. DOMAIN f \subseteq Dues /\ \A a \in DOMAIN f : f[a] \in Nat
  BY TargetsType
<1>2. Book \in Books /\ Within(Book)
  BY BookFacts, GrantIs
<1>3. PICK q \in PaymentIds \cup {NoOne} : q = NoOne
  OBVIOUS
<1>4. PICK old : old = Book
  OBVIOUS
<1>5. Within(SpendAll(old, f, q))
  BY <1>1, <1>2, <1>4, SpendAllWithin
<1>6. Book' = SpendAll(old, f, q)
  BY <1>3, <1>4, SpendEffect
<1> QED
  BY <1>5, <1>6, GrantIs

LEMMA GrantStep ==
    ASSUME TypeInv, GrantInv, Next
    PROVE  GrantInv'
<1>1. ASSUME used' = used, credit' = credit PROVE GrantInv'
  BY <1>1 DEF GrantInv
<1>2. ASSUME NEW p \in PaymentIds, UpdatePayment(p) PROVE GrantInv'
  BY <1>1, <1>2, UpdateEffect
<1>3. ASSUME NEW p, Verified(p) PROVE GrantInv'
  BY <1>1, <1>3 DEF Verified, VerifyPlain, GatewaySucceeded
<1>4. ASSUME NEW p, HasStatus(p, {"PENDING_VERIFICATION"}), VerifyAdvance(p) PROVE GrantInv'
  <2>1. used' = used
    BY <1>4, AdvanceEffect
  <2>2. \/ credit' = credit
        \/ \E n \in Nat : credit' = Append(credit, [source |-> p, balance |-> n, granted |-> n])
    BY <1>4, AdvanceEffect
  <2> QED
    BY <1>1, <2>1, <2>2, GrantJoins
<1>5. CASE SettleByCredit \/ ApplyManual
  <2>1. PICK f \in Targets : KeepBook(SpendAll(Book, f, NoOne))
    BY <1>5 DEF SettleByCredit, ApplyManual
  <2> QED
    BY <2>1, GrantSpend
<1>6. ASSUME NEW n \in CreditAmounts, IssueCredit(n) PROVE GrantInv'
  <2>1. PICK x \in Nat, p \in {Len(pay) + 1} : x = n /\ p = Len(pay) + 1
    BY ConstantFacts
  <2>2. used' = used /\ credit' = Append(credit, [source |-> p, balance |-> x, granted |-> x])
    BY <1>6, <2>1, IssueEffect
  <2> QED
    BY <2>2, GrantJoins
<1>7. CASE Untouched
  BY <1>1, <1>7 DEF Untouched
<1> QED
  BY <1>2, <1>3, <1>4, <1>5, <1>6, <1>7, GrantRecord, GrantUndo, GrantVoid, GrantAdjust, Cases

\* What is left of a credit and what its live applications hold never exceed
\* what it was granted, however often it is applied, given back, adjusted,
\* cleared and voided.
THEOREM GrantIsNotExceeded == Spec => []CreditWithinGrant
<1>1. Init => GrantInv
  <2> SUFFICES ASSUME Init PROVE GrantInv
    OBVIOUS
  <2>1. Len(credit) = 0
    BY DEF Init
  <2> QED
    BY <2>1 DEF GrantInv
<1>2. TypeInv /\ GrantInv /\ [Next]_vars => GrantInv'
  <2> SUFFICES ASSUME TypeInv, GrantInv, [Next]_vars PROVE GrantInv'
    OBVIOUS
  <2>1. CASE Next
    BY <2>1, GrantStep
  <2>2. CASE UNCHANGED vars
    BY <2>2 DEF vars, GrantInv
  <2> QED
    BY <2>1, <2>2
<1>3. GrantInv => CreditWithinGrant
  BY SpentIs DEF GrantInv, CreditWithinGrant
<1> QED
  BY <1>1, <1>2, <1>3, TypeAlways, PTL DEF Spec

-----------------------------------------------------------------------------
(* The stored paidAmount and the ledger.                                   *)

\* Payment p counts towards assessment a.
Counts(A, P, p, a) ==
    p \in 1..Len(P) /\ P[p].status = "VERIFIED" /\ ~P[p].deleted /\ A[<<p, a>>].live

\* The ledger of an assessment moves only with the rows that count towards it.
LEMMA LedgerStays ==
    ASSUME TypeInv, Len(pay') \in Nat, Len(pay') <= MaxPayments, NEW a \in Dues,
           \A p \in PaymentIds :
              /\ Counts(alloc', pay', p, a) <=> Counts(alloc, pay, p, a)
              /\ Counts(alloc, pay, p, a) => alloc'[<<p, a>>] = alloc[<<p, a>>]
    PROVE  LedgerOf(alloc', pay', a) = LedgerOf(alloc, pay, a)
<1>1. PICK m, y \in Nat : m = Len(pay) /\ y = Len(pay') /\ m <= MaxPayments /\ y <= MaxPayments
  BY TypeFacts
<1>2. PaymentIds = 1..MaxPayments /\ MaxPayments \in Nat
  BY ConstantFacts
<1>3. PICK T : T = {p \in 1..m : /\ pay[p].status = "VERIFIED" /\ ~pay[p].deleted
                                 /\ alloc[<<p, a>>].live}
  OBVIOUS
<1>4. PICK R : R = {p \in 1..y : /\ pay'[p].status = "VERIFIED" /\ ~pay'[p].deleted
                                 /\ alloc'[<<p, a>>].live}
  OBVIOUS
<1>5. T \subseteq PaymentIds /\ R \subseteq PaymentIds /\ IsFiniteSet(T)
  <2>1. IsFiniteSet(1..m)
    BY FS_Interval
  <2>2. IsFiniteSet(T)
    BY <1>3, <2>1, FS_Subset
  <2>3. T \subseteq PaymentIds /\ R \subseteq PaymentIds
    BY <1>1, <1>2, <1>3, <1>4
  <2> QED
    BY <2>2, <2>3
<1>6. \A p \in PaymentIds : (p \in T <=> Counts(alloc, pay, p, a))
                            /\ (p \in R <=> Counts(alloc', pay', p, a))
  BY <1>1, <1>3, <1>4 DEF Counts
<1>7. R = T /\ \A p \in T : alloc'[<<p, a>>] = alloc[<<p, a>>]
  BY <1>5, <1>6
<1>8. PICK f, g : /\ f = [p \in PaymentIds |-> alloc[<<p, a>>].amount]
                  /\ g = [p \in PaymentIds |-> alloc'[<<p, a>>].amount]
  OBVIOUS
<1>9. \A p \in T : f[p] \in Nat /\ g[p] = f[p]
  <2>1. \A p \in T : alloc[<<p, a>>] \in Row
    BY <1>5, TypeFacts
  <2> QED
    BY <1>5, <1>7, <1>8, <2>1 DEF Row
<1>10. SumFunctionOnSet(g, T) = SumFunctionOnSet(f, T)
  BY <1>5, <1>9, SumCongruence
<1>11. LedgerOf(alloc, pay, a) = SumFunctionOnSet(f, T)
  BY <1>1, <1>3, <1>8, Zenon DEF LedgerOf
<1>12. LedgerOf(alloc', pay', a) = SumFunctionOnSet(g, R)
  BY <1>1, <1>4, <1>8, Zenon DEF LedgerOf
<1> QED
  BY <1>7, <1>10, <1>11, <1>12

\* No two credits share a source, and a row of a source that counts is there
\* for an application of its credit that counts.
Backing(b) ==
    /\ \A c, d \in 1..Len(b.credit) : b.credit[c].source = b.credit[d].source => c = d
    /\ \A k \in PaymentIds \X Dues, c \in 1..Len(b.credit) :
          b.alloc[k].live /\ b.credit[c].source = k[1] =>
             \E u \in 1..Len(b.used) :
                b.used[u].credit = c /\ b.used[u].due = k[2] /\ b.used[u].live

LEMMA SpendBacks ==
    ASSUME NEW b \in Books, Backing(b), NEW a \in Dues, NEW n \in Nat,
           NEW payer \in PaymentIds \cup {NoOne}
    PROVE  Backing(Spend(b, a, n, payer))
<1>1. PICK take, new : OpenedUp(b, a, n, payer, take, new)
  BY SpendShape
<1>2. PICK m \in Nat : m = Len(b.credit)
  BY DEF Books
<1>3. PICK C : C = [c \in 1..m |-> [b.credit[c] EXCEPT !.balance = @ - take[c]]]
  OBVIOUS
<1>4. PICK A : A = [k \in PaymentIds \X Dues |->
                      IF k[2] = a THEN TopUp(b.alloc[k], Backed(b, take, k[1])) ELSE b.alloc[k]]
  OBVIOUS
<1>5. PICK W : W = b.used \o new
  OBVIOUS
<1>6. PICK r : r = Spend(b, a, n, payer)
  OBVIOUS
<1>7. r.credit = C /\ r.used = W /\ r.alloc = A
  BY <1>1, <1>2, <1>3, <1>4, <1>5, <1>6, SMTT(30) DEF OpenedUp
<1>8. take \in [1..m -> Nat] /\ Records(new, take, m, a, payer)
  BY <1>1, <1>2 DEF OpenedUp, Takes
<1>9. PICK x, y \in Nat : x = Len(b.used) /\ y = Len(new)
  BY <1>8 DEF Books, Records
<1>10. /\ Len(W) = x + y /\ \A u \in 1..x : W[u] = b.used[u]
       /\ \A i \in 1..y : W[x + i] = new[i]
  BY <1>5, <1>8, <1>9 DEF Books, Records
<1>11. Len(C) = m /\ \A c \in 1..m : C[c].source = b.credit[c].source
  <2>1. Len(C) = m
    BY <1>3
  <2>2. ASSUME NEW c \in 1..m PROVE C[c].source = b.credit[c].source
    <3>1. b.credit[c] \in CreditRow
      BY <1>2 DEF Books
    <3>2. C[c] = [b.credit[c] EXCEPT !.balance = b.credit[c].balance - take[c]]
      BY <1>3
    <3> QED
      BY <3>1, <3>2 DEF CreditRow
  <2> QED
    BY <2>1, <2>2
<1>12. \A c, d \in 1..m : C[c].source = C[d].source => c = d
  BY <1>2, <1>11 DEF Backing
<1>13. ASSUME NEW k \in PaymentIds \X Dues, NEW c \in 1..m, A[k].live, C[c].source = k[1]
       PROVE  \E u \in 1..Len(W) : W[u].credit = c /\ W[u].due = k[2] /\ W[u].live
  <2>1. b.credit[c].source = k[1]
    BY <1>11, <1>13
  <2>2. ASSUME b.alloc[k].live
        PROVE  \E u \in 1..Len(W) : W[u].credit = c /\ W[u].due = k[2] /\ W[u].live
    <3>1. PICK u \in 1..x : b.used[u].credit = c /\ b.used[u].due = k[2] /\ b.used[u].live
      BY <1>2, <1>9, <2>1, <2>2, SMTT(30) DEF Backing
    <3>2. u \in 1..Len(W) /\ W[u] = b.used[u]
      BY <1>10
    <3> QED
      BY <3>1, <3>2
  <2>3. CASE k[2] # a
    <3>1. A[k] = b.alloc[k]
      BY <1>4, <2>3
    <3> QED
      BY <1>13, <2>2, <3>1
  <2>4. CASE k[2] = a
    <3>1. PICK t \in Nat : t = Backed(b, take, k[1])
      BY <1>1 DEF OpenedUp
    <3>2. A[k] = TopUp(b.alloc[k], t)
      BY <1>4, <2>4, <3>1
    <3>3. b.alloc[k] \in Row /\ (b.alloc[k].live => b.alloc[k].amount > 0)
      BY DEF Books
    <3>4. CASE t = 0
      <4>1. A[k] = b.alloc[k]
        BY <3>2, <3>3, <3>4, TopUpType
      <4> QED
        BY <1>13, <2>2, <4>1
    <3>5. CASE t # 0
      <4>1. PICK T : T = {d \in 1..m : b.credit[d].source = k[1]}
        OBVIOUS
      <4>2. t = SumFunctionOnSet(take, T)
        BY <1>2, <3>1, <4>1 DEF Backed
      <4>3. IsFiniteSet(T)
        <5>1. IsFiniteSet(1..m)
          BY FS_Interval
        <5> QED
          BY <4>1, <5>1, FS_Subset
      <4>4. PICK d \in T : take[d] # 0
        BY <3>5, <4>2, <4>3, SumZero
      <4>5. d = c /\ take[c] > 0
        <5>1. d = c
          BY <1>2, <2>1, <4>1 DEF Backing
        <5> QED
          BY <1>8, <4>4, <5>1
      <4>6. PICK i \in 1..y : new[i].credit = c /\ new[i].due = a /\ new[i].live
        BY <1>8, <1>9, <4>5 DEF Records
      <4>7. x + i \in 1..Len(W) /\ W[x + i] = new[i]
        BY <1>10
      <4> QED
        BY <2>4, <4>6, <4>7
    <3> QED
      BY <3>4, <3>5
  <2> QED
    BY <2>3, <2>4
<1>14. Backing(r)
  BY <1>7, <1>11, <1>12, <1>13 DEF Backing
<1> QED
  BY <1>6, <1>14

\* Spending nothing moves no row and records no application.
LEMMA SpendNothing ==
    ASSUME NEW b \in Books, NEW a \in Dues, NEW n \in Nat, n = 0,
           NEW payer \in PaymentIds \cup {NoOne}
    PROVE  Spend(b, a, n, payer).alloc = b.alloc /\ Spend(b, a, n, payer).used = b.used
<1>1. PICK take, new : OpenedUp(b, a, n, payer, take, new)
  BY SpendShape
<1>2. PICK m \in Nat : m = Len(b.credit)
  BY DEF Books
<1>3. PICK cap : cap = [c \in 1..m |-> b.credit[c].balance]
  OBVIOUS
<1>4. IsFiniteSet(1..m) /\ DOMAIN cap = 1..m /\ \A c \in 1..m : cap[c] \in Nat
  <2>1. \A c \in 1..m : b.credit[c] \in CreditRow
    BY <1>2 DEF Books
  <2>2. \A c \in 1..m : cap[c] \in Nat
    BY <1>3, <2>1 DEF CreditRow
  <2> QED
    BY <1>3, <2>2, FS_Interval
<1>5. take = Fifo(cap, 0)
  BY <1>1, <1>2, <1>3 DEF OpenedUp
<1>6. \A c \in 1..m : take[c] = 0
  BY <1>4, <1>5, FifoNothing
<1>7. Records(new, take, m, a, payer)
  BY <1>1, <1>2 DEF OpenedUp
<1>8. new \in Seq(UseRow) /\ Len(new) = 0
  <2>1. PICK y \in Nat : y = Len(new)
    BY <1>7 DEF Records
  <2>2. CASE y > 0
    <3>1. 1 \in 1..Len(new)
      BY <2>1, <2>2
    <3> QED
      BY <1>6, <1>7, <3>1 DEF Records
  <2> QED
    BY <1>7, <2>1, <2>2 DEF Records
<1>9. b.used \o new = b.used
  BY <1>8 DEF Books
<1>10. PICK A : A = [k \in PaymentIds \X Dues |->
                       IF k[2] = a THEN TopUp(b.alloc[k], Backed(b, take, k[1])) ELSE b.alloc[k]]
  OBVIOUS
<1>11. ASSUME NEW k \in PaymentIds \X Dues PROVE A[k] = b.alloc[k]
  <2>1. PICK T : T = {d \in 1..m : b.credit[d].source = k[1]}
    OBVIOUS
  <2>2. IsFiniteSet(T) /\ \A d \in T : take[d] = 0
    BY <1>4, <1>6, <2>1, FS_Subset
  <2>3. SumFunctionOnSet(take, T) = 0
    BY <2>2, SumZero
  <2>4. Backed(b, take, k[1]) = 0
    BY <1>2, <2>1, <2>3 DEF Backed
  <2>5. b.alloc[k] \in Row /\ (b.alloc[k].live => b.alloc[k].amount > 0)
    BY DEF Books
  <2>6. TopUp(b.alloc[k], 0) = b.alloc[k]
    BY <2>5, TopUpType
  <2> QED
    BY <1>10, <2>4, <2>6
<1>12. A = b.alloc
  BY <1>10, <1>11 DEF Books
<1>13. PICK r : r = Spend(b, a, n, payer)
  OBVIOUS
<1>14. r.alloc = A /\ r.used = b.used \o new
  BY <1>1, <1>10, <1>13 DEF OpenedUp
<1> QED
  BY <1>9, <1>12, <1>13, <1>14

LEMMA SpendAllNothing ==
    ASSUME NEW old \in Books, NEW n, DOMAIN n \subseteq Dues, \A a \in DOMAIN n : n[a] = 0,
           NEW payer \in PaymentIds \cup {NoOne}
    PROVE  SpendAll(old, n, payer).alloc = old.alloc /\ SpendAll(old, n, payer).used = old.used
<1> DEFINE V == {b \in Books : b.alloc = old.alloc /\ b.used = old.used}
<1>1. old \in V
  OBVIOUS
<1>2. ASSUME NEW b \in V, NEW a \in DOMAIN n PROVE Spend(b, a, n[a], payer) \in V
  <2>1. PICK z \in Nat : z = n[a] /\ z = 0 /\ a \in Dues
    OBVIOUS
  <2>2. b \in Books /\ b.alloc = old.alloc /\ b.used = old.used
    OBVIOUS
  <2>3. Spend(b, a, z, payer).alloc = b.alloc /\ Spend(b, a, z, payer).used = b.used
    BY <2>1, <2>2, SpendNothing
  <2>4. Spend(b, a, z, payer) \in Books
    <3>1. SpentFrom(b, b, {a}, payer)
      <4>1. Len(b.used) \in Nat
        BY <2>2 DEF Books
      <4>2. (Len(b.used) + 1)..Len(b.used) = {}
        BY <4>1
      <4> QED
        BY <2>2, <4>1, <4>2 DEF SpentFrom
    <3>2. {a} \in SUBSET Dues
      BY <2>1
    <3>3. SpentFrom(b, Spend(b, a, z, payer), {a}, payer)
      BY <2>1, <2>2, <3>1, <3>2, SpendIsSpending
    <3> QED
      BY <3>3 DEF SpentFrom
  <2> QED
    BY <2>1, <2>2, <2>3, <2>4
<1>3. DOMAIN n \subseteq Int /\ IsFiniteSet(DOMAIN n)
  <2>1. Dues \subseteq Int /\ \A T \in SUBSET Dues : IsFiniteSet(T)
    BY DuesFacts
  <2> QED
    BY <2>1
<1>4. SpendAll(old, n, payer) \in V
  <2> HIDE DEF V
  <2> QED
    BY <1>1, <1>2, <1>3, SpendAllKeeps
<1> QED
  BY <1>4

LEMMA SpendAllBacks ==
    ASSUME NEW old \in Books, Backing(old), NEW n, DOMAIN n \subseteq Dues,
           \A a \in DOMAIN n : n[a] \in Nat, NEW payer \in PaymentIds \cup {NoOne}
    PROVE  Backing(SpendAll(old, n, payer))
<1> DEFINE V == {b \in Books : Backing(b) /\ SpentFrom(old, b, DOMAIN n, payer)}
<1>1. old \in V
  <2>1. Len(old.used) \in Nat
    BY DEF Books
  <2>2. (Len(old.used) + 1)..Len(old.used) = {}
    BY <2>1
  <2> QED
    BY <2>1, <2>2 DEF SpentFrom
<1>2. ASSUME NEW b \in V, NEW a \in DOMAIN n PROVE Spend(b, a, n[a], payer) \in V
  <2>1. n[a] \in Nat /\ a \in Dues /\ SpentFrom(old, b, DOMAIN n, payer) /\ Backing(b) /\ b \in Books
    OBVIOUS
  <2>2. SpentFrom(old, Spend(b, a, n[a], payer), DOMAIN n, payer)
    BY <2>1, SpendIsSpending
  <2>3. Backing(Spend(b, a, n[a], payer))
    BY <2>1, SpendBacks
  <2> QED
    BY <2>2, <2>3 DEF SpentFrom
<1>3. DOMAIN n \subseteq Int /\ IsFiniteSet(DOMAIN n)
  <2>1. Dues \subseteq Int /\ \A T \in SUBSET Dues : IsFiniteSet(T)
    BY DuesFacts
  <2> QED
    BY <2>1
<1>4. SpendAll(old, n, payer) \in V
  <2> HIDE DEF V
  <2> QED
    BY <1>1, <1>2, <1>3, SpendAllKeeps
<1> QED
  BY <1>4

\* Without advance payments every credit was issued with a payment of its own,
\* which waits for no one and has no rows but those its credit gave it.
BackedInv ==
    /\ UnbornInv /\ SourceInv /\ Backing(Book)
    /\ \A p \in 1..Len(pay) :
          /\ pay[p].kind # "ADVANCE"
          /\ pay[p].kind = "CREDIT_ISSUE" => pay[p].status # "PENDING_VERIFICATION"

\* Every stored paidAmount is what the ledger says.
PaidInv == \A a \in Dues : due[a].paid = LedgerOf(alloc, pay, a)

LEMMA BackedFacts ==
    ASSUME TypeInv, BackedInv
    PROVE  /\ \A c \in 1..Len(credit) : /\ credit[c].source \in 1..Len(pay)
                                        /\ pay[credit[c].source].kind = "CREDIT_ISSUE"
           /\ \A c, d \in 1..Len(credit) : credit[c].source = credit[d].source => c = d
           /\ \A k \in PaymentIds \X Dues, c \in 1..Len(credit) :
                 alloc[k].live /\ credit[c].source = k[1] =>
                    \E u \in 1..Len(used) :
                       used[u].credit = c /\ used[u].due = k[2] /\ used[u].live
<1>1. \A c \in 1..Len(credit) : credit[c].source \in 1..Len(pay)
  BY TypeFacts
<1>2. Book.alloc = alloc /\ Book.credit = credit /\ Book.used = used
  BY DEF Book
<1> QED
  BY <1>1, <1>2 DEF BackedInv, SourceInv, Backing

LEMMA LiveRowIsBacked ==
    ASSUME TypeInv, BackedInv, NEW k \in PaymentIds \X Dues, NEW c \in 1..Len(credit),
           alloc[k].live, credit[c].source = k[1]
    PROVE  \E u \in 1..Len(used) : used[u].credit = c /\ used[u].due = k[2] /\ used[u].live
  BY BackedFacts

\* No row of an issued credit comes to life and none outlives its application.
LEMMA BackedFrame ==
    ASSUME TypeInv, BackedInv, Len(pay') = Len(pay), Len(credit') = Len(credit),
           Len(used') = Len(used),
           \A q \in 1..Len(pay) :
              /\ pay'[q].kind = pay[q].kind
              /\ pay'[q].status = "PENDING_VERIFICATION" => pay[q].status = "PENDING_VERIFICATION",
           \A c \in 1..Len(credit) : credit'[c].source = credit[c].source,
           \A u \in 1..Len(used) :
              /\ used'[u].credit = used[u].credit /\ used'[u].due = used[u].due
              /\ used[u].live => used'[u].live \/ ~(alloc'[RowOf(u)].live),
           \A k \in PaymentIds \X Dues : alloc'[k].live =>
              \/ alloc[k].live
              \/ k[1] \in 1..Len(pay) /\ pay[k[1]].kind # "CREDIT_ISSUE"
    PROVE  BackedInv'
<1>1. UnbornInv'
  <2> SUFFICES ASSUME NEW k \in PaymentIds \X Dues, k[1] > Len(pay), alloc'[k].live PROVE FALSE
    BY DEF UnbornInv
  <2>1. k[1] \notin 1..Len(pay)
    BY TypeFacts
  <2> QED
    BY <2>1 DEF BackedInv, UnbornInv
<1>2. SourceInv'
  BY BackedFacts DEF SourceInv
<1>3. Backing(Book')
  <2>1. \A c, d \in 1..Len(credit') : credit'[c].source = credit'[d].source => c = d
    BY BackedFacts
  <2>2. ASSUME NEW k \in PaymentIds \X Dues, NEW c \in 1..Len(credit'),
               alloc'[k].live, credit'[c].source = k[1]
        PROVE  \E u \in 1..Len(used') :
                  used'[u].credit = c /\ used'[u].due = k[2] /\ used'[u].live
    <3>1. credit[c].source = k[1] /\ pay[k[1]].kind = "CREDIT_ISSUE"
      BY <2>2, BackedFacts
    <3>2. alloc[k].live
      BY <2>2, <3>1
    <3>3. PICK u \in 1..Len(used) : used[u].credit = c /\ used[u].due = k[2] /\ used[u].live
      BY <2>2, <3>1, <3>2, BackedFacts
    <3>4. RowOf(u) = k
      BY <3>1, <3>3 DEF RowOf
    <3> QED
      BY <2>2, <3>3, <3>4
  <2> QED
    BY <2>1, <2>2, NextBookFacts DEF Backing
<1>4. \A p \in 1..Len(pay') :
         /\ pay'[p].kind # "ADVANCE"
         /\ pay'[p].kind = "CREDIT_ISSUE" => pay'[p].status # "PENDING_VERIFICATION"
  BY DEF BackedInv
<1> QED
  BY <1>1, <1>2, <1>3, <1>4 DEF BackedInv

\* Assessments that are re-read match; the others match if the ledger has not
\* moved for them.
LEMMA PaidSynced ==
    ASSUME TypeInv, PaidInv, Book' \in Books, pay' \in Seq(PayRow), Len(pay') <= MaxPayments,
           NEW S, SyncAssessments(S),
           \A a \in Dues \ S : LedgerOf(alloc', pay', a) = LedgerOf(alloc, pay, a)
    PROVE  PaidInv'
<1>1. alloc' \in [PaymentIds \X Dues -> Row]
  BY NextBookFacts DEF Books
<1>2. \A a \in Dues : (a \in S => Synced(a)) /\ (a \notin S => due'[a] = due[a])
  BY <1>1, SyncEffect
<1>3. ASSUME NEW a \in Dues PROVE due'[a].paid = LedgerOf(alloc', pay', a)
  <2>1. CASE a \in S
    <3>1. PICK st, v : v = LedgerPaid(a)' /\ due'[a] = [status |-> st, paid |-> v]
      BY <1>2, <2>1, Zenon DEF Synced
    <3>2. due'[a].paid = v
      BY <3>1
    <3> QED
      BY <3>1, <3>2, LedgerPaidIs, Zenon
  <2>2. CASE a \notin S
    BY <1>2, <2>2 DEF PaidInv
  <2> QED
    BY <2>1, <2>2
<1> QED
  BY <1>3, Zenon DEF PaidInv

LEMMA PaidKept ==
    ASSUME PaidInv, \A a \in Dues : /\ due'[a].paid = due[a].paid
                                    /\ LedgerOf(alloc', pay', a) = LedgerOf(alloc, pay, a)
    PROVE  PaidInv'
<1>1. \A a \in Dues : due'[a].paid = LedgerOf(alloc', pay', a)
  BY DEF PaidInv
<1> QED
  BY <1>1, Zenon DEF PaidInv

\* The typing of the next state, for the lemmas above.
LEMMA NextFacts ==
    ASSUME TypeInv, Next
    PROVE  /\ Book' \in Books /\ pay' \in Seq(PayRow)
           /\ Len(pay') \in Nat /\ Len(pay') <= MaxPayments
<1>1. TypeInv'
  BY EveryStep DEF StepOK
<1> QED
  BY <1>1 DEF TypeInv

LEMMA NothingCovered ==
    ASSUME TypeInv, ~ApplyCredit, NEW f \in Targets, NEW useCredit,
           useCredit = FALSE \/ useCredit = ApplyCredit
    PROVE  \A a \in DOMAIN Covered(f, useCredit) : Covered(f, useCredit)[a] = 0
<1>1. CreditToUse(f, useCredit) = 0
  BY DEF CreditToUse
<1>2. DOMAIN f \subseteq Dues /\ \A a \in DOMAIN f : f[a] \in Nat
  BY TargetsType
<1>3. DOMAIN f \subseteq Int /\ IsFiniteSet(DOMAIN f)
  <2>1. Dues \subseteq Int /\ \A T \in SUBSET Dues : IsFiniteSet(T)
    BY DuesFacts
  <2> QED
    BY <1>2, <2>1
<1>4. \A a \in DOMAIN f : Fifo(f, 0)[a] = 0
  BY <1>2, <1>3, FifoNothing
<1>5. DOMAIN Covered(f, useCredit) = DOMAIN f
  BY CashType
<1> QED
  BY <1>1, <1>4, <1>5 DEF Covered

\* A payment that is recorded is not VERIFIED yet and, with no credit to
\* apply, comes with its cash rows and nothing else.
LEMMA RecordedPlainly ==
    ASSUME TypeInv, ~ApplyCredit, NEW f \in Targets, NEW useCredit, NEW kind, NEW status,
           Recorded(kind, status, f, useCredit)
    PROVE  /\ Len(pay') = Len(pay) + 1 /\ \A q \in 1..Len(pay) : pay'[q] = pay[q]
           /\ pay'[Len(pay) + 1].kind = kind /\ pay'[Len(pay) + 1].status = status
           /\ due' = due /\ used' = used /\ Len(credit') = Len(credit)
           /\ \A c \in 1..Len(credit) : credit'[c].source = credit[c].source
           /\ \A k \in PaymentIds \X Dues : k[1] # Len(pay) + 1 => alloc'[k] = alloc[k]
<1>1. kind \in PayKind /\ status \in PayStatus /\ RecordPayment(kind, status, f, useCredit)
      /\ (useCredit = FALSE \/ useCredit = ApplyCredit)
  BY DEF Recorded, PayKind, PayStatus
<1>2. PICK q, old, n : /\ q = Len(pay) + 1 /\ old = CashBook(f, useCredit)
                       /\ n = Covered(f, useCredit)
  OBVIOUS
<1>3. PICK amount \in Nat : pay' = Append(pay, NewRow(kind, amount, status))
  BY <1>1, RecordEffect
<1>4. /\ Len(pay) < MaxPayments /\ old \in Books /\ Book' = SpendAll(old, n, q) /\ due' = due
      /\ SpentFrom(old, Book', DOMAIN f, q)
  BY <1>1, <1>2, RecordEffect
<1>5. /\ Len(pay') = Len(pay) + 1 /\ \A r \in 1..Len(pay) : pay'[r] = pay[r]
      /\ pay'[Len(pay) + 1] = NewRow(kind, amount, status)
  BY <1>1, <1>3, <1>4, AppendEffect
<1>6. q \in PaymentIds \cup {NoOne}
  BY <1>2, <1>4, TypeFacts, ConstantFacts
<1>7. DOMAIN n \subseteq Dues /\ \A a \in DOMAIN n : n[a] = 0
  <2>1. \A a \in DOMAIN n : n[a] = 0
    BY <1>1, <1>2, NothingCovered
  <2>2. DOMAIN n = DOMAIN f
    BY <1>2, CashType
  <2> QED
    BY <2>1, <2>2, TargetsType
<1>8. alloc' = old.alloc /\ used' = old.used
  <2>1. SpendAll(old, n, q).alloc = old.alloc /\ SpendAll(old, n, q).used = old.used
    BY <1>4, <1>6, <1>7, SpendAllNothing
  <2> QED
    BY <1>4, <2>1, NextBookFacts
<1>9. /\ old.used = used /\ old.credit = credit
      /\ \A k \in PaymentIds \X Dues : k[1] # q => old.alloc[k] = alloc[k]
  <2>1. PICK c : c = Cash(f, useCredit)
    OBVIOUS
  <2>2. DOMAIN c \subseteq Dues /\ \A a \in DOMAIN c : c[a] \in Nat
    BY <2>1, CashType, TargetsType
  <2> QED
    BY <1>2, <2>1, <2>2, CashRowsShape DEF CashBook
<1>10. Len(credit') = Len(credit) /\ \A c \in 1..Len(credit) : credit'[c].source = credit[c].source
  BY <1>4, <1>9, NextBookFacts DEF SpentFrom
<1>11. pay'[Len(pay) + 1].kind = kind /\ pay'[Len(pay) + 1].status = status
  BY <1>5 DEF NewRow
<1> QED
  BY <1>2, <1>4, <1>5, <1>8, <1>9, <1>10, <1>11

LEMMA MatchRecord ==
    ASSUME TypeInv, BackedInv, PaidInv, ~ApplyCredit, ~Advances, Next, NEW f \in Targets,
           NEW useCredit, NEW kind, NEW status, Recorded(kind, status, f, useCredit)
    PROVE  BackedInv' /\ PaidInv'
<1>1. PICK m \in Nat : m = Len(pay)
  BY TypeFacts
<1>2. /\ Len(pay') = m + 1 /\ \A q \in 1..m : pay'[q] = pay[q]
      /\ pay'[m + 1].kind = kind /\ pay'[m + 1].status = status
      /\ due' = due /\ used' = used /\ Len(credit') = Len(credit)
      /\ \A c \in 1..Len(credit) : credit'[c].source = credit[c].source
      /\ \A k \in PaymentIds \X Dues : k[1] # m + 1 => alloc'[k] = alloc[k]
  BY <1>1, RecordedPlainly
<1>3. kind \notin {"ADVANCE", "CREDIT_ISSUE"} /\ status # "VERIFIED"
  BY DEF Recorded
<1>4. \A q \in 1..Len(pay') : q \in 1..m \/ q = m + 1
  BY <1>2
<1>5. UnbornInv'
  <2> SUFFICES ASSUME NEW k \in PaymentIds \X Dues, k[1] > m + 1 PROVE ~(alloc'[k].live)
    BY <1>2 DEF UnbornInv
  <2>1. k[1] \in Nat /\ k[1] > m /\ k[1] # m + 1
    BY ConstantFacts
  <2> QED
    BY <1>1, <1>2, <2>1 DEF BackedInv, UnbornInv
<1>6. SourceInv'
  BY <1>1, <1>2, BackedFacts DEF SourceInv
<1>7. Backing(Book')
  <2>1. \A c, d \in 1..Len(credit') : credit'[c].source = credit'[d].source => c = d
    BY <1>2, BackedFacts
  <2>2. ASSUME NEW k \in PaymentIds \X Dues, NEW c \in 1..Len(credit'),
               alloc'[k].live, credit'[c].source = k[1]
        PROVE  \E u \in 1..Len(used') :
                  used'[u].credit = c /\ used'[u].due = k[2] /\ used'[u].live
    <3>1. credit[c].source = k[1] /\ k[1] \in 1..m
      BY <1>1, <1>2, <2>2, BackedFacts
    <3>2. alloc'[k] = alloc[k]
      BY <1>2, <3>1
    <3>3. alloc[k].live /\ c \in 1..Len(credit)
      BY <1>2, <2>2, <3>2
    <3>4. PICK u \in 1..Len(used) : used[u].credit = c /\ used[u].due = k[2] /\ used[u].live
      BY <3>1, <3>3, LiveRowIsBacked
    <3> QED
      BY <1>2, <3>4
  <2> QED
    BY <2>1, <2>2, NextBookFacts DEF Backing
<1>8. BackedInv'
  <2>1. \A p \in 1..Len(pay') :
           /\ pay'[p].kind # "ADVANCE"
           /\ pay'[p].kind = "CREDIT_ISSUE" => pay'[p].status # "PENDING_VERIFICATION"
    BY <1>1, <1>2, <1>3, <1>4 DEF BackedInv
  <2> QED
    BY <1>5, <1>6, <1>7, <2>1 DEF BackedInv
<1>9. ASSUME NEW a \in Dues PROVE LedgerOf(alloc', pay', a) = LedgerOf(alloc, pay, a)
  <2>1. ASSUME NEW p \in PaymentIds
        PROVE  /\ Counts(alloc', pay', p, a) <=> Counts(alloc, pay, p, a)
               /\ Counts(alloc, pay, p, a) => alloc'[<<p, a>>] = alloc[<<p, a>>]
    <3>1. CASE p = m + 1
      BY <1>1, <1>2, <1>3, <3>1 DEF Counts
    <3>2. CASE p # m + 1
      <4>1. PICK k \in PaymentIds \X Dues : k = <<p, a>> /\ k[1] = p
        <5>1. <<p, a>> \in PaymentIds \X Dues /\ <<p, a>>[1] = p
          OBVIOUS
        <5> QED
          BY <5>1, Zenon
      <4>2. alloc'[<<p, a>>] = alloc[<<p, a>>]
        BY <1>2, <3>2, <4>1
      <4>3. p \in 1..Len(pay') <=> p \in 1..Len(pay)
        BY <1>1, <1>2, <3>2
      <4> QED
        BY <1>1, <1>2, <4>2, <4>3 DEF Counts
    <3> QED
      BY <3>1, <3>2
  <2> QED
    BY <2>1, NextFacts, LedgerStays
<1>10. PaidInv'
  BY <1>2, <1>9, PaidKept
<1> QED
  BY <1>8, <1>10

LEMMA MatchApply ==
    ASSUME TypeInv, BackedInv, PaidInv, Next, ApplyManual
    PROVE  BackedInv' /\ PaidInv'
<1>1. PICK f \in Targets : /\ KeepBook(SpendAll(Book, f, NoOne)) /\ pay' = pay
                           /\ SyncAssessments(DOMAIN f)
  BY DEF ApplyManual
<1>2. DOMAIN f \subseteq Dues /\ \A a \in DOMAIN f : f[a] \in Nat
  BY TargetsType
<1>3. /\ SpentFrom(Book, Book', DOMAIN f, NoOne) /\ Book \in Books
      /\ Book.credit = credit /\ Book.alloc = alloc
  BY <1>1, SpendEffect, BookFacts
<1>4. /\ Len(credit') = Len(credit)
      /\ \A c \in 1..Len(credit) : credit'[c].source = credit[c].source
      /\ \A k \in PaymentIds \X Dues :
            \/ alloc'[k] = alloc[k]
            \/ k[2] \in DOMAIN f /\ \E c \in 1..Len(credit) : credit[c].source = k[1]
  BY <1>3, NextBookFacts DEF SpentFrom
<1>5. Backing(Book')
  <2>1. PICK q \in PaymentIds \cup {NoOne}, old \in {Book} : q = NoOne /\ old = Book
    OBVIOUS
  <2>2. old \in Books /\ Backing(old)
    BY <1>3, <2>1 DEF BackedInv
  <2>3. Backing(SpendAll(old, f, q))
    BY <1>2, <2>2, SpendAllBacks
  <2>4. Book' = SpendAll(old, f, q)
    BY <1>1, <2>1, SpendEffect
  <2> QED
    BY <2>3, <2>4
<1>6. UnbornInv'
  <2> SUFFICES ASSUME NEW k \in PaymentIds \X Dues, k[1] > Len(pay) PROVE ~(alloc'[k].live)
    BY <1>1 DEF UnbornInv
  <2>1. k[1] \notin 1..Len(pay)
    BY TypeFacts
  <2>2. alloc'[k] = alloc[k]
    BY <1>4, <2>1, BackedFacts
  <2> QED
    BY <2>2 DEF BackedInv, UnbornInv
<1>7. SourceInv'
  BY <1>1, <1>4, BackedFacts DEF SourceInv
<1>8. BackedInv'
  <2>1. \A p \in 1..Len(pay') :
           /\ pay'[p].kind # "ADVANCE"
           /\ pay'[p].kind = "CREDIT_ISSUE" => pay'[p].status # "PENDING_VERIFICATION"
    BY <1>1 DEF BackedInv
  <2> QED
    BY <1>5, <1>6, <1>7, <2>1 DEF BackedInv
<1>9. ASSUME NEW a \in Dues \ DOMAIN f
      PROVE  LedgerOf(alloc', pay', a) = LedgerOf(alloc, pay, a)
  <2>1. ASSUME NEW p \in PaymentIds
        PROVE  /\ Counts(alloc', pay', p, a) <=> Counts(alloc, pay, p, a)
               /\ Counts(alloc, pay, p, a) => alloc'[<<p, a>>] = alloc[<<p, a>>]
    <3>1. PICK k \in PaymentIds \X Dues : k = <<p, a>> /\ k[2] = a
      <4>1. <<p, a>> \in PaymentIds \X Dues /\ <<p, a>>[2] = a
        OBVIOUS
      <4> QED
        BY <4>1, Zenon
    <3>2. alloc'[<<p, a>>] = alloc[<<p, a>>]
      BY <1>4, <3>1
    <3> QED
      BY <1>1, <3>2 DEF Counts
  <2> QED
    BY <2>1, NextFacts, LedgerStays
<1>10. PaidInv'
  BY <1>1, <1>9, NextFacts, PaidSynced
<1> QED
  BY <1>8, <1>10

LEMMA MatchUpdate ==
    ASSUME TypeInv, BackedInv, PaidInv, Next, NEW p \in PaymentIds, UpdatePayment(p)
    PROVE  BackedInv' /\ PaidInv'
<1>1. /\ PayChanged(p) /\ p \in 1..Len(pay)
      /\ pay[p].status = "PENDING_VERIFICATION" /\ pay'[p].status = "PENDING_VERIFICATION"
      /\ \A k \in PaymentIds \X Dues : k[1] # p => alloc'[k] = alloc[k]
      /\ due' = due /\ credit' = credit /\ used' = used
  BY UpdateEffect
<1>2. /\ Len(pay') = Len(pay) /\ \A q \in 1..Len(pay) : q # p => pay'[q] = pay[q]
      /\ \A q \in 1..Len(pay) : pay'[q].kind = pay[q].kind
  BY <1>1 DEF PayChanged
<1>3. pay[p].kind # "CREDIT_ISSUE"
  BY <1>1 DEF BackedInv
<1>4. BackedInv'
  <2>1. \A q \in 1..Len(pay) :
           /\ pay'[q].kind = pay[q].kind
           /\ pay'[q].status = "PENDING_VERIFICATION" => pay[q].status = "PENDING_VERIFICATION"
    BY <1>1, <1>2
  <2>2. \A k \in PaymentIds \X Dues : alloc'[k].live =>
           alloc[k].live \/ (k[1] \in 1..Len(pay) /\ pay[k[1]].kind # "CREDIT_ISSUE")
    BY <1>1, <1>3
  <2> QED
    BY <1>1, <1>2, <2>1, <2>2, BackedFrame
<1>5. ASSUME NEW a \in Dues PROVE LedgerOf(alloc', pay', a) = LedgerOf(alloc, pay, a)
  <2>1. ASSUME NEW q \in PaymentIds
        PROVE  /\ Counts(alloc', pay', q, a) <=> Counts(alloc, pay, q, a)
               /\ Counts(alloc, pay, q, a) => alloc'[<<q, a>>] = alloc[<<q, a>>]
    <3>1. CASE q = p
      BY <1>1, <3>1 DEF Counts
    <3>2. CASE q # p
      <4>1. PICK k \in PaymentIds \X Dues : k = <<q, a>> /\ k[1] = q
        <5>1. <<q, a>> \in PaymentIds \X Dues /\ <<q, a>>[1] = q
          OBVIOUS
        <5> QED
          BY <5>1, Zenon
      <4>2. alloc'[<<q, a>>] = alloc[<<q, a>>]
        BY <1>1, <3>2, <4>1
      <4> QED
        BY <1>2, <3>2, <4>2 DEF Counts
    <3> QED
      BY <3>1, <3>2
  <2> QED
    BY <2>1, NextFacts, LedgerStays
<1>6. PaidInv'
  BY <1>1, <1>5, PaidKept
<1> QED
  BY <1>4, <1>6

\* A row that is worth nothing does not count.
LEMMA RowlessCountsNot ==
    ASSUME TypeInv, NEW p \in PaymentIds, NEW a \in Dues, a \notin Rows(p)
    PROVE  ~(alloc[<<p, a>>].live)
<1>1. Rows(p) = {b \in Dues : alloc[<<p, b>>].amount > 0}
  BY Zenon DEF Rows
<1>2. PICK k \in PaymentIds \X Dues : k = <<p, a>>
  OBVIOUS
<1>3. alloc[k].live => alloc[k].amount > 0
  BY TypeFacts
<1> QED
  BY <1>1, <1>2, <1>3

LEMMA MatchVerify ==
    ASSUME TypeInv, BackedInv, PaidInv, Next, NEW p, Verified(p)
    PROVE  BackedInv' /\ PaidInv'
<1>1. /\ p \in 1..Len(pay) /\ "VERIFIED" \in PayStatus /\ SetStatus(p, "VERIFIED")
      /\ alloc' = alloc /\ credit' = credit /\ used' = used
  BY DEF Verified, VerifyPlain, GatewaySucceeded, HasStatus, Live, PayStatus
<1>2. SyncAssessments(Rows(p))
  BY Zenon DEF Verified, VerifyPlain, GatewaySucceeded
<1>3. StatusSet(p, "VERIFIED")
  BY <1>1, StatusEffect
<1>4. /\ Len(pay') = Len(pay) /\ \A q \in 1..Len(pay) : q # p => pay'[q] = pay[q]
      /\ \A q \in 1..Len(pay) : pay'[q].kind = pay[q].kind
      /\ pay'[p].status = "VERIFIED"
  BY <1>3 DEF StatusSet, PayChanged
<1>5. BackedInv'
  <2>1. \A q \in 1..Len(pay) :
           /\ pay'[q].kind = pay[q].kind
           /\ pay'[q].status = "PENDING_VERIFICATION" => pay[q].status = "PENDING_VERIFICATION"
    BY <1>4
  <2> QED
    BY <1>1, <1>4, <2>1, BackedFrame
<1>6. ASSUME NEW a \in Dues \ Rows(p)
      PROVE  LedgerOf(alloc', pay', a) = LedgerOf(alloc, pay, a)
  <2>1. p \in PaymentIds
    BY <1>1, TypeFacts, ConstantFacts
  <2>2. ~(alloc[<<p, a>>].live)
    BY <2>1, RowlessCountsNot
  <2>3. \A q \in PaymentIds :
           /\ Counts(alloc', pay', q, a) <=> Counts(alloc, pay, q, a)
           /\ Counts(alloc, pay, q, a) => alloc'[<<q, a>>] = alloc[<<q, a>>]
    BY <1>1, <1>4, <2>2 DEF Counts
  <2> QED
    BY <2>3, NextFacts, LedgerStays
<1>7. PaidInv'
  BY <1>2, <1>6, NextFacts, PaidSynced
<1> QED
  BY <1>5, <1>7

\* Where the row of an application is.
LEMMA RowOfType ==
    ASSUME TypeInv, NEW u \in 1..Len(used)
    PROVE  RowOf(u) \in PaymentIds \X Dues
<1>1. used[u].credit \in 1..Len(credit) /\ used[u].due \in Dues
  BY TypeFacts DEF UseRow
<1>2. credit[used[u].credit].source \in PaymentIds
  BY <1>1, TypeFacts DEF CreditRow
<1> QED
  BY <1>1, <1>2 DEF RowOf

\* Undoing a payment leaves none waiting that was not.
LEMMA UndoPends ==
    ASSUME TypeInv, NEW p, UndoAction(p), pay'[p].status = "PENDING_VERIFICATION"
    PROVE  pay[p].status = "PENDING_VERIFICATION"
<1>1. p \in 1..Len(pay)
  BY UndoEffect DEF Undone
<1>2. ASSUME NEW s \in {"REJECTED", "REFUNDED", "CANCELLED", "FAILED", "EXPIRED"}, SetStatus(p, s)
      PROVE  FALSE
  <2>1. s \in PayStatus /\ s # "PENDING_VERIFICATION"
    BY DEF PayStatus
  <2>2. StatusSet(p, s)
    BY <1>1, <1>2, <2>1, StatusEffect
  <2> QED
    BY <2>1, <2>2 DEF StatusSet
<1>3. CASE Deletes(p)
  BY <1>1, <1>3, DeleteEffect
<1> QED
  BY <1>2, <1>3 DEF UndoAction, Reject, Refund, Cancel, RemovePayment, GatewayFailed,
                    GatewayExpired, GatewayGaveUp, Deletes

LEMMA MatchUndo ==
    ASSUME TypeInv, BackedInv, PaidInv, Next, NEW p, UndoAction(p)
    PROVE  BackedInv' /\ PaidInv'
<1>1. /\ p \in 1..Len(pay) /\ PayChanged(p) /\ UnwindsTo(p)
      /\ \/ pay'[p].status \in {"REJECTED", "REFUNDED", "CANCELLED", "FAILED", "EXPIRED"}
         \/ pay'[p].deleted
  BY UndoEffect DEF Undone
<1>2. PICK S : /\ SyncAssessments(S) /\ Rows(p) \subseteq S
               /\ \A u \in UsesPaidBy(p) : used[u].due \in S
  BY UndoEffect DEF Undone
<1>3. PICK U : U = UsesPaidBy(p) /\ U \subseteq 1..Len(used)
  BY DEF UsesPaidBy
<1>4. PICK K : K = {k \in PaymentIds \X Dues : k[1] = p \/ \E u \in U : k = RowOf(u)}
  OBVIOUS
<1>5. /\ alloc' = Silenced(alloc, K) /\ used' = Retired(U) /\ Len(credit') = Len(credit)
      /\ \A c \in 1..Len(credit) : credit'[c].source = credit[c].source
  BY <1>1, <1>3, <1>4, UnwindEffect, NextBookFacts DEF Reversed
<1>6. \A k \in PaymentIds \X Dues : /\ k \in K => ~(alloc'[k].live)
                                    /\ k \notin K => alloc'[k] = alloc[k]
  <2> SUFFICES ASSUME NEW k \in PaymentIds \X Dues
               PROVE  (k \in K => ~(alloc'[k].live)) /\ (k \notin K => alloc'[k] = alloc[k])
    OBVIOUS
  <2> QED
    BY <1>5, SilenceEffect
<1>7. /\ Len(pay') = Len(pay) /\ \A q \in 1..Len(pay) : q # p => pay'[q] = pay[q]
      /\ \A q \in 1..Len(pay) : pay'[q].kind = pay[q].kind
  BY <1>1 DEF PayChanged
<1>8. /\ Len(used') = Len(used)
      /\ \A u \in 1..Len(used) :
            /\ used'[u].credit = used[u].credit /\ used'[u].due = used[u].due
            /\ used[u].live => used'[u].live \/ ~(alloc'[RowOf(u)].live)
  <2>1. /\ Len(used') = Len(used)
        /\ \A u \in 1..Len(used) :
              /\ used'[u].credit = used[u].credit /\ used'[u].due = used[u].due
              /\ u \notin U => used'[u] = used[u]
    BY <1>5, RetiredType
  <2>2. ASSUME NEW u \in 1..Len(used), u \in U PROVE ~(alloc'[RowOf(u)].live)
    <3>1. RowOf(u) \in PaymentIds \X Dues
      BY RowOfType
    <3>2. RowOf(u) \in K
      BY <1>4, <2>2, <3>1
    <3> QED
      BY <1>6, <3>1, <3>2
  <2> QED
    BY <2>1, <2>2
<1>9. p \in PaymentIds
  BY <1>1, TypeFacts, ConstantFacts
<1>10. ASSUME NEW a \in Dues \ S
       PROVE  LedgerOf(alloc', pay', a) = LedgerOf(alloc, pay, a)
  <2>1. ASSUME NEW q \in PaymentIds
        PROVE  /\ Counts(alloc', pay', q, a) <=> Counts(alloc, pay, q, a)
               /\ Counts(alloc, pay, q, a) => alloc'[<<q, a>>] = alloc[<<q, a>>]
    <3>1. CASE q = p
      <4>1. ~Counts(alloc', pay', q, a)
        BY <1>1, <3>1 DEF Counts
      <4>2. ~(alloc[<<q, a>>].live)
        BY <1>2, <3>1, RowlessCountsNot
      <4> QED
        BY <4>1, <4>2 DEF Counts
    <3>2. CASE q # p
      <4>1. PICK k \in PaymentIds \X Dues : k = <<q, a>> /\ k[1] = q /\ k[2] = a
        <5>1. <<q, a>> \in PaymentIds \X Dues /\ <<q, a>>[1] = q /\ <<q, a>>[2] = a
          OBVIOUS
        <5> QED
          BY <5>1, Zenon
      <4>2. ASSUME NEW u \in U PROVE k # RowOf(u)
        <5>1. used[u].due # a
          BY <1>2, <1>3
        <5> QED
          BY <4>1, <5>1 DEF RowOf
      <4>3. k \notin K
        BY <1>4, <3>2, <4>1, <4>2
      <4>4. alloc'[<<q, a>>] = alloc[<<q, a>>]
        BY <1>6, <4>1, <4>3
      <4> QED
        BY <1>7, <3>2, <4>4 DEF Counts
    <3> QED
      BY <3>1, <3>2
  <2> QED
    BY <2>1, NextFacts, LedgerStays
<1>11. PaidInv'
  BY <1>2, <1>10, NextFacts, PaidSynced
<1>12. BackedInv'
  <2>1. \A q \in 1..Len(pay) :
           /\ pay'[q].kind = pay[q].kind
           /\ pay'[q].status = "PENDING_VERIFICATION" => pay[q].status = "PENDING_VERIFICATION"
    <3>1. pay'[p].status = "PENDING_VERIFICATION" => pay[p].status = "PENDING_VERIFICATION"
      BY UndoPends
    <3> QED
      BY <1>7, <3>1
  <2>2. \A k \in PaymentIds \X Dues : alloc'[k].live => alloc[k].live
    BY <1>6
  <2>3. /\ Len(credit') = Len(credit)
        /\ \A c \in 1..Len(credit) : credit'[c].source = credit[c].source
    BY <1>5
  <2> HIDE <1>5
  <2> QED
    BY <1>7, <1>8, <2>1, <2>2, <2>3, BackedFrame
<1> QED
  BY <1>11, <1>12

LEMMA MatchVoid ==
    ASSUME TypeInv, BackedInv, PaidInv, Next, NEW c, VoidCredit(c)
    PROVE  BackedInv' /\ PaidInv'
<1>1. PICK s \in 1..Len(pay) : s = credit[c].source /\ c \in 1..Len(credit)
  BY VoidPays
<1>2. StatusSet(s, "REFUNDED")
  BY <1>1, VoidPays, BackedFacts
<1>3. /\ Len(pay') = Len(pay) /\ \A q \in 1..Len(pay) : q # s => pay'[q] = pay[q]
      /\ \A q \in 1..Len(pay) : pay'[q].kind = pay[q].kind
      /\ pay'[s].status = "REFUNDED"
  BY <1>2 DEF StatusSet, PayChanged
<1>4. PICK U : U = UsesOf(c) /\ U \subseteq 1..Len(used)
  BY DEF UsesOf
<1>5. PICK S : S = {used[u].due : u \in UsesOf(c)} /\ SyncAssessments(S)
  BY Zenon DEF VoidCredit
<1>6. PICK K : K = {k \in PaymentIds \X Dues : \E u \in U : k = RowOf(u)}
  OBVIOUS
<1>7. /\ alloc' = Silenced(alloc, K) /\ used' = Retired(U) /\ Len(credit') = Len(credit)
      /\ \A d \in 1..Len(credit) : credit'[d].source = credit[d].source
  BY <1>4, <1>6, VoidEffect DEF Voided
<1>8. \A k \in PaymentIds \X Dues : /\ k \in K => ~(alloc'[k].live)
                                    /\ k \notin K => alloc'[k] = alloc[k]
  <2> SUFFICES ASSUME NEW k \in PaymentIds \X Dues
               PROVE  (k \in K => ~(alloc'[k].live)) /\ (k \notin K => alloc'[k] = alloc[k])
    OBVIOUS
  <2> QED
    BY <1>7, SilenceEffect
<1>9. /\ Len(used') = Len(used)
      /\ \A u \in 1..Len(used) :
            /\ used'[u].credit = used[u].credit /\ used'[u].due = used[u].due
            /\ used[u].live => used'[u].live \/ ~(alloc'[RowOf(u)].live)
  <2>1. /\ Len(used') = Len(used)
        /\ \A u \in 1..Len(used) :
              /\ used'[u].credit = used[u].credit /\ used'[u].due = used[u].due
              /\ u \notin U => used'[u] = used[u]
    BY <1>7, RetiredType
  <2>2. ASSUME NEW u \in 1..Len(used), u \in U PROVE ~(alloc'[RowOf(u)].live)
    <3>1. RowOf(u) \in PaymentIds \X Dues
      BY RowOfType
    <3>2. RowOf(u) \in K
      BY <1>6, <2>2, <3>1
    <3> QED
      BY <1>8, <3>1, <3>2
  <2> QED
    BY <2>1, <2>2
<1>10. ASSUME NEW a \in Dues \ S
       PROVE  LedgerOf(alloc', pay', a) = LedgerOf(alloc, pay, a)
  <2>1. \A u \in U : used[u].due # a
    BY <1>4, <1>5
  <2>2. ASSUME NEW q \in PaymentIds
        PROVE  /\ Counts(alloc', pay', q, a) <=> Counts(alloc, pay, q, a)
               /\ Counts(alloc, pay, q, a) => alloc'[<<q, a>>] = alloc[<<q, a>>]
    <3>1. PICK k \in PaymentIds \X Dues : k = <<q, a>> /\ k[1] = q /\ k[2] = a
      <4>1. <<q, a>> \in PaymentIds \X Dues /\ <<q, a>>[1] = q /\ <<q, a>>[2] = a
        OBVIOUS
      <4> QED
        BY <4>1, Zenon
    <3>2. CASE q = s
      <4>1. ~Counts(alloc', pay', q, a)
        BY <1>3, <3>2 DEF Counts
      <4>2. ~(alloc[k].live)
        <5> SUFFICES ASSUME alloc[k].live PROVE FALSE
          OBVIOUS
        <5>1. credit[c].source = k[1]
          BY <1>1, <3>1, <3>2
        <5>2. PICK u \in 1..Len(used) : used[u].credit = c /\ used[u].due = k[2] /\ used[u].live
          BY <1>1, <5>1, BackedFacts
        <5>3. u \in U
          BY <1>4, <5>2 DEF UsesOf
        <5> QED
          BY <2>1, <3>1, <5>2, <5>3
      <4> QED
        BY <3>1, <4>1, <4>2 DEF Counts
    <3>3. CASE q # s
      <4>1. ASSUME NEW u \in U PROVE k # RowOf(u)
        BY <2>1, <3>1 DEF RowOf
      <4>2. k \notin K
        BY <1>6, <4>1
      <4>3. alloc'[<<q, a>>] = alloc[<<q, a>>]
        BY <1>8, <3>1, <4>2
      <4> QED
        BY <1>3, <3>3, <4>3 DEF Counts
    <3> QED
      BY <3>2, <3>3
  <2> QED
    BY <2>2, NextFacts, LedgerStays
<1>11. PaidInv'
  BY <1>5, <1>10, NextFacts, PaidSynced
<1>12. BackedInv'
  <2>1. \A q \in 1..Len(pay) :
           /\ pay'[q].kind = pay[q].kind
           /\ pay'[q].status = "PENDING_VERIFICATION" => pay[q].status = "PENDING_VERIFICATION"
    BY <1>3
  <2>2. \A k \in PaymentIds \X Dues : alloc'[k].live => alloc[k].live
    BY <1>8
  <2>3. /\ Len(credit') = Len(credit)
        /\ \A d \in 1..Len(credit) : credit'[d].source = credit[d].source
    BY <1>7
  <2> HIDE <1>7
  <2> QED
    BY <1>3, <1>9, <2>1, <2>2, <2>3, BackedFrame
<1> QED
  BY <1>11, <1>12

LEMMA MatchIssue ==
    ASSUME TypeInv, BackedInv, PaidInv, Next, NEW n \in CreditAmounts, IssueCredit(n)
    PROVE  BackedInv' /\ PaidInv'
<1>1. PICK m, x, y \in Nat : m = Len(pay) /\ x = Len(credit) /\ y = n
  BY TypeFacts, ConstantFacts
<1>2. /\ "CREDIT_ISSUE" \in PayKind /\ "VERIFIED" \in PayStatus /\ m < MaxPayments
      /\ pay' = Append(pay, NewRow("CREDIT_ISSUE", y, "VERIFIED"))
      /\ alloc' = alloc /\ used' = used /\ due' = due
      /\ credit' = Append(credit, [source |-> m + 1, balance |-> y, granted |-> y])
  BY <1>1, IssueEffect DEF PayKind, PayStatus
<1>3. /\ Len(pay') = m + 1 /\ \A q \in 1..m : pay'[q] = pay[q]
      /\ pay'[m + 1] = NewRow("CREDIT_ISSUE", y, "VERIFIED")
  BY <1>1, <1>2, AppendEffect
<1>4. pay'[m + 1].kind = "CREDIT_ISSUE" /\ pay'[m + 1].status = "VERIFIED"
  BY <1>3 DEF NewRow
<1>5. Len(credit') = x + 1 /\ credit'[x + 1].source = m + 1
      /\ \A c \in 1..x : credit'[c] = credit[c]
  <2>1. PICK r : r = [source |-> m + 1, balance |-> y, granted |-> y]
    OBVIOUS
  <2>2. Len(credit') = x + 1 /\ credit'[x + 1] = r /\ \A c \in 1..x : credit'[c] = credit[c]
    BY <1>1, <1>2, <2>1, TypeFacts
  <2>3. r.source = m + 1
    BY <2>1
  <2> QED
    BY <2>2, <2>3
<1>6. \A c \in 1..Len(credit') : c \in 1..x \/ c = x + 1
  BY <1>5
<1>7. \A c \in 1..x : credit[c].source \in 1..m
  BY <1>1, TypeFacts
<1>8. UnbornInv'
  <2> SUFFICES ASSUME NEW k \in PaymentIds \X Dues, k[1] > m + 1 PROVE ~(alloc[k].live)
    BY <1>2, <1>3 DEF UnbornInv
  <2>1. k[1] \in Nat /\ k[1] > m
    BY ConstantFacts
  <2> QED
    BY <1>1, <2>1 DEF BackedInv, UnbornInv
<1>9. SourceInv'
  <2>1. \A c \in 1..x : pay'[credit'[c].source].kind = "CREDIT_ISSUE"
    BY <1>1, <1>3, <1>5, <1>7, BackedFacts
  <2> QED
    BY <1>4, <1>5, <1>6, <2>1 DEF SourceInv
<1>10. Backing(Book')
  <2>1. \A c, d \in 1..Len(credit') : credit'[c].source = credit'[d].source => c = d
    <3>1. \A c, d \in 1..x : credit'[c].source = credit'[d].source => c = d
      BY <1>1, <1>5, BackedFacts
    <3>2. \A c \in 1..x : credit'[c].source # m + 1
      BY <1>5, <1>7
    <3> QED
      BY <1>5, <1>6, <3>1, <3>2
  <2>2. ASSUME NEW k \in PaymentIds \X Dues, NEW c \in 1..Len(credit'),
               alloc'[k].live, credit'[c].source = k[1]
        PROVE  \E u \in 1..Len(used') :
                  used'[u].credit = c /\ used'[u].due = k[2] /\ used'[u].live
    <3>1. alloc[k].live
      BY <1>2, <2>2
    <3>2. CASE c \in 1..x
      <4>1. credit[c].source = k[1] /\ c \in 1..Len(credit)
        BY <1>1, <1>5, <2>2, <3>2
      <4>2. PICK u \in 1..Len(used) : used[u].credit = c /\ used[u].due = k[2] /\ used[u].live
        BY <3>1, <4>1, LiveRowIsBacked
      <4> QED
        BY <1>2, <4>2
    <3>3. CASE c = x + 1
      <4>1. k[1] > m
        BY <1>5, <2>2, <3>3
      <4> QED
        BY <1>1, <3>1, <4>1 DEF BackedInv, UnbornInv
    <3> QED
      BY <1>6, <3>2, <3>3
  <2> QED
    BY <2>1, <2>2, NextBookFacts DEF Backing
<1>11. BackedInv'
  <2>1. \A p \in 1..Len(pay') :
           /\ pay'[p].kind # "ADVANCE"
           /\ pay'[p].kind = "CREDIT_ISSUE" => pay'[p].status # "PENDING_VERIFICATION"
    <3>1. \A p \in 1..Len(pay') : p \in 1..m \/ p = m + 1
      BY <1>3
    <3> QED
      BY <1>1, <1>3, <1>4, <3>1 DEF BackedInv
  <2> QED
    BY <1>8, <1>9, <1>10, <2>1 DEF BackedInv
<1>12. ASSUME NEW a \in Dues PROVE LedgerOf(alloc', pay', a) = LedgerOf(alloc, pay, a)
  <2>1. ASSUME NEW p \in PaymentIds
        PROVE  /\ Counts(alloc', pay', p, a) <=> Counts(alloc, pay, p, a)
               /\ Counts(alloc, pay, p, a) => alloc'[<<p, a>>] = alloc[<<p, a>>]
    <3>1. CASE p = m + 1
      <4>1. PICK k \in PaymentIds \X Dues : k = <<p, a>> /\ k[1] = p
        <5>1. <<p, a>> \in PaymentIds \X Dues /\ <<p, a>>[1] = p
          OBVIOUS
        <5> QED
          BY <5>1, Zenon
      <4>2. k[1] > m
        BY <3>1, <4>1
      <4>3. ~(alloc[<<p, a>>].live)
        BY <1>1, <4>1, <4>2 DEF BackedInv, UnbornInv
      <4> QED
        BY <1>2, <4>3 DEF Counts
    <3>2. CASE p # m + 1
      <4>1. p \in 1..Len(pay') <=> p \in 1..Len(pay)
        BY <1>1, <1>3, <3>2
      <4> QED
        BY <1>1, <1>2, <1>3, <4>1 DEF Counts
    <3> QED
      BY <3>1, <3>2
  <2> QED
    BY <2>1, NextFacts, LedgerStays
<1>13. PaidInv'
  BY <1>2, <1>12, PaidKept
<1> QED
  BY <1>11, <1>13

LEMMA MatchStep ==
    ASSUME TypeInv, BackedInv, PaidInv, ~ApplyCredit, ~Advances, Next
    PROVE  BackedInv' /\ PaidInv'
<1>1. ASSUME pay' = pay, alloc' = alloc, used' = used, Len(credit') = Len(credit),
             \A c \in 1..Len(credit) : credit'[c].source = credit[c].source,
             \A a \in Dues : due'[a].paid = due[a].paid
      PROVE  BackedInv' /\ PaidInv'
  <2>1. BackedInv'
    BY <1>1, BackedFrame
  <2>2. PaidInv'
    BY <1>1, PaidKept
  <2> QED
    BY <2>1, <2>2
<1>2. ASSUME NEW c, NEW n \in CreditAmounts, AdjustCredit(c, n)
      PROVE  BackedInv' /\ PaidInv'
  BY <1>1, <1>2, AdjustEffect
<1>3. ASSUME Untouched, \A a \in Dues : due'[a].paid = due[a].paid
      PROVE  BackedInv' /\ PaidInv'
  BY <1>1, <1>3 DEF Untouched
<1>4. ~SettleByCredit
  BY DEF SettleByCredit
<1>5. \A p : ~(HasStatus(p, {"PENDING_VERIFICATION"}) /\ VerifyAdvance(p))
  BY DEF HasStatus, Live, VerifyAdvance, BackedInv
<1> QED
  BY <1>2, <1>3, <1>4, <1>5, MatchRecord, MatchApply, MatchUpdate, MatchVerify, MatchUndo,
     MatchVoid, MatchIssue, Cases

LEMMA MatchInit == Init => BackedInv /\ PaidInv
<1> SUFFICES ASSUME Init PROVE BackedInv /\ PaidInv
  OBVIOUS
<1>1. Len(pay) = 0 /\ Len(credit) = 0 /\ \A k \in PaymentIds \X Dues : ~(alloc[k].live)
  BY DEF Init
<1>2. BackedInv
  BY <1>1 DEF BackedInv, UnbornInv, SourceInv, Backing, Book
<1>3. ASSUME NEW a \in Dues PROVE due[a].paid = LedgerOf(alloc, pay, a)
  <2>1. {p \in 1..Len(pay) : /\ pay[p].status = "VERIFIED" /\ ~pay[p].deleted
                             /\ alloc[<<p, a>>].live} = {}
    BY <1>1
  <2>2. LedgerOf(alloc, pay, a) = 0
    BY <2>1, SumEmpty DEF LedgerOf
  <2>3. due[a].paid = 0
    BY DEF Init
  <2> QED
    BY <2>2, <2>3
<1> QED
  BY <1>2, <1>3 DEF PaidInv

LEMMA MatchSteps ==
    ASSUME ~ApplyCredit, ~Advances
    PROVE  TypeInv /\ BackedInv /\ PaidInv /\ [Next]_vars => BackedInv' /\ PaidInv'
<1> SUFFICES ASSUME TypeInv, BackedInv, PaidInv, [Next]_vars PROVE BackedInv' /\ PaidInv'
  OBVIOUS
<1>1. CASE Next
  BY <1>1, MatchStep
<1>2. CASE UNCHANGED vars
  BY <1>2 DEF vars, BackedInv, PaidInv, UnbornInv, SourceInv, Backing, Book, LedgerOf
<1> QED
  BY <1>1, <1>2

\* As long as residents neither apply credit to a payment nor pay in advance,
\* every stored paidAmount is the sum of what VERIFIED payments still hold for
\* the assessment, after every request: whichever edits, refusals, refunds,
\* deletions and credits officers make
\* (household-credit.service.ts:37-42, finance-sync.service.ts:48-53).
THEOREM PaidIsTheLedger ==
    ASSUME ~ApplyCredit, ~Advances
    PROVE  Spec => []PaidMatchesLedger
<1>1. PaidInv => PaidMatchesLedger
  BY LedgerPaidIs DEF PaidInv, PaidMatchesLedger
<1> QED
  BY <1>1, MatchInit, MatchSteps, TypeAlways, PTL DEF Spec

-----------------------------------------------------------------------------
(* Credit that was spent counts.                                           *)

\* The payments of issued credit that still stand.
Issued == {p \in 1..Len(pay) : /\ pay[p].kind = "CREDIT_ISSUE"
                               /\ pay[p].status = "VERIFIED" /\ ~pay[p].deleted}

\* The rows of the payments P count whenever they are worth something, and so
\* does the row of every application of their credits that counts.
Sound(b, P) ==
    /\ \A k \in PaymentIds \X Dues : k[1] \in P /\ b.alloc[k].amount > 0 => b.alloc[k].live
    /\ \A u \in 1..Len(b.used), k \in PaymentIds \X Dues :
          /\ b.used[u].live /\ k[2] = b.used[u].due
          /\ k[1] = b.credit[b.used[u].credit].source /\ k[1] \in P
          => b.alloc[k].live

\* Credit is applied by officers only, credit payments go through no gateway,
\* and the rows of payments to come are empty.
SoundInv ==
    /\ Sound(Book, Issued)
    /\ \A u \in 1..Len(used) : used[u].payer = NoOne
    /\ \A p \in 1..Len(pay) : pay[p].kind = "CREDIT_ISSUE" => pay[p].status # "PROCESSING"
    /\ \A k \in PaymentIds \X Dues : k[1] > Len(pay) => alloc[k].amount = 0

LEMMA SoundFacts ==
    ASSUME SoundInv
    PROVE  /\ \A k \in PaymentIds \X Dues : k[1] \in Issued /\ alloc[k].amount > 0 => alloc[k].live
           /\ \A u \in 1..Len(used), k \in PaymentIds \X Dues :
                 /\ used[u].live /\ k[2] = used[u].due
                 /\ k[1] = credit[used[u].credit].source /\ k[1] \in Issued
                 => alloc[k].live
<1>1. Book.alloc = alloc /\ Book.credit = credit /\ Book.used = used
  BY DEF Book
<1> QED
  BY <1>1 DEF SoundInv, Sound

\* What is added to a row that counts, or to an empty one, counts.
LEMMA TopUpCounts ==
    ASSUME NEW row \in Row, row.live => row.amount > 0, NEW n \in Nat
    PROVE  /\ TopUp(row, n).amount = row.amount + n
           /\ row.live => TopUp(row, n).live
           /\ (row.amount > 0 => row.live) /\ TopUp(row, n).amount > 0 => TopUp(row, n).live
<1>1. PICK x \in Nat : x = row.amount
  BY DEF Row
<1>2. CASE x = 0
  <2>1. CASE n > 0
    <3>1. (n > 0) = TRUE /\ x + n = n
      BY <1>2, <2>1
    <3>2. TopUp(row, n) = [amount |-> n, live |-> TRUE]
      BY <1>1, <1>2, <3>1, Zenon DEF TopUp
    <3> QED
      BY <1>1, <1>2, <3>2
  <2>2. CASE n = 0
    <3>1. TopUp(row, n) = row
      BY <2>2, TopUpType
    <3>2. row.amount = row.amount + n /\ ~(row.amount > 0)
      BY <1>1, <1>2, <2>2
    <3> QED
      BY <3>1, <3>2, Zenon
  <2> QED
    BY <2>1, <2>2
<1>3. CASE x # 0
  <2>1. TopUp(row, n) = [amount |-> row.amount + n, live |-> row.live]
    BY <1>1, <1>3 DEF TopUp
  <2> QED
    BY <1>1, <1>3, <2>1
<1> QED
  BY <1>2, <1>3

\* A member of a sum is no greater than the sum.
LEMMA SumBounds ==
    ASSUME NEW S, IsFiniteSet(S), NEW f, \A x \in S : f[x] \in Nat, NEW y \in S
    PROVE  f[y] <= SumFunctionOnSet(f, S)
<1>1. SumFunctionOnSet(f, S) = f[y] + SumFunctionOnSet(f, S \ {y})
  BY SumRemove
<1>2. IsFiniteSet(S \ {y})
  BY FS_Subset
<1>3. SumFunctionOnSet(f, S \ {y}) \in Nat
  BY <1>2, SumType
<1> QED
  BY <1>1, <1>3

LEMMA SpendSound ==
    ASSUME NEW b \in Books, NEW P, Sound(b, P), NEW a \in Dues, NEW n \in Nat,
           NEW payer \in PaymentIds \cup {NoOne}
    PROVE  Sound(Spend(b, a, n, payer), P)
<1>1. PICK take, new : OpenedUp(b, a, n, payer, take, new)
  BY SpendShape
<1>2. PICK m \in Nat : m = Len(b.credit)
  BY DEF Books
<1>3. PICK C : C = [c \in 1..m |-> [b.credit[c] EXCEPT !.balance = @ - take[c]]]
  OBVIOUS
<1>4. PICK A : A = [k \in PaymentIds \X Dues |->
                      IF k[2] = a THEN TopUp(b.alloc[k], Backed(b, take, k[1])) ELSE b.alloc[k]]
  OBVIOUS
<1>5. PICK W : W = b.used \o new
  OBVIOUS
<1>6. PICK r : r = Spend(b, a, n, payer)
  OBVIOUS
<1>7. r.credit = C /\ r.used = W /\ r.alloc = A
  BY <1>1, <1>2, <1>3, <1>4, <1>5, <1>6, SMTT(30) DEF OpenedUp
<1>8. take \in [1..m -> Nat] /\ Records(new, take, m, a, payer)
  BY <1>1, <1>2 DEF OpenedUp, Takes
<1>9. PICK x, y \in Nat : x = Len(b.used) /\ y = Len(new)
  BY <1>8 DEF Books, Records
<1>10. /\ Len(W) = x + y /\ \A u \in 1..x : W[u] = b.used[u]
       /\ \A i \in 1..y : W[x + i] = new[i]
  BY <1>5, <1>8, <1>9 DEF Books, Records
<1>11. ASSUME NEW c \in 1..m PROVE C[c].source = b.credit[c].source
  <2>1. b.credit[c] \in CreditRow
    BY <1>2 DEF Books
  <2>2. C[c] = [b.credit[c] EXCEPT !.balance = b.credit[c].balance - take[c]]
    BY <1>3
  <2> QED
    BY <2>1, <2>2 DEF CreditRow
<1>12. ASSUME NEW k \in PaymentIds \X Dues
       PROVE  /\ b.alloc[k].live => A[k].live
              /\ k[1] \in P /\ A[k].amount > 0 => A[k].live
              /\ k[2] = a => A[k].amount >= Backed(b, take, k[1])
  <2>1. b.alloc[k] \in Row /\ (b.alloc[k].live => b.alloc[k].amount > 0)
        /\ (k[1] \in P /\ b.alloc[k].amount > 0 => b.alloc[k].live)
    BY DEF Books, Sound
  <2>2. CASE k[2] = a
    <3>1. PICK t \in Nat : t = Backed(b, take, k[1])
      BY <1>1 DEF OpenedUp
    <3>2. A[k] = TopUp(b.alloc[k], t)
      BY <1>4, <2>2, <3>1
    <3>3. /\ TopUp(b.alloc[k], t).amount = b.alloc[k].amount + t
          /\ b.alloc[k].live => TopUp(b.alloc[k], t).live
          /\ (b.alloc[k].amount > 0 => b.alloc[k].live) /\ TopUp(b.alloc[k], t).amount > 0
             => TopUp(b.alloc[k], t).live
      BY <2>1, TopUpCounts
    <3>4. b.alloc[k].amount \in Nat
      BY <2>1 DEF Row
    <3> QED
      BY <2>1, <3>1, <3>2, <3>3, <3>4
  <2>3. CASE k[2] # a
    <3>1. A[k] = b.alloc[k]
      BY <1>4, <2>3
    <3> QED
      BY <2>1, <2>3, <3>1
  <2> QED
    BY <2>2, <2>3
<1>13. ASSUME NEW u \in 1..(x + y), NEW k \in PaymentIds \X Dues, W[u].live, k[2] = W[u].due,
              k[1] = C[W[u].credit].source, k[1] \in P
       PROVE  A[k].live
  <2>1. CASE u \in 1..x
    <3>1. W[u] = b.used[u] /\ b.used[u].credit \in 1..m
      BY <1>2, <1>9, <1>10, <2>1 DEF Books
    <3>2. k[1] = b.credit[b.used[u].credit].source
      BY <1>11, <1>13, <3>1
    <3>3. b.alloc[k].live
      BY <1>9, <1>13, <2>1, <3>1, <3>2 DEF Sound
    <3> QED
      BY <1>12, <3>3
  <2>2. CASE u \notin 1..x
    <3>1. PICK i \in 1..y : u = x + i /\ W[u] = new[i]
      <4>1. u - x \in 1..y /\ u = x + (u - x)
        BY <2>2
      <4> QED
        BY <1>10, <4>1
    <3>2. PICK c \in 1..m : c = new[i].credit /\ new[i].due = a /\ take[c] > 0
      BY <1>8, <1>9, <3>1 DEF Records
    <3>3. b.credit[c].source = k[1] /\ k[2] = a
      BY <1>11, <1>13, <3>1, <3>2
    <3>4. PICK T : T = {d \in 1..m : b.credit[d].source = k[1]}
      OBVIOUS
    <3>5. IsFiniteSet(T) /\ c \in T /\ \A d \in T : take[d] \in Nat
      <4>1. IsFiniteSet(1..m)
        BY FS_Interval
      <4> QED
        BY <1>8, <3>3, <3>4, <4>1, FS_Subset
    <3>6. take[c] <= SumFunctionOnSet(take, T)
      BY <3>5, SumBounds
    <3>7. PICK t \in Nat : t = Backed(b, take, k[1])
      BY <1>1 DEF OpenedUp
    <3>8. t = SumFunctionOnSet(take, T)
      BY <1>2, <3>4, <3>7 DEF Backed
    <3>9. A[k].amount >= t /\ t > 0
      <4>1. PICK z \in Nat : z = take[c] /\ z > 0
        BY <1>8, <3>2
      <4>2. z <= t
        BY <3>6, <3>8, <4>1
      <4>3. A[k].amount >= t
        BY <1>12, <3>3, <3>7
      <4> QED
        BY <4>1, <4>2, <4>3
    <3>10. A[k].amount \in Nat
      <4>1. b.alloc[k] \in Row /\ (b.alloc[k].live => b.alloc[k].amount > 0)
        BY DEF Books
      <4>2. A[k] = TopUp(b.alloc[k], t)
        BY <1>4, <3>3, <3>7
      <4> QED
        BY <4>1, <4>2, TopUpType DEF Row
    <3> QED
      BY <1>12, <1>13, <3>9, <3>10
  <2> QED
    BY <2>1, <2>2
<1>14. Sound(r, P)
  BY <1>7, <1>10, <1>12, <1>13 DEF Sound
<1> QED
  BY <1>6, <1>14

LEMMA SpendAllSound ==
    ASSUME NEW old \in Books, NEW P, Sound(old, P), NEW n, DOMAIN n \subseteq Dues,
           \A a \in DOMAIN n : n[a] \in Nat, NEW payer \in PaymentIds \cup {NoOne}
    PROVE  Sound(SpendAll(old, n, payer), P)
<1> DEFINE V == {b \in Books : Sound(b, P) /\ SpentFrom(old, b, DOMAIN n, payer)}
<1>1. old \in V
  <2>1. Len(old.used) \in Nat
    BY DEF Books
  <2>2. (Len(old.used) + 1)..Len(old.used) = {}
    BY <2>1
  <2> QED
    BY <2>1, <2>2 DEF SpentFrom
<1>2. ASSUME NEW b \in V, NEW a \in DOMAIN n PROVE Spend(b, a, n[a], payer) \in V
  <2>1. n[a] \in Nat /\ a \in Dues /\ SpentFrom(old, b, DOMAIN n, payer) /\ Sound(b, P) /\ b \in Books
    OBVIOUS
  <2>2. SpentFrom(old, Spend(b, a, n[a], payer), DOMAIN n, payer)
    BY <2>1, SpendIsSpending
  <2>3. Sound(Spend(b, a, n[a], payer), P)
    BY <2>1, SpendSound
  <2> QED
    BY <2>2, <2>3 DEF SpentFrom
<1>3. DOMAIN n \subseteq Int /\ IsFiniteSet(DOMAIN n)
  <2>1. Dues \subseteq Int /\ \A T \in SUBSET Dues : IsFiniteSet(T)
    BY DuesFacts
  <2> QED
    BY <2>1
<1>4. SpendAll(old, n, payer) \in V
  <2> HIDE DEF V
  <2> QED
    BY <1>1, <1>2, <1>3, SpendAllKeeps
<1> QED
  BY <1>4

\* Rows of credit payments that still stand stay, and no application revives.
LEMMA SoundFrame ==
    ASSUME TypeInv, SoundInv, Len(pay') \in Nat, Len(pay) <= Len(pay'), Issued' \subseteq Issued,
           \A k \in PaymentIds \X Dues : k[1] \in Issued' => alloc'[k] = alloc[k],
           Len(credit') = Len(credit),
           \A c \in 1..Len(credit) : credit'[c].source = credit[c].source,
           Len(used') = Len(used),
           \A u \in 1..Len(used) :
              /\ used'[u].credit = used[u].credit /\ used'[u].due = used[u].due
              /\ used'[u].payer = used[u].payer /\ (used'[u].live => used[u].live),
           \A p \in 1..Len(pay') : pay'[p].kind = "CREDIT_ISSUE" => pay'[p].status # "PROCESSING",
           \A k \in PaymentIds \X Dues : k[1] > Len(pay') => alloc'[k].amount = alloc[k].amount
    PROVE  SoundInv'
<1>1. ASSUME NEW k \in PaymentIds \X Dues, k[1] \in Issued', alloc'[k].amount > 0
      PROVE  alloc'[k].live
  <2>1. alloc'[k] = alloc[k] /\ k[1] \in Issued
    BY <1>1
  <2> QED
    BY <1>1, <2>1, SoundFacts
<1>2. ASSUME NEW u \in 1..Len(used'), NEW k \in PaymentIds \X Dues, used'[u].live,
             k[2] = used'[u].due, k[1] = credit'[used'[u].credit].source, k[1] \in Issued'
      PROVE  alloc'[k].live
  <2>1. alloc'[k] = alloc[k] /\ k[1] \in Issued
    BY <1>2
  <2>2. used[u].credit \in 1..Len(credit) /\ u \in 1..Len(used)
    BY <1>2, TypeFacts
  <2>3. used[u].live /\ k[2] = used[u].due /\ k[1] = credit[used[u].credit].source
    BY <1>2, <2>2
  <2> QED
    BY <2>1, <2>2, <2>3, SoundFacts
<1>3. Sound(Book', Issued')
  BY <1>1, <1>2, NextBookFacts DEF Sound
<1>4. \A u \in 1..Len(used') : used'[u].payer = NoOne
  BY DEF SoundInv
<1>5. ASSUME NEW k \in PaymentIds \X Dues, k[1] > Len(pay') PROVE alloc'[k].amount = 0
  <2>1. Len(pay) \in Nat /\ k[1] \in Nat
    BY TypeFacts, ConstantFacts
  <2>2. k[1] > Len(pay)
    BY <1>5, <2>1
  <2> QED
    BY <1>5, <2>2 DEF SoundInv
<1> QED
  BY <1>3, <1>4, <1>5 DEF SoundInv

LEMMA SoundRecord ==
    ASSUME TypeInv, SoundInv, ~ApplyCredit, Next, NEW f \in Targets, NEW useCredit,
           NEW kind, NEW status, Recorded(kind, status, f, useCredit)
    PROVE  SoundInv'
<1>1. PICK m \in Nat : m = Len(pay)
  BY TypeFacts
<1>2. /\ Len(pay') = m + 1 /\ \A q \in 1..m : pay'[q] = pay[q]
      /\ pay'[m + 1].kind = kind
      /\ used' = used /\ Len(credit') = Len(credit)
      /\ \A c \in 1..Len(credit) : credit'[c].source = credit[c].source
      /\ \A k \in PaymentIds \X Dues : k[1] # m + 1 => alloc'[k] = alloc[k]
  BY <1>1, RecordedPlainly
<1>3. kind # "CREDIT_ISSUE"
  BY DEF Recorded
<1>4. \A q \in 1..(m + 1) : q \in 1..m \/ q = m + 1
  OBVIOUS
<1>5. Issued' \subseteq Issued /\ m + 1 \notin Issued'
  BY <1>1, <1>2, <1>3, <1>4 DEF Issued
<1>6. \A p \in 1..Len(pay') : pay'[p].kind = "CREDIT_ISSUE" => pay'[p].status # "PROCESSING"
  BY <1>1, <1>2, <1>3, <1>4 DEF SoundInv
<1>7. /\ \A k \in PaymentIds \X Dues : k[1] \in Issued' => alloc'[k] = alloc[k]
      /\ \A k \in PaymentIds \X Dues : k[1] > Len(pay') => alloc'[k].amount = alloc[k].amount
  <2>1. \A k \in PaymentIds \X Dues : k[1] > m + 1 => k[1] # m + 1
    BY ConstantFacts
  <2> QED
    BY <1>2, <1>5, <2>1
<1> QED
  BY <1>1, <1>2, <1>5, <1>6, <1>7, SoundFrame

LEMMA SoundApply ==
    ASSUME TypeInv, BackedInv, SoundInv, ApplyManual
    PROVE  SoundInv'
<1>1. PICK f \in Targets : KeepBook(SpendAll(Book, f, NoOne)) /\ pay' = pay
  BY DEF ApplyManual
<1>2. DOMAIN f \subseteq Dues /\ \A a \in DOMAIN f : f[a] \in Nat
  BY TargetsType
<1>3. SpentFrom(Book, Book', DOMAIN f, NoOne) /\ Book \in Books
      /\ Book.credit = credit /\ Book.alloc = alloc /\ Book.used = used
  BY <1>1, SpendEffect, BookFacts
<1>4. Sound(Book', Issued')
  <2>1. PICK q \in PaymentIds \cup {NoOne}, old \in {Book}, P \in {Issued} :
           q = NoOne /\ old = Book /\ P = Issued
    OBVIOUS
  <2>2. old \in Books /\ Sound(old, P)
    BY <1>3, <2>1 DEF SoundInv
  <2>3. Sound(SpendAll(old, f, q), P)
    BY <1>2, <2>2, SpendAllSound
  <2>4. Book' = SpendAll(old, f, q)
    BY <1>1, <2>1, SpendEffect
  <2>5. Issued' = P
    BY <1>1, <2>1 DEF Issued
  <2> QED
    BY <2>3, <2>4, <2>5
<1>5. \A u \in 1..Len(used') : used'[u].payer = NoOne
  <2>1. PICK x, y \in Nat : x = Len(used) /\ y = Len(used') /\ y >= x
    <3>1. Len(used') \in Nat
      BY <1>3, NextBookFacts DEF SpentFrom, Books
    <3>2. Len(used') >= Len(used)
      BY <1>3, NextBookFacts DEF SpentFrom
    <3> QED
      BY <3>1, <3>2, TypeFacts
  <2>2. /\ \A u \in 1..x : used'[u] = used[u]
        /\ \A u \in (x + 1)..y : used'[u].payer = NoOne
    BY <1>3, <2>1, NextBookFacts DEF SpentFrom
  <2>3. \A u \in 1..y : u \in 1..x \/ u \in (x + 1)..y
    BY <2>1
  <2> QED
    BY <2>1, <2>2, <2>3 DEF SoundInv
<1>6. ASSUME NEW k \in PaymentIds \X Dues, k[1] > Len(pay') PROVE alloc'[k].amount = 0
  <2>1. k[1] \notin 1..Len(pay) /\ k[1] > Len(pay)
    BY <1>1, <1>6, TypeFacts
  <2>2. alloc'[k] = alloc[k]
    BY <1>3, <2>1, BackedFacts, NextBookFacts DEF SpentFrom
  <2> QED
    BY <2>1, <2>2 DEF SoundInv
<1> QED
  BY <1>1, <1>4, <1>5, <1>6 DEF SoundInv

LEMMA SoundUpdate ==
    ASSUME TypeInv, BackedInv, SoundInv, NEW p \in PaymentIds, UpdatePayment(p)
    PROVE  SoundInv'
<1>1. /\ PayChanged(p) /\ p \in 1..Len(pay)
      /\ pay[p].status = "PENDING_VERIFICATION" /\ pay'[p].status = "PENDING_VERIFICATION"
      /\ \A k \in PaymentIds \X Dues : k[1] # p => alloc'[k] = alloc[k]
      /\ credit' = credit /\ used' = used
  BY UpdateEffect
<1>2. /\ Len(pay') = Len(pay) /\ \A q \in 1..Len(pay) : q # p => pay'[q] = pay[q]
      /\ \A q \in 1..Len(pay) : pay'[q].kind = pay[q].kind
  BY <1>1 DEF PayChanged
<1>3. Issued' \subseteq Issued /\ p \notin Issued'
  BY <1>1, <1>2 DEF Issued
<1>4. \A q \in 1..Len(pay') : pay'[q].kind = "CREDIT_ISSUE" => pay'[q].status # "PROCESSING"
  BY <1>1, <1>2 DEF SoundInv
<1>5. /\ \A k \in PaymentIds \X Dues : k[1] \in Issued' => alloc'[k] = alloc[k]
      /\ \A k \in PaymentIds \X Dues : k[1] > Len(pay') => alloc'[k].amount = alloc[k].amount
  <2>1. \A k \in PaymentIds \X Dues : k[1] > Len(pay') => k[1] # p
    BY <1>1, <1>2, TypeFacts
  <2> QED
    BY <1>1, <1>3, <2>1
<1>6. Len(pay') \in Nat /\ Len(pay) <= Len(pay')
  BY <1>2, TypeFacts
<1> QED
  BY <1>1, <1>3, <1>4, <1>5, <1>6, SoundFrame

LEMMA SoundVerify ==
    ASSUME TypeInv, BackedInv, SoundInv, NEW p, Verified(p)
    PROVE  SoundInv'
<1>1. /\ p \in 1..Len(pay) /\ "VERIFIED" \in PayStatus /\ SetStatus(p, "VERIFIED")
      /\ alloc' = alloc /\ credit' = credit /\ used' = used
      /\ pay[p].status \in {"PENDING_VERIFICATION", "PROCESSING"}
  BY DEF Verified, VerifyPlain, GatewaySucceeded, HasStatus, Live, PayStatus
<1>2. StatusSet(p, "VERIFIED")
  BY <1>1, StatusEffect
<1>3. /\ Len(pay') = Len(pay) /\ \A q \in 1..Len(pay) : q # p => pay'[q] = pay[q]
      /\ \A q \in 1..Len(pay) : pay'[q].kind = pay[q].kind
  BY <1>2 DEF StatusSet, PayChanged
<1>4. pay[p].kind # "CREDIT_ISSUE"
  BY <1>1 DEF BackedInv, SoundInv
<1>5. Issued' \subseteq Issued
  BY <1>3, <1>4 DEF Issued
<1>6. \A q \in 1..Len(pay') : pay'[q].kind = "CREDIT_ISSUE" => pay'[q].status # "PROCESSING"
  BY <1>3, <1>4 DEF SoundInv
<1>7. Len(pay') \in Nat /\ Len(pay) <= Len(pay')
  BY <1>3, TypeFacts
<1> QED
  BY <1>1, <1>3, <1>5, <1>6, <1>7, SoundFrame

\* Undoing a payment makes none of them PROCESSING.
LEMMA UndoProcesses ==
    ASSUME TypeInv, NEW p, UndoAction(p), pay'[p].status = "PROCESSING"
    PROVE  pay[p].status = "PROCESSING"
<1>1. p \in 1..Len(pay)
  BY UndoEffect DEF Undone
<1>2. ASSUME NEW s \in {"REJECTED", "REFUNDED", "CANCELLED", "FAILED", "EXPIRED"}, SetStatus(p, s)
      PROVE  FALSE
  <2>1. s \in PayStatus /\ s # "PROCESSING"
    BY DEF PayStatus
  <2>2. StatusSet(p, s)
    BY <1>1, <1>2, <2>1, StatusEffect
  <2> QED
    BY <2>1, <2>2 DEF StatusSet
<1>3. CASE Deletes(p)
  BY <1>1, <1>3, DeleteEffect
<1> QED
  BY <1>2, <1>3 DEF UndoAction, Reject, Refund, Cancel, RemovePayment, GatewayFailed,
                    GatewayExpired, GatewayGaveUp, Deletes

\* A payment that is undone silences its own rows only: it paid with no credit.
LEMMA SoundUndo ==
    ASSUME TypeInv, BackedInv, SoundInv, NEW p, UndoAction(p)
    PROVE  SoundInv'
<1>1. /\ p \in 1..Len(pay) /\ PayChanged(p) /\ UnwindsTo(p)
      /\ \/ pay'[p].status \in {"REJECTED", "REFUNDED", "CANCELLED", "FAILED", "EXPIRED"}
         \/ pay'[p].deleted
  BY UndoEffect DEF Undone
<1>2. PICK U : U = UsesPaidBy(p)
  OBVIOUS
<1>3. U = {}
  <2>1. p # NoOne
    BY <1>1, TypeFacts DEF NoOne
  <2> QED
    BY <1>2, <2>1 DEF UsesPaidBy, SoundInv
<1>4. PICK K : K = {k \in PaymentIds \X Dues : k[1] = p \/ \E u \in U : k = RowOf(u)}
  OBVIOUS
<1>5. /\ alloc' = Silenced(alloc, K) /\ used' = Retired(U) /\ Len(credit') = Len(credit)
      /\ \A c \in 1..Len(credit) : credit'[c].source = credit[c].source
  BY <1>1, <1>2, <1>4, UnwindEffect, NextBookFacts DEF Reversed
<1>6. \A k \in PaymentIds \X Dues : /\ k[1] # p => alloc'[k] = alloc[k]
  <2> SUFFICES ASSUME NEW k \in PaymentIds \X Dues, k[1] # p PROVE alloc'[k] = alloc[k]
    OBVIOUS
  <2>1. k \notin K
    BY <1>3, <1>4
  <2> QED
    BY <1>5, <2>1, SilenceEffect
<1>7. /\ Len(pay') = Len(pay) /\ \A q \in 1..Len(pay) : q # p => pay'[q] = pay[q]
      /\ \A q \in 1..Len(pay) : pay'[q].kind = pay[q].kind
  BY <1>1 DEF PayChanged
<1>8. /\ Len(used') = Len(used)
      /\ \A u \in 1..Len(used) :
            /\ used'[u].credit = used[u].credit /\ used'[u].due = used[u].due
            /\ used'[u].payer = used[u].payer /\ (used'[u].live => used[u].live)
  BY <1>3, <1>5, RetiredType
<1>9. Issued' \subseteq Issued /\ p \notin Issued'
  BY <1>1, <1>7 DEF Issued
<1>10. \A q \in 1..Len(pay') : pay'[q].kind = "CREDIT_ISSUE" => pay'[q].status # "PROCESSING"
  <2>1. pay'[p].status = "PROCESSING" => pay[p].status = "PROCESSING"
    BY UndoProcesses
  <2> QED
    BY <1>1, <1>7, <2>1 DEF SoundInv
<1>11. /\ \A k \in PaymentIds \X Dues : k[1] \in Issued' => alloc'[k] = alloc[k]
       /\ \A k \in PaymentIds \X Dues : k[1] > Len(pay') => alloc'[k].amount = alloc[k].amount
  <2>1. \A k \in PaymentIds \X Dues : k[1] > Len(pay') => k[1] # p
    BY <1>1, <1>7, TypeFacts
  <2> QED
    BY <1>6, <1>9, <2>1
<1>12. /\ Len(pay') \in Nat /\ Len(pay) <= Len(pay') /\ Len(credit') = Len(credit)
       /\ \A c \in 1..Len(credit) : credit'[c].source = credit[c].source
  BY <1>5, <1>7, TypeFacts
<1> HIDE <1>5
<1> QED
  BY <1>8, <1>9, <1>10, <1>11, <1>12, SoundFrame

LEMMA SoundVoid ==
    ASSUME TypeInv, BackedInv, SoundInv, NEW c, VoidCredit(c)
    PROVE  SoundInv'
<1>1. PICK s \in 1..Len(pay) : s = credit[c].source /\ c \in 1..Len(credit)
  BY VoidPays
<1>2. StatusSet(s, "REFUNDED")
  BY <1>1, VoidPays, BackedFacts
<1>3. /\ Len(pay') = Len(pay) /\ \A q \in 1..Len(pay) : q # s => pay'[q] = pay[q]
      /\ \A q \in 1..Len(pay) : pay'[q].kind = pay[q].kind
      /\ pay'[s].status = "REFUNDED"
  BY <1>2 DEF StatusSet, PayChanged
<1>4. PICK U : U = UsesOf(c)
  OBVIOUS
<1>5. PICK K : K = {k \in PaymentIds \X Dues : \E u \in U : k = RowOf(u)}
  OBVIOUS
<1>6. /\ alloc' = Silenced(alloc, K) /\ used' = Retired(U) /\ Len(credit') = Len(credit)
      /\ \A d \in 1..Len(credit) : credit'[d].source = credit[d].source
  BY <1>4, <1>5, VoidEffect DEF Voided
<1>7. \A k \in PaymentIds \X Dues : k[1] # s => alloc'[k] = alloc[k]
  <2> SUFFICES ASSUME NEW k \in PaymentIds \X Dues, k[1] # s PROVE alloc'[k] = alloc[k]
    OBVIOUS
  <2>1. ASSUME NEW u \in U PROVE k # RowOf(u)
    <3>1. credit[used[u].credit].source = s
      BY <1>1, <1>4 DEF UsesOf
    <3> QED
      BY <3>1 DEF RowOf
  <2>2. k \notin K
    BY <1>5, <2>1
  <2> QED
    BY <1>6, <2>2, SilenceEffect
<1>8. /\ Len(used') = Len(used)
      /\ \A u \in 1..Len(used) :
            /\ used'[u].credit = used[u].credit /\ used'[u].due = used[u].due
            /\ used'[u].payer = used[u].payer /\ (used'[u].live => used[u].live)
  <2>1. /\ Len(used') = Len(used)
        /\ \A u \in 1..Len(used) :
              /\ used'[u].credit = used[u].credit /\ used'[u].due = used[u].due
              /\ used'[u].payer = used[u].payer
              /\ u \in U => used'[u].live = FALSE
              /\ u \notin U => used'[u] = used[u]
    BY <1>6, RetiredType
  <2> QED
    BY <2>1
<1>9. Issued' \subseteq Issued /\ s \notin Issued'
  BY <1>3 DEF Issued
<1>10. \A q \in 1..Len(pay') : pay'[q].kind = "CREDIT_ISSUE" => pay'[q].status # "PROCESSING"
  BY <1>3 DEF SoundInv
<1>11. /\ \A k \in PaymentIds \X Dues : k[1] \in Issued' => alloc'[k] = alloc[k]
       /\ \A k \in PaymentIds \X Dues : k[1] > Len(pay') => alloc'[k].amount = alloc[k].amount
  <2>1. \A k \in PaymentIds \X Dues : k[1] > Len(pay') => k[1] # s
    BY <1>3, TypeFacts
  <2> QED
    BY <1>7, <1>9, <2>1
<1>12. /\ Len(pay') \in Nat /\ Len(pay) <= Len(pay') /\ Len(credit') = Len(credit)
       /\ \A d \in 1..Len(credit) : credit'[d].source = credit[d].source
  BY <1>3, <1>6, TypeFacts
<1> HIDE <1>6
<1> QED
  BY <1>8, <1>9, <1>10, <1>11, <1>12, SoundFrame

LEMMA SoundIssue ==
    ASSUME TypeInv, SoundInv, NEW n \in CreditAmounts, IssueCredit(n)
    PROVE  SoundInv'
<1>1. PICK m, x, y \in Nat : m = Len(pay) /\ x = Len(credit) /\ y = n
  BY TypeFacts, ConstantFacts
<1>2. /\ "CREDIT_ISSUE" \in PayKind /\ "VERIFIED" \in PayStatus /\ m < MaxPayments
      /\ pay' = Append(pay, NewRow("CREDIT_ISSUE", y, "VERIFIED"))
      /\ alloc' = alloc /\ used' = used
      /\ credit' = Append(credit, [source |-> m + 1, balance |-> y, granted |-> y])
  BY <1>1, IssueEffect DEF PayKind, PayStatus
<1>3. /\ Len(pay') = m + 1 /\ \A q \in 1..m : pay'[q] = pay[q]
      /\ pay'[m + 1] = NewRow("CREDIT_ISSUE", y, "VERIFIED")
  BY <1>1, <1>2, AppendEffect
<1>4. pay'[m + 1].status = "VERIFIED"
  BY <1>3 DEF NewRow
<1>5. \A c \in 1..x : credit'[c] = credit[c] /\ credit[c].source \in 1..m
  <2>1. PICK r : r = [source |-> m + 1, balance |-> y, granted |-> y]
    OBVIOUS
  <2> QED
    BY <1>1, <1>2, <2>1, TypeFacts
<1>6. \A p \in 1..(m + 1) : p \in 1..m \/ p = m + 1
  OBVIOUS
<1>7. \A p \in Issued' : p \in Issued \/ p = m + 1
  BY <1>1, <1>3, <1>6 DEF Issued
<1>8. \A k \in PaymentIds \X Dues : k[1] = m + 1 => alloc[k].amount = 0
  BY <1>1 DEF SoundInv
<1>9. ASSUME NEW k \in PaymentIds \X Dues, k[1] \in Issued', alloc'[k].amount > 0
      PROVE  alloc'[k].live
  BY <1>2, <1>7, <1>8, <1>9, SoundFacts
<1>10. ASSUME NEW u \in 1..Len(used'), NEW k \in PaymentIds \X Dues, used'[u].live,
              k[2] = used'[u].due, k[1] = credit'[used'[u].credit].source, k[1] \in Issued'
       PROVE  alloc'[k].live
  <2>1. u \in 1..Len(used) /\ used[u].credit \in 1..x
    BY <1>1, <1>2, <1>10, TypeFacts
  <2>2. k[1] = credit[used[u].credit].source /\ k[1] \in 1..m
    BY <1>2, <1>5, <1>10, <2>1
  <2>3. k[1] \in Issued
    BY <1>7, <1>10, <2>2
  <2> QED
    BY <1>2, <1>10, <2>1, <2>2, <2>3, SoundFacts
<1>11. Sound(Book', Issued')
  BY <1>9, <1>10, NextBookFacts DEF Sound
<1>12. \A u \in 1..Len(used') : used'[u].payer = NoOne
  BY <1>2 DEF SoundInv
<1>13. \A p \in 1..Len(pay') : pay'[p].kind = "CREDIT_ISSUE" => pay'[p].status # "PROCESSING"
  BY <1>1, <1>3, <1>4, <1>6 DEF SoundInv
<1>14. \A k \in PaymentIds \X Dues : k[1] > Len(pay') => alloc'[k].amount = 0
  <2>1. \A k \in PaymentIds \X Dues : k[1] > m + 1 => k[1] > m
    BY ConstantFacts
  <2> QED
    BY <1>1, <1>2, <1>3, <2>1 DEF SoundInv
<1> QED
  BY <1>11, <1>12, <1>13, <1>14 DEF SoundInv

LEMMA SoundStep ==
    ASSUME TypeInv, BackedInv, SoundInv, ~ApplyCredit, ~Advances, Next
    PROVE  SoundInv'
<1>1. ASSUME pay' = pay, alloc' = alloc, used' = used, Len(credit') = Len(credit),
             \A c \in 1..Len(credit) : credit'[c].source = credit[c].source
      PROVE  SoundInv'
  <2>1. Issued' = Issued
    BY <1>1 DEF Issued
  <2>2. Len(pay') \in Nat /\ Len(pay) <= Len(pay')
    BY <1>1, TypeFacts
  <2>3. \A p \in 1..Len(pay') : pay'[p].kind = "CREDIT_ISSUE" => pay'[p].status # "PROCESSING"
    BY <1>1 DEF SoundInv
  <2> QED
    BY <1>1, <2>1, <2>2, <2>3, SoundFrame
<1>2. ASSUME NEW c, NEW n \in CreditAmounts, AdjustCredit(c, n) PROVE SoundInv'
  BY <1>1, <1>2, AdjustEffect
<1>3. ASSUME Untouched PROVE SoundInv'
  BY <1>1, <1>3 DEF Untouched
<1>4. ~SettleByCredit
  BY DEF SettleByCredit
<1>5. \A p : ~(HasStatus(p, {"PENDING_VERIFICATION"}) /\ VerifyAdvance(p))
  BY DEF HasStatus, Live, VerifyAdvance, BackedInv
<1> QED
  BY <1>2, <1>3, <1>4, <1>5, SoundRecord, SoundApply, SoundUpdate, SoundVerify, SoundUndo,
     SoundVoid, SoundIssue, Cases

\* As long as residents neither apply credit to a payment nor pay in advance,
\* credit that officers applied counts towards its assessment until it is
\* given back or its source is undone (household-credit.service.ts:38-42).
\* LedgerLostCredit shows that applying credit to payments breaks it.
THEOREM AppliedCreditCounts ==
    ASSUME ~ApplyCredit, ~Advances
    PROVE  Spec => []SpentCreditCounts
<1>1. Init => BackedInv /\ PaidInv
  BY MatchInit
<1>2. TypeInv /\ BackedInv /\ PaidInv /\ [Next]_vars => BackedInv' /\ PaidInv'
  BY MatchSteps
<1>3. Init => SoundInv
  <2> SUFFICES ASSUME Init PROVE SoundInv
    OBVIOUS
  <2>1. /\ Len(pay) = 0 /\ Len(used) = 0
        /\ \A k \in PaymentIds \X Dues : alloc[k].amount = 0
    BY DEF Init
  <2> QED
    BY <2>1 DEF SoundInv, Sound, Book
<1>4. TypeInv /\ BackedInv /\ SoundInv /\ [Next]_vars => SoundInv'
  <2> SUFFICES ASSUME TypeInv, BackedInv, SoundInv, [Next]_vars PROVE SoundInv'
    OBVIOUS
  <2>1. CASE Next
    BY <2>1, SoundStep
  <2>2. CASE UNCHANGED vars
    BY <2>2 DEF vars, SoundInv, Sound, Book, Issued
  <2> QED
    BY <2>1, <2>2
<1>5. TypeInv /\ BackedInv /\ SoundInv => SpentCreditCounts
  <2> SUFFICES ASSUME TypeInv, BackedInv, SoundInv PROVE SpentCreditCounts
    OBVIOUS
  <2>1. ASSUME NEW u \in 1..Len(used), used[u].live,
               HasStatus(credit[used[u].credit].source, {"VERIFIED"})
        PROVE  alloc[<<credit[used[u].credit].source, used[u].due>>].live
    <3>1. PICK k \in PaymentIds \X Dues : k = RowOf(u)
      BY RowOfType
    <3>2. k[1] = credit[used[u].credit].source /\ k[2] = used[u].due
      BY <3>1 DEF RowOf
    <3>3. k[1] \in Issued
      <4>1. used[u].credit \in 1..Len(credit)
        BY TypeFacts
      <4> QED
        BY <2>1, <3>2, <4>1, BackedFacts DEF Issued, HasStatus, Live
    <3>4. alloc[k].live
      BY <2>1, <3>2, <3>3, SoundFacts
    <3> QED
      BY <3>1, <3>4 DEF RowOf
  <2> QED
    BY <2>1, Zenon DEF SpentCreditCounts
<1> QED
  BY <1>1, <1>2, <1>3, <1>4, <1>5, TypeAlways, PTL DEF Spec
=============================================================================
