----------------------------- MODULE SumTheorems -----------------------------
(***************************************************************************)
(* Sums of the values of a function over a finite set                      *)
(* (SumFunctionOnSet of module Functions).                                 *)
(*                                                                         *)
(* The operator is a fold, defined by recursion over the subsets of the    *)
(* set.  The library's theorems on such definitions take an operator as a  *)
(* parameter and cannot be used, so the recursion is solved here by a      *)
(* closed form: the sum of f over S counts the pairs <<x, k>>, x in S and  *)
(* k in 1..f[x], less those of the negative values.  That the fold is this *)
(* count follows by taking a smallest set for which it is not (WFMin).     *)
(***************************************************************************)
EXTENDS Functions, FiniteSetTheorems, TLAPS

\* The pairs that a sum of natural numbers counts.
Heap(f, S) == UNION {{x} \X (1..f[x]) : x \in S}

Negated(f, S) == [x \in S |-> -f[x]]

CountedSum(f, S) == Cardinality(Heap(f, S)) - Cardinality(Heap(Negated(f, S), S))

\* The heap of a finite set is finite.
LEMMA HeapFinite ==
  ASSUME NEW S, IsFiniteSet(S), NEW f, \A x \in S : f[x] \in Int
  PROVE  IsFiniteSet(Heap(f, S))
<1> DEFINE pile == [x \in S |-> {x} \X (1..f[x])]
           Piles == {{x} \X (1..f[x]) : x \in S}
<1>1. pile \in Surjection(S, Piles)
  BY DEF Surjection
<1>2. IsFiniteSet(Piles)
  BY <1>1, FS_Surjection
<1>3. ASSUME NEW x \in S PROVE IsFiniteSet({x} \X (1..f[x]))
  <2>1. IsFiniteSet({x})
    BY FS_Singleton
  <2>2. IsFiniteSet(1..f[x])
    BY FS_Interval
  <2>3. QED BY <2>1, <2>2, FS_Product
<1>4. \A P \in Piles : IsFiniteSet(P)
  BY <1>3
<1>5. QED BY <1>2, <1>4, FS_UNION DEF Heap

\* An element adds its own pairs to the heap.
LEMMA HeapSplit ==
  ASSUME NEW S, IsFiniteSet(S), NEW f, \A x \in S : f[x] \in Int, NEW x \in S
  PROVE  Cardinality(Heap(f, S))
           = (IF f[x] > 0 THEN f[x] ELSE 0) + Cardinality(Heap(f, S \ {x}))
<1> DEFINE own == {x} \X (1..f[x])
           rest == Heap(f, S \ {x})
<1>1. Heap(f, S) = own \cup rest
  BY DEF Heap
<1>2. own \cap rest = {}
  BY DEF Heap
<1>3. IsFiniteSet(S \ {x})
  BY FS_RemoveElement
<1>4. IsFiniteSet(rest)
  BY <1>3, HeapFinite
<1>5. IsFiniteSet(1..f[x]) /\ Cardinality(1..f[x]) = IF 1 > f[x] THEN 0 ELSE f[x] - 1 + 1
  BY FS_Interval
<1>6. IsFiniteSet({x}) /\ Cardinality({x}) = 1
  BY FS_Singleton
<1>7. IsFiniteSet(own) /\ Cardinality(own) = Cardinality({x}) * Cardinality(1..f[x])
  BY <1>5, <1>6, FS_Product
<1>8. Cardinality(own) = IF f[x] > 0 THEN f[x] ELSE 0
  BY <1>5, <1>6, <1>7
<1>9. Cardinality(own \cup rest)
        = Cardinality(own) + Cardinality(rest) - Cardinality(own \cap rest)
  BY <1>4, <1>7, FS_Union
<1>10. Cardinality({}) = 0 /\ Cardinality(rest) \in Nat
  BY <1>4, FS_EmptySet, FS_CardinalityType
<1> HIDE DEF own, rest
<1>11. Cardinality(Heap(f, S)) = Cardinality(own) + Cardinality(rest)
  <2>1. Cardinality(own \cap rest) = 0
    BY <1>2, <1>10
  <2>2. Cardinality(own) \in Nat
    BY <1>7, FS_CardinalityType
  <2>3. QED BY <1>1, <1>9, <1>10, <2>1, <2>2
<1>12. QED BY <1>8, <1>11 DEF rest

LEMMA HeapEmpty == ASSUME NEW f PROVE Heap(f, {}) = {}
BY DEF Heap

LEMMA HeapLocal ==
  ASSUME NEW S, NEW f, NEW g, \A x \in S : f[x] = g[x]
  PROVE  Heap(f, S) = Heap(g, S)
BY DEF Heap

LEMMA CountedType ==
  ASSUME NEW S, IsFiniteSet(S), NEW f, \A x \in S : f[x] \in Int
  PROVE  CountedSum(f, S) \in Int
<1>1. \A x \in S : Negated(f, S)[x] \in Int
  BY DEF Negated
<1>2. Cardinality(Heap(f, S)) \in Nat /\ Cardinality(Heap(Negated(f, S), S)) \in Nat
  BY <1>1, HeapFinite, FS_CardinalityType
<1>3. QED BY <1>2 DEF CountedSum

LEMMA CountedEmpty == ASSUME NEW f PROVE CountedSum(f, {}) = 0
BY HeapEmpty, FS_EmptySet DEF CountedSum

LEMMA CountedSplit ==
  ASSUME NEW S, IsFiniteSet(S), NEW f, \A x \in S : f[x] \in Int, NEW x \in S
  PROVE  CountedSum(f, S) = f[x] + CountedSum(f, S \ {x})
<1> DEFINE g == Negated(f, S)
           T == S \ {x}
<1>1. \A y \in S : g[y] \in Int /\ g[y] = -f[y]
  BY DEF Negated
<1>2. IsFiniteSet(T) /\ (\A y \in T : f[y] \in Int /\ g[y] \in Int)
  BY <1>1, FS_RemoveElement
<1>3. \A y \in T : g[y] = Negated(f, T)[y]
  BY <1>1 DEF Negated
<1>4. Heap(g, T) = Heap(Negated(f, T), T)
  BY <1>3, HeapLocal
<1> HIDE DEF g, T
<1>5. Cardinality(Heap(f, S)) = (IF f[x] > 0 THEN f[x] ELSE 0) + Cardinality(Heap(f, T))
  BY HeapSplit DEF T
<1>6. Cardinality(Heap(g, S)) = (IF g[x] > 0 THEN g[x] ELSE 0) + Cardinality(Heap(g, T))
  BY <1>1, HeapSplit DEF T
<1>7. Cardinality(Heap(f, T)) \in Nat /\ Cardinality(Heap(g, T)) \in Nat
  BY <1>2, HeapFinite, FS_CardinalityType
<1>8. f[x] \in Int /\ g[x] = -f[x]
  BY <1>1
<1>9. CountedSum(f, S) = Cardinality(Heap(f, S)) - Cardinality(Heap(g, S))
  BY DEF CountedSum, g
<1>10. CountedSum(f, T) = Cardinality(Heap(f, T)) - Cardinality(Heap(g, T))
  BY <1>4 DEF CountedSum
<1>11. QED BY <1>5, <1>6, <1>7, <1>8, <1>9, <1>10 DEF T

------------------------------------------------------------------------------
(* The fold is the count.                                                  *)

Picked(s) == CHOOSE x \in s : TRUE

\* The equation that the fold solves.
Solves(iter, f, S) ==
  iter = [s \in SUBSET S |-> IF s = {} THEN 0 ELSE f[Picked(s)] + iter[s \ {Picked(s)}]]

LEMMA FoldIsChosen ==
  ASSUME NEW S, NEW f
  PROVE  SumFunctionOnSet(f, S) = (CHOOSE iter : Solves(iter, f, S))[S]
BY DEF SumFunctionOnSet, FoldFunctionOnSet, MapThenFoldSet, Solves, Picked

LEMMA CountSolves ==
  ASSUME NEW S, IsFiniteSet(S), NEW f, \A x \in S : f[x] \in Int
  PROVE  Solves([s \in SUBSET S |-> CountedSum(f, s)], f, S)
<1> DEFINE count == [s \in SUBSET S |-> CountedSum(f, s)]
<1>1. SUFFICES ASSUME NEW s \in SUBSET S
               PROVE  CountedSum(f, s) = IF s = {} THEN 0
                                      ELSE f[Picked(s)] + count[s \ {Picked(s)}]
  BY DEF Solves
<1>2. CASE s = {}
  BY <1>2, CountedEmpty
<1>3. CASE s # {}
  <2>1. Picked(s) \in s
    BY <1>3 DEF Picked
  <2>2. IsFiniteSet(s) /\ \A x \in s : f[x] \in Int
    BY FS_Subset
  <2>3. CountedSum(f, s) = f[Picked(s)] + CountedSum(f, s \ {Picked(s)})
    BY <2>1, <2>2, CountedSplit
  <2>4. QED BY <1>3, <2>3
<1>4. QED BY <1>2, <1>3

\* Any two solutions agree: a smallest set on which they differ has none of its own.
LEMMA SolutionIsUnique ==
  ASSUME NEW S, IsFiniteSet(S), NEW f, NEW g, NEW h, Solves(g, f, S), Solves(h, f, S)
  PROVE  g[S] = h[S]
<1> DEFINE Differ == {s \in SUBSET S : g[s] # h[s]}
<1>1. SUFFICES ASSUME Differ # {} PROVE FALSE
  OBVIOUS
<1>2. IsWellFoundedOn(StrictSubsetOrdering(S), SUBSET S)
  BY FS_StrictSubsetOrderingWellFounded, FS_FiniteSubsetsOfFinite
<1>3. PICK s \in Differ : \A r \in Differ : <<r, s>> \notin StrictSubsetOrdering(S)
  <2>1. Differ \subseteq SUBSET S
    OBVIOUS
  <2> HIDE DEF Differ
  <2>2. QED BY <1>1, <1>2, <2>1, WFMin
<1>4. s # {}
  BY <1>3 DEF Solves
<1>5. Picked(s) \in s
  BY <1>4 DEF Picked
<1> DEFINE r == s \ {Picked(s)}
<1>6. r \in SUBSET S /\ <<r, s>> \in StrictSubsetOrdering(S)
  BY <1>5 DEF StrictSubsetOrdering
<1>7. g[r] = h[r]
  BY <1>3, <1>6
<1>8. g[s] = f[Picked(s)] + g[r] /\ h[s] = f[Picked(s)] + h[r]
  BY <1>4 DEF Solves
<1>9. QED BY <1>3, <1>7, <1>8

LEMMA SumIsCounted ==
  ASSUME NEW S, IsFiniteSet(S), NEW f, \A x \in S : f[x] \in Int
  PROVE  SumFunctionOnSet(f, S) = CountedSum(f, S)
<1> DEFINE count == [s \in SUBSET S |-> CountedSum(f, s)]
           fold == CHOOSE iter : Solves(iter, f, S)
<1>1. Solves(count, f, S)
  BY CountSolves
<1> HIDE DEF count
<1>2. Solves(fold, f, S)
  BY <1>1
<1> HIDE DEF fold
<1>3. fold[S] = count[S]
  BY <1>1, <1>2, SolutionIsUnique
<1>4. QED BY <1>3, FoldIsChosen DEF fold, count

------------------------------------------------------------------------------
(* What the other modules use.                                             *)

LEMMA SumType ==
  ASSUME NEW S, IsFiniteSet(S), NEW f, \A x \in S : f[x] \in Int
  PROVE  SumFunctionOnSet(f, S) \in Int
BY SumIsCounted, CountedType

LEMMA SumEmpty ==
  ASSUME NEW f
  PROVE  SumFunctionOnSet(f, {}) = 0
BY SumIsCounted, CountedEmpty, FS_EmptySet

\* A sum is any one of its terms and the sum of the others.
THEOREM SumSplit ==
  ASSUME NEW S, IsFiniteSet(S), NEW f, \A x \in S : f[x] \in Int, NEW x \in S
  PROVE  SumFunctionOnSet(f, S) = f[x] + SumFunctionOnSet(f, S \ {x})
<1>1. IsFiniteSet(S \ {x})
  BY FS_RemoveElement
<1>2. QED BY <1>1, SumIsCounted, CountedSplit

LEMMA SumAddElement ==
  ASSUME NEW S, IsFiniteSet(S), NEW x, x \notin S, NEW f, \A y \in S \cup {x} : f[y] \in Int
  PROVE  SumFunctionOnSet(f, S \cup {x}) = SumFunctionOnSet(f, S) + f[x]
<1>1. IsFiniteSet(S \cup {x}) /\ x \in S \cup {x} /\ (S \cup {x}) \ {x} = S
  BY FS_AddElement
<1>2. SumFunctionOnSet(f, S \cup {x}) = f[x] + SumFunctionOnSet(f, S)
  BY <1>1, SumSplit
<1>3. QED BY <1>2, SumType

\* Only the values on the set count.
LEMMA SumSame ==
  ASSUME NEW S, IsFiniteSet(S), NEW f, NEW g, \A x \in S : f[x] \in Int /\ g[x] = f[x]
  PROVE  SumFunctionOnSet(f, S) = SumFunctionOnSet(g, S)
<1>1. SumFunctionOnSet(f, S) = CountedSum(f, S) /\ SumFunctionOnSet(g, S) = CountedSum(g, S)
  BY SumIsCounted
<1>2. Heap(f, S) = Heap(g, S)
  BY HeapLocal
<1>3. Negated(f, S) = Negated(g, S)
  BY DEF Negated
<1>4. QED BY <1>1, <1>2, <1>3 DEF CountedSum

\* A change of one term changes the sum by as much.
LEMMA SumChange ==
  ASSUME NEW S, IsFiniteSet(S), NEW f, NEW g, NEW x \in S,
         \A y \in S : f[y] \in Int /\ g[y] \in Int,
         \A y \in S \ {x} : g[y] = f[y]
  PROVE  SumFunctionOnSet(g, S) = SumFunctionOnSet(f, S) - f[x] + g[x]
<1> DEFINE T == S \ {x}
<1>1. IsFiniteSet(T)
  BY FS_RemoveElement
<1>2. SumFunctionOnSet(f, T) = SumFunctionOnSet(g, T)
  BY <1>1, SumSame
<1>3. SumFunctionOnSet(f, S) = f[x] + SumFunctionOnSet(f, T)
  BY SumSplit
<1>4. SumFunctionOnSet(g, S) = g[x] + SumFunctionOnSet(g, T)
  BY SumSplit
<1>5. SumFunctionOnSet(f, T) \in Int
  BY <1>1, SumType
<1>6. QED BY <1>2, <1>3, <1>4, <1>5

\* What holds of no smallest counterexample holds of every finite set: the form in which
\* the lemmas below use induction.
LEMMA SmallestSubset ==
  ASSUME NEW S, IsFiniteSet(S), NEW B \in SUBSET (SUBSET S), B # {}
  PROVE  \E s \in B : \A x \in s : s \ {x} \notin B
<1>1. IsWellFoundedOn(StrictSubsetOrdering(S), SUBSET S)
  BY FS_StrictSubsetOrderingWellFounded, FS_FiniteSubsetsOfFinite
<1>2. PICK s \in B : \A r \in B : <<r, s>> \notin StrictSubsetOrdering(S)
  BY <1>1, WFMin
<1>3. ASSUME NEW x \in s, s \ {x} \in B PROVE FALSE
  <2>1. <<s \ {x}, s>> \in StrictSubsetOrdering(S)
    BY DEF StrictSubsetOrdering
  <2>2. QED BY <1>2, <1>3, <2>1
<1>4. QED BY <1>3

\* The sum of sums is the sum.
LEMMA SumOfSums ==
  ASSUME NEW S, IsFiniteSet(S), NEW f, NEW g, NEW h,
         \A x \in S : f[x] \in Int /\ g[x] \in Int /\ h[x] = f[x] + g[x]
  PROVE  SumFunctionOnSet(h, S) = SumFunctionOnSet(f, S) + SumFunctionOnSet(g, S)
<1> DEFINE Wrong == {s \in SUBSET S : SumFunctionOnSet(h, s)
                                       # SumFunctionOnSet(f, s) + SumFunctionOnSet(g, s)}
<1>1. SUFFICES ASSUME Wrong # {} PROVE FALSE
  OBVIOUS
<1>2. PICK s \in Wrong : \A x \in s : s \ {x} \notin Wrong
  <2>1. Wrong \in SUBSET (SUBSET S)
    OBVIOUS
  <2> HIDE DEF Wrong
  <2>2. QED BY <1>1, <2>1, SmallestSubset
<1>3. IsFiniteSet(s)
  BY FS_Subset
<1>4. s # {}
  <2>1. SumFunctionOnSet(f, {}) = 0 /\ SumFunctionOnSet(g, {}) = 0 /\ SumFunctionOnSet(h, {}) = 0
    BY SumEmpty
  <2>2. {} \notin Wrong
    BY <2>1
  <2>3. QED BY <1>2, <2>2
<1>5. PICK x \in s : TRUE
  BY <1>4
<1> DEFINE r == s \ {x}
<1>6. IsFiniteSet(r) /\ r \in SUBSET S
  BY <1>3, FS_RemoveElement
<1>7. SumFunctionOnSet(h, r) = SumFunctionOnSet(f, r) + SumFunctionOnSet(g, r)
  BY <1>2, <1>6
<1>8. /\ SumFunctionOnSet(f, s) = f[x] + SumFunctionOnSet(f, r)
      /\ SumFunctionOnSet(g, s) = g[x] + SumFunctionOnSet(g, r)
      /\ SumFunctionOnSet(h, s) = h[x] + SumFunctionOnSet(h, r)
  BY <1>3, SumSplit
<1>9. SumFunctionOnSet(f, r) \in Int /\ SumFunctionOnSet(g, r) \in Int
  BY <1>6, SumType
<1>10. f[x] \in Int /\ g[x] \in Int /\ h[x] = f[x] + g[x]
  OBVIOUS
<1>11. SumFunctionOnSet(h, s) = SumFunctionOnSet(f, s) + SumFunctionOnSet(g, s)
  BY <1>7, <1>8, <1>9, <1>10
<1>12. QED BY <1>2, <1>11

\* A sum of natural numbers is one.
LEMMA SumNatural ==
  ASSUME NEW S, IsFiniteSet(S), NEW f, \A x \in S : f[x] \in Nat
  PROVE  SumFunctionOnSet(f, S) \in Nat
<1>1. Heap(Negated(f, S), S) = {}
  BY DEF Heap, Negated
<1>2. Cardinality(Heap(f, S)) \in Nat
  BY HeapFinite, FS_CardinalityType
<1>3. CountedSum(f, S) = Cardinality(Heap(f, S)) - 0
  BY <1>1, FS_EmptySet DEF CountedSum
<1>4. QED BY <1>2, <1>3, SumIsCounted

\* Terms that are zero may be left out.
LEMMA SumWithoutZeros ==
  ASSUME NEW S, IsFiniteSet(S), NEW T \in SUBSET S, NEW f,
         \A x \in S : f[x] \in Int, \A x \in S \ T : f[x] = 0
  PROVE  SumFunctionOnSet(f, S) = SumFunctionOnSet(f, T)
<1>1. IsFiniteSet(T)
  BY FS_Subset
<1>2. Heap(f, S) = Heap(f, T)
  BY DEF Heap
<1>3. Heap(Negated(f, S), S) = Heap(Negated(f, T), T)
  BY DEF Heap, Negated
<1>4. QED BY <1>1, <1>2, <1>3, SumIsCounted DEF CountedSum
\* The sum over two sets that share no element.
LEMMA SumDisjoint ==
  ASSUME NEW S, IsFiniteSet(S), NEW T, IsFiniteSet(T), S \cap T = {}, NEW f,
         \A x \in S \cup T : f[x] \in Int
  PROVE  SumFunctionOnSet(f, S \cup T) = SumFunctionOnSet(f, S) + SumFunctionOnSet(f, T)
<1> DEFINE g == Negated(f, S \cup T)
<1>1. \A x \in S \cup T : g[x] \in Int
  BY DEF Negated
<1>2. ASSUME NEW h, \A x \in S \cup T : h[x] \in Int
      PROVE  /\ Cardinality(Heap(h, S \cup T)) = Cardinality(Heap(h, S)) + Cardinality(Heap(h, T))
             /\ Cardinality(Heap(h, S)) \in Nat /\ Cardinality(Heap(h, T)) \in Nat
  <2>1. Heap(h, S \cup T) = Heap(h, S) \cup Heap(h, T) /\ Heap(h, S) \cap Heap(h, T) = {}
    BY DEF Heap
  <2>2. IsFiniteSet(Heap(h, S)) /\ IsFiniteSet(Heap(h, T))
    BY <1>2, HeapFinite
  <2>3. Cardinality(Heap(h, S)) \in Nat /\ Cardinality(Heap(h, T)) \in Nat
    BY <2>2, FS_CardinalityType
  <2>4. Cardinality(Heap(h, S) \cup Heap(h, T))
          = Cardinality(Heap(h, S)) + Cardinality(Heap(h, T)) - Cardinality(Heap(h, S) \cap Heap(h, T))
    BY <2>2, FS_Union
  <2>5. Cardinality(Heap(h, S) \cap Heap(h, T)) = 0
    BY <2>1, FS_EmptySet
  <2>6. Cardinality(Heap(h, S \cup T)) = Cardinality(Heap(h, S) \cup Heap(h, T))
    BY <2>1
  <2>7. QED BY <2>3, <2>4, <2>5, <2>6
<1>3. Heap(g, S) = Heap(Negated(f, S), S) /\ Heap(g, T) = Heap(Negated(f, T), T)
  BY DEF Heap, Negated
<1>4. IsFiniteSet(S \cup T)
  BY FS_Union
<1>5. /\ SumFunctionOnSet(f, S \cup T) = Cardinality(Heap(f, S \cup T)) - Cardinality(Heap(g, S \cup T))
      /\ SumFunctionOnSet(f, S) = Cardinality(Heap(f, S)) - Cardinality(Heap(g, S))
      /\ SumFunctionOnSet(f, T) = Cardinality(Heap(f, T)) - Cardinality(Heap(g, T))
  BY <1>3, <1>4, SumIsCounted DEF CountedSum
<1> HIDE DEF g
<1>6. /\ Cardinality(Heap(f, S \cup T)) = Cardinality(Heap(f, S)) + Cardinality(Heap(f, T))
      /\ Cardinality(Heap(g, S \cup T)) = Cardinality(Heap(g, S)) + Cardinality(Heap(g, T))
      /\ Cardinality(Heap(f, S)) \in Nat /\ Cardinality(Heap(f, T)) \in Nat
      /\ Cardinality(Heap(g, S)) \in Nat /\ Cardinality(Heap(g, T)) \in Nat
  BY <1>1, <1>2
<1>7. QED BY <1>5, <1>6

LEMMA RowFinite ==
  ASSUME NEW x, NEW T, IsFiniteSet(T)
  PROVE  IsFiniteSet({x} \X T)
BY FS_Singleton, FS_Product

\* A table S \X T, a row of it, and what it means that g lists a row, or sums the rows.
RowCells(x, T) == {x} \X T
TableCells(S, T) == S \X T
RowOf(g, f, x, T) ==
  IsFiniteSet(T) /\ \A y \in T : f[<<x, y>>] \in Int /\ g[y] = f[<<x, y>>]
RowsOf(g, f, S, T) ==
  /\ IsFiniteSet(S) /\ IsFiniteSet(T)
  /\ \A p \in TableCells(S, T) : f[p] \in Int
  /\ \A x \in S : g[x] = SumFunctionOnSet(f, RowCells(x, T))

\* A row of a table is summed along its second index.
LEMMA SumRow ==
  ASSUME NEW g, NEW f, NEW x, NEW T, RowOf(g, f, x, T)
  PROVE  SumFunctionOnSet(f, RowCells(x, T)) = SumFunctionOnSet(g, T)
<1>0. IsFiniteSet(T) /\ \A y \in T : f[<<x, y>>] \in Int /\ g[y] = f[<<x, y>>]
  BY DEF RowOf
<1> SUFFICES SumFunctionOnSet(f, {x} \X T) = SumFunctionOnSet(g, T)
  BY DEF RowCells
<1> DEFINE Wrong == {t \in SUBSET T : SumFunctionOnSet(f, {x} \X t) # SumFunctionOnSet(g, t)}
<1>1. SUFFICES ASSUME Wrong # {} PROVE FALSE
  OBVIOUS
<1>2. PICK t \in Wrong : \A y \in t : t \ {y} \notin Wrong
  <2>1. Wrong \in SUBSET (SUBSET T)
    OBVIOUS
  <2> HIDE DEF Wrong
  <2>2. QED BY <1>0, <1>1, <2>1, SmallestSubset
<1>3. IsFiniteSet(t) /\ t \in SUBSET T
  BY <1>0, FS_Subset
<1>4. t # {}
  <2>1. {x} \X {} = {}
    OBVIOUS
  <2>2. SumFunctionOnSet(f, {x} \X {}) = 0 /\ SumFunctionOnSet(g, {}) = 0
    BY <2>1, SumEmpty
  <2>3. QED BY <1>2, <2>2
<1>5. PICK y \in t : TRUE
  BY <1>4
<1> DEFINE r == t \ {y}
           row == {x} \X t
<1>6. SumFunctionOnSet(f, {x} \X r) = SumFunctionOnSet(g, r)
  BY <1>2, <1>3
<1>7. row \ {<<x, y>>} = {x} \X r /\ <<x, y>> \in row
  OBVIOUS
<1>8. IsFiniteSet(row) /\ \A p \in row : f[p] \in Int
  <2>1. IsFiniteSet(row)
    BY <1>3, RowFinite
  <2>2. ASSUME NEW p \in row PROVE f[p] \in Int
    <3>1. PICK z \in t : p = <<x, z>>
      OBVIOUS
    <3>2. z \in T
      BY <1>3
    <3>3. QED BY <1>0, <3>1, <3>2
  <2>3. QED BY <2>1, <2>2
<1> HIDE DEF row
<1>9. SumFunctionOnSet(f, row) = f[<<x, y>>] + SumFunctionOnSet(f, {x} \X r)
  BY <1>7, <1>8, SumSplit
<1>10. SumFunctionOnSet(g, t) = g[y] + SumFunctionOnSet(g, r)
  BY <1>0, <1>3, SumSplit
<1>11. QED BY <1>0, <1>2, <1>3, <1>6, <1>9, <1>10 DEF row

\* A table is summed row by row.
LEMMA SumTable ==
  ASSUME NEW g, NEW f, NEW S, NEW T, RowsOf(g, f, S, T)
  PROVE  SumFunctionOnSet(f, TableCells(S, T)) = SumFunctionOnSet(g, S)
<1>0. /\ IsFiniteSet(S) /\ IsFiniteSet(T)
      /\ \A p \in S \X T : f[p] \in Int
      /\ \A x \in S : g[x] = SumFunctionOnSet(f, {x} \X T)
  BY DEF RowsOf, RowCells, TableCells
<1> SUFFICES SumFunctionOnSet(f, S \X T) = SumFunctionOnSet(g, S)
  BY DEF TableCells
<1> DEFINE Wrong == {s \in SUBSET S : SumFunctionOnSet(f, s \X T) # SumFunctionOnSet(g, s)}
<1>1. SUFFICES ASSUME Wrong # {} PROVE FALSE
  OBVIOUS
<1>2. PICK s \in Wrong : \A x \in s : s \ {x} \notin Wrong
  <2>1. Wrong \in SUBSET (SUBSET S)
    OBVIOUS
  <2> HIDE DEF Wrong
  <2>2. QED BY <1>0, <1>1, <2>1, SmallestSubset
<1>3. IsFiniteSet(s) /\ s \in SUBSET S
  BY <1>0, FS_Subset
<1>4. s # {}
  <2>1. {} \X T = {}
    OBVIOUS
  <2>2. SumFunctionOnSet(f, {} \X T) = 0 /\ SumFunctionOnSet(g, {}) = 0
    BY <2>1, SumEmpty
  <2>3. QED BY <1>2, <2>2
<1>5. PICK x \in s : TRUE
  BY <1>4
<1> DEFINE r == s \ {x}
           row == {x} \X T
           rest == r \X T
<1>6. SumFunctionOnSet(f, rest) = SumFunctionOnSet(g, r)
  BY <1>2, <1>3
<1>7. row \cup rest = s \X T /\ row \cap rest = {}
  OBVIOUS
<1>8. IsFiniteSet(row) /\ IsFiniteSet(rest) /\ IsFiniteSet(r)
  BY <1>0, <1>3, RowFinite, FS_RemoveElement, FS_Product
<1>9. (\A p \in row \cup rest : f[p] \in Int) /\ g[x] = SumFunctionOnSet(f, row)
  BY <1>0, <1>3
<1>10. \A z \in s : g[z] \in Int
  <2>1. ASSUME NEW z \in s PROVE g[z] \in Int
    <3> DEFINE slice == {z} \X T
    <3>1. z \in S
      BY <1>3
    <3>2. IsFiniteSet(slice)
      BY <1>0, RowFinite
    <3>3. \A p \in slice : f[p] \in Int
      BY <1>0, <3>1
    <3>4. g[z] = SumFunctionOnSet(f, slice)
      BY <1>0, <3>1
    <3> HIDE DEF slice
    <3>5. QED BY <3>2, <3>3, <3>4, SumType
  <2>2. QED BY <2>1
<1>11. SumFunctionOnSet(g, s) = g[x] + SumFunctionOnSet(g, r)
  BY <1>3, <1>10, SumSplit
<1> HIDE DEF row, rest
<1>12. SumFunctionOnSet(f, row \cup rest) = SumFunctionOnSet(f, row) + SumFunctionOnSet(f, rest)
  BY <1>7, <1>8, <1>9, SumDisjoint
<1>13. QED BY <1>2, <1>6, <1>7, <1>9, <1>11, <1>12

=============================================================================
