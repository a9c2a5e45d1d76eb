----------------------------- MODULE FoldLemmas -----------------------------
(***************************************************************************)
(* Induction over the subsets of a finite set, and what follows for the    *)
(* folds of the community modules: that a fold exists and obeys its        *)
(* recursive equation, and how the sum of a function changes with one of   *)
(* its values.                                                             *)
(*                                                                         *)
(* The theorems of the library take the induction predicate as an          *)
(* operator. Here it is a set, so that the least element of its complement *)
(* (WFMin) is all that is needed.                                          *)
(***************************************************************************)
EXTENDS Sequences, Naturals, FiniteSetsExt, SequencesExt, FiniteSetTheorems, TLAPS

\* Induction over the numbers, with a set for the predicate: were one missing, so would
\* be the least one's predecessor.
LEMMA SetInduction ==
    ASSUME NEW T, 0 \in T, \A n \in Nat : n \in T => n + 1 \in T
    PROVE  Nat \subseteq T
<1> DEFINE R == OpToRel(<, Nat)
<1>1. \A x, y \in Nat : x < y => <<x, y>> \in R
  BY DEF OpToRel
<1>2. IsWellFoundedOn(R, Nat)
  BY NatLessThanWellFounded, Zenon
<1> HIDE DEF R
<1> DEFINE Missing == Nat \ T
<1>3. SUFFICES ASSUME Missing # {} PROVE FALSE
  OBVIOUS
<1>4. PICK x \in Missing : \A y \in Missing : <<y, x>> \notin R
  <2> HIDE DEF Missing
  <2>1. Missing \subseteq Nat
    BY DEF Missing
  <2> QED BY <1>2, <1>3, <2>1, WFMin, Zenon
<1>5. x - 1 \in Nat /\ x - 1 < x
  BY <1>4
<1>6. x - 1 \in T
  BY <1>1, <1>4, <1>5
<1> QED BY <1>4, <1>5, <1>6

\* Induction over the subsets of a finite set.
LEMMA SubsetInduction ==
    ASSUME NEW S, IsFiniteSet(S), NEW Q, {} \in Q,
           \A s \in SUBSET S : s # {} => \E x \in s : s \ {x} \in Q => s \in Q
    PROVE  \A s \in SUBSET S : s \in Q
<1> DEFINE T == {n \in Nat : \A s \in SUBSET S : Cardinality(s) = n => s \in Q}
<1>1. \A s \in SUBSET S : IsFiniteSet(s) /\ Cardinality(s) \in Nat
  BY FS_Subset, FS_CardinalityType
<1>2. 0 \in T
  BY <1>1, FS_EmptySet
<1>3. ASSUME NEW n \in Nat, n \in T PROVE n + 1 \in T
  <2>1. SUFFICES ASSUME NEW s \in SUBSET S, Cardinality(s) = n + 1 PROVE s \in Q
    OBVIOUS
  <2>2. s # {}
    BY <2>1, <1>1, FS_EmptySet
  <2>3. PICK x \in s : s \ {x} \in Q => s \in Q
    BY <2>2
  <2>4. IsFiniteSet(s)
    BY <1>1
  <2>5. Cardinality(s \ {x}) = Cardinality(s) - 1
    BY <2>4, FS_RemoveElement
  <2>6. Cardinality(s \ {x}) = n
    BY <1>1, <2>1, <2>5
  <2> QED BY <1>3, <2>3, <2>6
<1>4. Nat \subseteq T
  <2> HIDE DEF T
  <2> QED BY <1>2, <1>3, SetInduction
<1> QED BY <1>1, <1>4

\* pick chooses an element of every subset of S that is not empty.
Picks(pick, S) == \A s \in SUBSET S : s # {} => pick[s] \in s

\* f has the fold of each subset of S: of the step of the element picked and the fold of
\* the others.
IsFold(f, S, base, step, pick) ==
    /\ f[{}] = base
    /\ \A s \in SUBSET S : s # {} => f[s] = step[pick[s]][f[s \ {pick[s]}]]

\* The recursive equations of a fold over the subsets of a finite set have a solution.
LEMMA FoldExists ==
    ASSUME NEW S, IsFiniteSet(S), NEW H, NEW base \in H,
           NEW step \in [S -> [H -> H]],
           NEW pick, Picks(pick, S)
    PROVE  \E f \in [SUBSET S -> H] : IsFold(f, S, base, step, pick)
<1> USE DEF Picks, IsFold
<1> DEFINE Small(n) == {s \in SUBSET S : Cardinality(s) <= n}
           Fold(f, n) == f = [s \in Small(n) |->
                                IF s = {} THEN base ELSE step[pick[s]][f[s \ {pick[s]}]]]
           T == {n \in Nat : \E f \in [Small(n) -> H] : Fold(f, n)}
<1>1. \A s \in SUBSET S : IsFiniteSet(s) /\ Cardinality(s) \in Nat /\ (s # {} => Cardinality(s) # 0)
  BY FS_Subset, FS_CardinalityType, FS_EmptySet
<1>2. \A n \in Nat : \A s \in Small(n + 1) :
         s # {} => /\ pick[s] \in S
                   /\ s \ {pick[s]} \in Small(n)
  <2> TAKE n \in Nat
  <2> TAKE s \in Small(n + 1)
  <2> HAVE s # {}
  <2>1. pick[s] \in s
    OBVIOUS
  <2>2. Cardinality(s \ {pick[s]}) = Cardinality(s) - 1
    BY <1>1, <2>1, FS_RemoveElement
  <2> QED BY <1>1, <2>1, <2>2
<1>3. 0 \in T
  <2>1. Small(0) = {{}}
    BY <1>1, FS_EmptySet
  <2> DEFINE f == [s \in Small(0) |-> base]
  <2>2. f \in [Small(0) -> H] /\ Fold(f, 0)
    BY <2>1
  <2> HIDE DEF f, Fold, Small
  <2> QED BY <2>2
<1>4. ASSUME NEW n \in Nat, n \in T PROVE n + 1 \in T
  <2>1. PICK f \in [Small(n) -> H] : Fold(f, n)
    BY <1>4
  <2> DEFINE g == [s \in Small(n + 1) |->
                     IF s = {} THEN base ELSE step[pick[s]][f[s \ {pick[s]}]]]
  <2>2. g \in [Small(n + 1) -> H]
    BY <1>2
  <2>3. \A s \in Small(n) : s \in Small(n + 1) /\ g[s] = f[s]
    <3> TAKE s \in Small(n)
    <3>1. s \in Small(n + 1)
      BY <1>1
    <3>2. f[s] = IF s = {} THEN base ELSE step[pick[s]][f[s \ {pick[s]}]]
      BY <2>1
    <3> QED BY <3>1, <3>2
  <2>4. Fold(g, n + 1)
    <3>1. \A s \in Small(n + 1) :
             s # {} => f[s \ {pick[s]}] = g[s \ {pick[s]}]
      BY <1>2, <2>3
    <3> QED BY <3>1
  <2> HIDE DEF g, Fold, Small
  <2> QED BY <2>2, <2>4
<1>5. Nat \subseteq T
  <2> HIDE DEF T
  <2> QED BY <1>3, <1>4, SetInduction
<1>6. Cardinality(S) \in Nat /\ Small(Cardinality(S)) = SUBSET S
  BY FS_Subset, FS_CardinalityType
<1>7. Cardinality(S) \in T
  BY <1>5, <1>6
<1>8. PICK f \in [Small(Cardinality(S)) -> H] : Fold(f, Cardinality(S))
  BY <1>7
<1> QED BY <1>6, <1>8

\* What appending to a sequence adds to its elements.
LEMMA AppendAdds ==
    ASSUME NEW X, NEW s \in Seq(X), NEW x
    PROVE  ToSet(Append(s, x)) = ToSet(s) \cup {x}
<1>1. \A i \in DOMAIN s : Append(s, x)[i] = s[i]
  OBVIOUS
<1>2. Append(s, x)[Len(s) + 1] = x
  OBVIOUS
<1>3. DOMAIN Append(s, x) = DOMAIN s \cup {Len(s) + 1}
  OBVIOUS
<1> QED BY <1>1, <1>2, <1>3 DEF ToSet

\* The largest of a finite set of numbers is one of them.
LEMMA MaxIsElement ==
    ASSUME NEW n \in Nat, NEW d \in SUBSET (1..n), d # {}
    PROVE  Max(d) \in d
<1> DEFINE T == {m \in Nat : \A e \in SUBSET (1..m) :
                    e # {} => \E x \in e : \A y \in e : x >= y}
<1>1. 0 \in T
  <2>1. 1..0 = {}
    OBVIOUS
  <2> QED BY <2>1
<1>2. ASSUME NEW m \in Nat, m \in T PROVE m + 1 \in T
  <2>1. SUFFICES ASSUME NEW e \in SUBSET (1..(m + 1)), e # {}
                 PROVE  \E x \in e : \A y \in e : x >= y
    OBVIOUS
  <2>2. CASE m + 1 \in e
    <3> WITNESS m + 1 \in e
    <3> QED BY <2>1
  <2>3. CASE m + 1 \notin e
    <3>1. e \in SUBSET (1..m)
      BY <2>1, <2>3
    <3> QED BY <1>2, <2>1, <3>1
  <2> QED BY <2>2, <2>3
<1>3. n \in T
  <2> HIDE DEF T
  <2> QED BY <1>1, <1>2, SetInduction
<1>4. \E x \in d : \A y \in d : x >= y
  BY <1>3
<1> QED BY <1>4 DEF Max
-----------------------------------------------------------------------------
(* Sums of the values of a function.                                       *)

\* The fold that SumFunction is defined by.
Picked(S)   == [s \in SUBSET S |-> CHOOSE x \in s : TRUE]
Adding(d)   == [x \in DOMAIN d |-> [n \in Nat |-> d[x] + n]]

\* SumFunction is a fold.
LEMMA SumIsFold ==
    ASSUME NEW S, IsFiniteSet(S), NEW d \in [S -> Nat]
    PROVE  \E f \in [SUBSET S -> Nat] :
              IsFold(f, S, 0, Adding(d), Picked(S)) /\ SumFunction(d) = f[S]
<1> DEFINE Choice(s) == CHOOSE x \in s : TRUE
           Eq(f) == f = [s \in SUBSET S |->
                           IF s = {} THEN 0 ELSE d[Choice(s)] + f[s \ {Choice(s)}]]
           fold == CHOOSE f : Eq(f)
<1>1. SumFunction(d) = fold[S]
  BY DEF SumFunction, SumFunctionOnSet, FoldFunctionOnSet, MapThenFoldSet
<1>2. Picks(Picked(S), S)
  BY DEF Picks, Picked
<1>3. Adding(d) \in [S -> [Nat -> Nat]]
  BY DEF Adding
<1>4. PICK f \in [SUBSET S -> Nat] : IsFold(f, S, 0, Adding(d), Picked(S))
  BY <1>2, <1>3, FoldExists
<1>5. Eq(f)
  <2>1. \A s \in SUBSET S : s # {} => f[s] = d[Choice(s)] + f[s \ {Choice(s)}]
    BY <1>2, <1>4 DEF IsFold, Picks, Picked, Adding
  <2> QED BY <1>4, <2>1 DEF IsFold
<1>6. Eq(fold)
  <2> HIDE DEF Eq
  <2> QED BY <1>5
<1>7. fold \in [SUBSET S -> Nat] /\ IsFold(fold, S, 0, Adding(d), Picked(S))
  <2>1. /\ fold[{}] = 0
        /\ \A s \in SUBSET S : s # {} => fold[s] = d[Choice(s)] + fold[s \ {Choice(s)}]
    <3> HIDE DEF fold
    <3> QED BY <1>6
  <2> DEFINE Q == {s \in SUBSET S : fold[s] \in Nat}
  <2>2. fold = [s \in SUBSET S |-> fold[s]]
    <3> HIDE DEF fold
    <3> QED BY <1>6
  <2> HIDE DEF fold
  <2>3. \A s \in SUBSET S : s # {} => \E x \in s : s \ {x} \in Q => s \in Q
    <3> SUFFICES ASSUME NEW s \in SUBSET S, s # {}
                 PROVE  \E x \in s : s \ {x} \in Q => s \in Q
      OBVIOUS
    <3> DEFINE x == Choice(s)
    <3>1. x \in s
      OBVIOUS
    <3>2. fold[s] = d[x] + fold[s \ {x}]
      BY <2>1
    <3> HIDE DEF x
    <3>3. s \ {x} \in Q => s \in Q
      BY <3>1, <3>2
    <3> QED BY <3>1, <3>3
  <2>4. {} \in Q
    BY <2>1
  <2>5. \A s \in SUBSET S : s \in Q
    <3> HIDE DEF Q
    <3> QED BY <2>3, <2>4, SubsetInduction
  <2>6. fold \in [SUBSET S -> Nat]
    BY <2>2, <2>5
  <2>7. \A s \in SUBSET S : s # {} => fold[s] = Adding(d)[Picked(S)[s]][fold[s \ {Picked(S)[s]}]]
    BY <1>2, <2>1, <2>6 DEF Picks, Picked, Adding
  <2> QED BY <2>1, <2>6, <2>7 DEF IsFold
<1> QED BY <1>1, <1>7

\* A sum of natural numbers is one, and changes by what one of its terms does.
LEMMA SumChanges ==
    ASSUME NEW S, IsFiniteSet(S), NEW d \in [S -> Nat], NEW e \in [S -> Nat],
           NEW u \in S, \A v \in S \ {u} : d[v] = e[v]
    PROVE  /\ SumFunction(d) \in Nat
           /\ SumFunction(e) \in Nat
           /\ SumFunction(e) + d[u] = SumFunction(d) + e[u]
<1>1. PICK f \in [SUBSET S -> Nat] :
              IsFold(f, S, 0, Adding(d), Picked(S)) /\ SumFunction(d) = f[S]
  BY SumIsFold
<1>2. PICK g \in [SUBSET S -> Nat] :
              IsFold(g, S, 0, Adding(e), Picked(S)) /\ SumFunction(e) = g[S]
  BY SumIsFold
<1> DEFINE Q == {s \in SUBSET S : IF u \in s THEN g[s] + d[u] = f[s] + e[u] ELSE g[s] = f[s]}
<1>3. {} \in Q
  BY <1>1, <1>2 DEF IsFold
<1>4. ASSUME NEW s \in SUBSET S, s # {}
      PROVE  \E x \in s : s \ {x} \in Q => s \in Q
  <2> DEFINE x == Picked(S)[s]
             r == s \ {x}
  <2>1. x \in s
    BY <1>4 DEF Picked
  <2>2. SUFFICES ASSUME r \in Q PROVE s \in Q
    BY <2>1
  <2>3. /\ f[r] \in Nat /\ g[r] \in Nat /\ d[x] \in Nat /\ e[x] \in Nat
        /\ d[u] \in Nat /\ e[u] \in Nat
    BY <2>1
  <2>4. f[s] = d[x] + f[r] /\ g[s] = e[x] + g[r]
    BY <1>1, <1>2, <1>4, <2>1, <2>3 DEF IsFold, Adding
  <2> HIDE DEF x
  <2>5. CASE x = u
    BY <2>1, <2>2, <2>3, <2>4, <2>5
  <2>6. CASE x # u
    <3>1. d[x] = e[x]
      BY <2>1, <2>6
    <3> QED BY <2>1, <2>2, <2>3, <2>4, <2>6, <3>1
  <2> QED BY <2>5, <2>6
<1>5. S \in Q
  <2>1. \A s \in SUBSET S : s # {} => \E x \in s : s \ {x} \in Q => s \in Q
    BY <1>4
  <2> HIDE DEF Q
  <2>2. \A s \in SUBSET S : s \in Q
    BY <1>3, <2>1, SubsetInduction
  <2> QED BY <2>2
<1> QED BY <1>1, <1>2, <1>5

\* No term is more than the sum.
LEMMA SumCovers ==
    ASSUME NEW S, IsFiniteSet(S), NEW d \in [S -> Nat], NEW u \in S
    PROVE  SumFunction(d) \in Nat /\ d[u] <= SumFunction(d)
<1> DEFINE e == [d EXCEPT ![u] = 0]
<1>1. e \in [S -> Nat] /\ e[u] = 0 /\ \A v \in S \ {u} : d[v] = e[v]
  OBVIOUS
<1> HIDE DEF e
<1>2. /\ SumFunction(d) \in Nat /\ SumFunction(e) \in Nat
      /\ SumFunction(e) + d[u] = SumFunction(d) + e[u]
  BY <1>1, SumChanges
<1> QED BY <1>1, <1>2

\* A sum of nothing but zeros.
LEMMA SumOfZeros ==
    ASSUME NEW S, IsFiniteSet(S)
    PROVE  SumFunction([x \in S |-> 0]) = 0
<1> DEFINE d == [x \in S |-> 0]
<1>1. d \in [S -> Nat] /\ \A x \in S : d[x] = 0
  OBVIOUS
<1> HIDE DEF d
<1>2. PICK f \in [SUBSET S -> Nat] :
              IsFold(f, S, 0, Adding(d), Picked(S)) /\ SumFunction(d) = f[S]
  BY <1>1, SumIsFold
<1> DEFINE Q == {s \in SUBSET S : f[s] = 0}
<1>3. {} \in Q
  BY <1>2 DEF IsFold
<1>4. ASSUME NEW s \in SUBSET S, s # {}
      PROVE  \E x \in s : s \ {x} \in Q => s \in Q
  <2> DEFINE x == Picked(S)[s]
  <2>1. x \in s
    BY <1>4 DEF Picked
  <2>2. f[s \ {x}] \in Nat /\ d[x] = 0 /\ x \in DOMAIN d
    BY <1>1, <1>2, <2>1
  <2>3. f[s] = d[x] + f[s \ {x}]
    BY <1>2, <1>4, <2>1, <2>2 DEF IsFold, Adding
  <2> HIDE DEF x
  <2>4. s \ {x} \in Q => s \in Q
    BY <2>1, <2>2, <2>3
  <2> QED BY <2>1, <2>4
<1>5. \A s \in SUBSET S : s \in Q
  <2> HIDE DEF Q
  <2>1. \A s \in SUBSET S : s # {} => \E x \in s : s \ {x} \in Q => s \in Q
    BY <1>4
  <2> QED BY <1>3, <2>1, SubsetInduction
<1> QED BY <1>2, <1>5 DEF d
=============================================================================
