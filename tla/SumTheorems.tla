---------------------------- MODULE SumTheorems ----------------------------
(***************************************************************************)
(* What a sum over a finite set is, whatever the order in which it takes   *)
(* the elements (SumFunctionOnSet of the community modules).  The library  *)
(* states induction with an operator parameter; here it is used as the     *)
(* fact that a set of counterexamples has a smallest one.                  *)
(***************************************************************************)
EXTENDS Integers, Functions, FiniteSetTheorems, WellFoundedInduction, TLAPS

Pick(s) == CHOOSE x \in s : TRUE

\* The recursion of the sum on the subsets of S.
Rec(f, S, h) ==
  h = [s \in SUBSET S |-> IF s = {} THEN 0 ELSE f[Pick(s)] + h[s \ {Pick(s)}]]

LEMMA Unfold ==
  ASSUME NEW f, NEW S
  PROVE  SumFunctionOnSet(f, S) = (CHOOSE h : Rec(f, S, h))[S]
BY DEF SumFunctionOnSet, FoldFunctionOnSet, MapThenFoldSet, Rec, Pick

LEMMA PickIn ==
  ASSUME NEW s, s # {}
  PROVE  Pick(s) \in s
BY DEF Pick

\* A set of finite sets that is not empty has a smallest element.
LEMMA SmallestSet ==
  ASSUME NEW S, IsFiniteSet(S), NEW T, T \subseteq SUBSET S, T # {}
  PROVE  \E s \in T : \A t \in T : t \subseteq s => t = s
<1>1. IsWellFoundedOn(StrictSubsetOrdering(S), SUBSET S)
  BY FS_StrictSubsetOrderingWellFounded, FS_FiniteSubsetsOfFinite
<1>2. PICK s \in T : \A t \in T : ~ (<<t, s>> \in StrictSubsetOrdering(S))
  BY <1>1, WFMin
<1>3. \A t \in T : t \subseteq s => t = s
  BY <1>2 DEF StrictSubsetOrdering
<1> QED
  BY <1>3

\* The recursion has at most one solution, and on different sets the solutions
\* agree where both are defined.
LEMMA RecAgree ==
  ASSUME NEW f, NEW S, IsFiniteSet(S), NEW R, NEW g, NEW h, Rec(f, S, g), Rec(f, R, h)
  PROVE  \A s \in SUBSET S : s \subseteq R => g[s] = h[s]
<1> DEFINE T == {s \in SUBSET S : s \subseteq R /\ g[s] # h[s]}
<1>1. SUFFICES ASSUME T # {} PROVE FALSE
  OBVIOUS
<1>2. PICK s \in T : \A t \in T : t \subseteq s => t = s
  <2>1. T \subseteq SUBSET S
    OBVIOUS
  <2> HIDE DEF T
  <2> QED
    BY <1>1, <2>1, SmallestSet
<1>3. s \in SUBSET S /\ s \in SUBSET R /\ g[s] # h[s]
  BY <1>2
<1>4. /\ g[s] = IF s = {} THEN 0 ELSE f[Pick(s)] + g[s \ {Pick(s)}]
      /\ h[s] = IF s = {} THEN 0 ELSE f[Pick(s)] + h[s \ {Pick(s)}]
  BY <1>3 DEF Rec
<1>5. s # {}
  BY <1>3, <1>4
<1>6. s \ {Pick(s)} \notin T
  BY <1>2, <1>5, PickIn
<1>7. g[s \ {Pick(s)}] = h[s \ {Pick(s)}]
  BY <1>3, <1>6
<1> QED
  BY <1>3, <1>4, <1>5, <1>7

LEMMA RecExists ==
  ASSUME NEW f, NEW S, IsFiniteSet(S)
  PROVE  \E h : Rec(f, S, h)
<1> DEFINE T == {s \in SUBSET S : ~ \E h : Rec(f, s, h)}
<1>1. SUFFICES ASSUME T # {} PROVE FALSE
  OBVIOUS
<1>2. PICK s \in T : \A t \in T : t \subseteq s => t = s
  <2>1. T \subseteq SUBSET S
    OBVIOUS
  <2> HIDE DEF T
  <2> QED
    BY <1>1, <2>1, SmallestSet
<1>3. s \in SUBSET S /\ ~ \E h : Rec(f, s, h)
  BY <1>2
<1> DEFINE H(t) == CHOOSE h : Rec(f, t, h)
           V(t) == IF t = {} THEN 0 ELSE f[Pick(t)] + H(t \ {Pick(t)})[t \ {Pick(t)}]
           F == [t \in SUBSET s |-> V(t)]
<1>4. ASSUME NEW t, t \subseteq s, t # s
      PROVE  Rec(f, t, H(t)) /\ IsFiniteSet(t)
  <2>1. t \notin T
    BY <1>2, <1>4
  <2>2. \E h : Rec(f, t, h)
    BY <1>3, <1>4, <2>1
  <2>3. IsFiniteSet(t)
    BY <1>3, <1>4, FS_Subset
  <2> QED
    BY <2>2, <2>3
<1> HIDE DEF H
\* Below s, F is the solution on the smaller set.
<1>5. ASSUME NEW t, t \subseteq s, t # s
      PROVE  F[t] = H(t)[t]
  <2>1. Rec(f, t, H(t))
    BY <1>4, <1>5
  <2>2. H(t)[t] = IF t = {} THEN 0 ELSE f[Pick(t)] + H(t)[t \ {Pick(t)}]
    BY <2>1 DEF Rec
  <2>3. F[t] = V(t)
    BY <1>5
  <2>4. CASE t = {}
    BY <2>2, <2>3, <2>4
  <2>5. CASE t # {}
    <3> DEFINE u == t \ {Pick(t)}
    <3>1. u \subseteq t /\ u \subseteq s /\ u # s
      BY <1>5, <2>5, PickIn
    <3>2. Rec(f, u, H(u)) /\ IsFiniteSet(u)
      BY <3>1, <1>4
    <3>3. H(u)[u] = H(t)[u]
      BY <2>1, <3>1, <3>2, RecAgree
    <3> QED
      BY <2>2, <2>3, <2>5, <3>3
  <2> QED
    BY <2>4, <2>5
<1>6. ASSUME NEW t \in SUBSET s
      PROVE  V(t) = IF t = {} THEN 0 ELSE f[Pick(t)] + F[t \ {Pick(t)}]
  <2>1. CASE t = {}
    BY <2>1
  <2>2. CASE t # {}
    <3>1. t \ {Pick(t)} \subseteq s /\ t \ {Pick(t)} # s
      BY <2>2, PickIn
    <3> HIDE DEF F
    <3>2. F[t \ {Pick(t)}] = H(t \ {Pick(t)})[t \ {Pick(t)}]
      BY <3>1, <1>5
    <3> QED
      BY <2>2, <3>2
  <2> QED
    BY <2>1, <2>2
<1>7. Rec(f, s, F)
  <2>1. F = [t \in SUBSET s |-> IF t = {} THEN 0 ELSE f[Pick(t)] + F[t \ {Pick(t)}]]
    <3> HIDE DEF V
    <3>1. F = [t \in SUBSET s |-> V(t)]
      OBVIOUS
    <3> HIDE DEF F
    <3> QED
      BY <3>1, <1>6
  <2> HIDE DEF F
  <2> QED
    BY <2>1 DEF Rec
<1> QED
  BY <1>3, <1>7

\* The sum takes some element first.
LEMMA SumPick ==
  ASSUME NEW f, NEW S, IsFiniteSet(S)
  PROVE  SumFunctionOnSet(f, S) =
           IF S = {} THEN 0 ELSE f[Pick(S)] + SumFunctionOnSet(f, S \ {Pick(S)})
<1> DEFINE H(t) == CHOOSE h : Rec(f, t, h)
<1>1. Rec(f, S, H(S))
  BY RecExists
<1>2. H(S)[S] = IF S = {} THEN 0 ELSE f[Pick(S)] + H(S)[S \ {Pick(S)}]
  <2> HIDE DEF H
  <2> QED
    BY <1>1 DEF Rec
<1>3. SumFunctionOnSet(f, S) = H(S)[S]
  BY Unfold
<1>4. CASE S = {}
  BY <1>2, <1>3, <1>4
<1>5. CASE S # {}
  <2> DEFINE R == S \ {Pick(S)}
  <2>1. IsFiniteSet(R) /\ R \subseteq S
    BY FS_Subset
  <2>2. Rec(f, R, H(R))
    BY <2>1, RecExists
  <2>3. SumFunctionOnSet(f, R) = H(R)[R]
    BY Unfold
  <2>4. H(R)[R] = H(S)[R]
    <3> HIDE DEF H, R
    <3> QED
      BY <1>1, <2>1, <2>2, RecAgree
  <2> HIDE DEF H
  <2> QED
    BY <1>2, <1>3, <1>5, <2>3, <2>4
<1> QED
  BY <1>4, <1>5
-----------------------------------------------------------------------------
(* What a user needs to know of sums                                       *)

LEMMA SumEmpty == \A f : SumFunctionOnSet(f, {}) = 0
BY SumPick, FS_EmptySet

LEMMA SumInt ==
  ASSUME NEW S, IsFiniteSet(S), NEW f, \A x \in S : f[x] \in Int
  PROVE  SumFunctionOnSet(f, S) \in Int
<1> DEFINE T == {s \in SUBSET S : SumFunctionOnSet(f, s) \notin Int}
<1>1. SUFFICES ASSUME T # {} PROVE FALSE
  OBVIOUS
<1>2. PICK s \in T : \A t \in T : t \subseteq s => t = s
  <2>1. T \subseteq SUBSET S
    OBVIOUS
  <2> HIDE DEF T
  <2> QED
    BY <1>1, <2>1, SmallestSet
<1>3. s \in SUBSET S /\ IsFiniteSet(s) /\ SumFunctionOnSet(f, s) \notin Int
  BY <1>2, FS_Subset
<1>4. s # {}
  BY <1>3, SumEmpty
<1>5. Pick(s) \in s
  BY <1>4, PickIn
<1>6. SumFunctionOnSet(f, s \ {Pick(s)}) \in Int
  BY <1>2, <1>3, <1>5
<1>7. SumFunctionOnSet(f, s) = f[Pick(s)] + SumFunctionOnSet(f, s \ {Pick(s)})
  BY <1>3, <1>4, SumPick
<1> QED
  BY <1>3, <1>5, <1>6, <1>7

\* The sum may take any element first.
LEMMA SumRemove ==
  ASSUME NEW S, IsFiniteSet(S), NEW f, \A y \in S : f[y] \in Int, NEW x \in S
  PROVE  SumFunctionOnSet(f, S) = f[x] + SumFunctionOnSet(f, S \ {x})
<1> DEFINE Total(s) == SumFunctionOnSet(f, s)
           T == {s \in SUBSET S : \E y \in s : Total(s) # f[y] + Total(s \ {y})}
<1>1. SUFFICES ASSUME T # {} PROVE FALSE
  OBVIOUS
<1>2. PICK s \in T : \A t \in T : t \subseteq s => t = s
  <2>1. T \subseteq SUBSET S
    OBVIOUS
  <2> HIDE DEF T
  <2> QED
    BY <1>1, <2>1, SmallestSet
<1>3. PICK y \in s : Total(s) # f[y] + Total(s \ {y})
  BY <1>2
<1> DEFINE p == Pick(s)
<1>4. s \subseteq S /\ IsFiniteSet(s) /\ p \in s /\ y \in S /\ p \in S
  BY <1>2, <1>3, FS_Subset, PickIn
<1>5. Total(s) = f[p] + Total(s \ {p})
  BY <1>3, <1>4, SumPick
<1>6. p # y
  BY <1>3, <1>5
<1> HIDE DEF Total, p
<1>a. ASSUME NEW t \in SUBSET s, t # s, NEW z \in t
      PROVE  Total(t) = f[z] + Total(t \ {z})
  <2>1. t \in SUBSET S
    BY <1>4
  <2>2. t \notin T
    BY <1>2, <1>a
  <2> QED
    BY <2>1, <2>2
<1>7. Total(s \ {p}) = f[y] + Total((s \ {p}) \ {y})
  <2>1. s \ {p} \in SUBSET s /\ s \ {p} # s /\ y \in s \ {p}
    BY <1>4, <1>6
  <2> QED
    BY <1>a, <2>1
<1>8. Total(s \ {y}) = f[p] + Total((s \ {y}) \ {p})
  <2>1. s \ {y} \in SUBSET s /\ s \ {y} # s /\ p \in s \ {y}
    BY <1>4, <1>6
  <2> QED
    BY <1>a, <2>1
<1>9. (s \ {p}) \ {y} = (s \ {y}) \ {p}
  OBVIOUS
<1>10. Total((s \ {p}) \ {y}) \in Int
  <2>1. IsFiniteSet((s \ {p}) \ {y}) /\ (s \ {p}) \ {y} \subseteq S
    BY <1>4, FS_Subset
  <2>2. \A u : IsFiniteSet(u) /\ u \subseteq S => Total(u) \in Int
    BY SumInt DEF Total
  <2> QED
    BY <2>1, <2>2
<1>11. f[p] \in Int /\ f[y] \in Int
  BY <1>4
<1>12. Total(s \ {y}) = f[p] + Total((s \ {p}) \ {y})
  BY <1>8, <1>9
<1> QED
  BY <1>3, <1>5, <1>7, <1>10, <1>11, <1>12

LEMMA SumAdd ==
  ASSUME NEW S, IsFiniteSet(S), NEW x, x \notin S, NEW f, \A y \in S \cup {x} : f[y] \in Int
  PROVE  SumFunctionOnSet(f, S \cup {x}) = f[x] + SumFunctionOnSet(f, S)
<1>1. IsFiniteSet(S \cup {x}) /\ (S \cup {x}) \ {x} = S
  BY FS_AddElement
<1> QED
  BY <1>1, SumRemove

LEMMA SumAgree ==
  ASSUME NEW S, IsFiniteSet(S), NEW f, NEW g, \A x \in S : f[x] = g[x]
  PROVE  SumFunctionOnSet(f, S) = SumFunctionOnSet(g, S)
<1> DEFINE T == {s \in SUBSET S : SumFunctionOnSet(f, s) # SumFunctionOnSet(g, s)}
<1>1. SUFFICES ASSUME T # {} PROVE FALSE
  OBVIOUS
<1>2. PICK s \in T : \A t \in T : t \subseteq s => t = s
  <2>1. T \subseteq SUBSET S
    OBVIOUS
  <2> HIDE DEF T
  <2> QED
    BY <1>1, <2>1, SmallestSet
<1>3. s \in SUBSET S /\ IsFiniteSet(s) /\ SumFunctionOnSet(f, s) # SumFunctionOnSet(g, s)
  BY <1>2, FS_Subset
<1>4. s # {}
  BY <1>3, SumEmpty
<1>5. Pick(s) \in s
  BY <1>4, PickIn
<1>6. SumFunctionOnSet(f, s \ {Pick(s)}) = SumFunctionOnSet(g, s \ {Pick(s)})
  BY <1>2, <1>3, <1>5
<1> QED
  BY <1>3, <1>4, <1>5, <1>6, SumPick

\* Two disjoint parts.
LEMMA SumSplit ==
  ASSUME NEW S, IsFiniteSet(S), NEW R, IsFiniteSet(R), S \cap R = {},
         NEW f, \A x \in S \cup R : f[x] \in Int
  PROVE  SumFunctionOnSet(f, S \cup R) = SumFunctionOnSet(f, S) + SumFunctionOnSet(f, R)
<1> DEFINE Total(s) == SumFunctionOnSet(f, s)
           T == {s \in SUBSET R : Total(S \cup s) # Total(S) + Total(s)}
<1>1. SUFFICES ASSUME T # {} PROVE FALSE
  OBVIOUS
<1>2. PICK s \in T : \A t \in T : t \subseteq s => t = s
  <2>1. T \subseteq SUBSET R
    OBVIOUS
  <2> HIDE DEF T
  <2> QED
    BY <1>1, <2>1, SmallestSet
<1>3. s \in SUBSET R /\ IsFiniteSet(s) /\ Total(S \cup s) # Total(S) + Total(s)
  BY <1>2, FS_Subset
<1>a. \A u : IsFiniteSet(u) /\ u \subseteq S \cup R => Total(u) \in Int
  BY SumInt
<1>4. s # {}
  <2>1. Total({}) = 0
    BY SumEmpty
  <2>2. Total(S) \in Int
    BY <1>a
  <2> HIDE DEF Total
  <2>3. ASSUME s = {} PROVE Total(S \cup s) = Total(S) + Total(s)
    <3>1. S \cup s = S
      BY <2>3
    <3> QED
      BY <2>1, <2>2, <2>3, <3>1
  <2> QED
    BY <1>3, <2>3
<1>5. PICK x : x \in s
  BY <1>4
<1> DEFINE t == s \ {x}
<1>6. /\ IsFiniteSet(t) /\ IsFiniteSet(S \cup t) /\ x \notin S \cup t
      /\ t \subseteq R /\ t \cup {x} = s /\ (S \cup t) \cup {x} = S \cup s
  BY <1>3, <1>5, FS_Subset, FS_Union
<1>7. Total(S \cup t) = Total(S) + Total(t)
  BY <1>2, <1>5, <1>6
<1>8. Total(s) = f[x] + Total(t)
  <2> HIDE DEF t
  <2> QED
    BY <1>5, <1>6, SumAdd
<1>9. Total(S \cup s) = f[x] + Total(S \cup t)
  <2> HIDE DEF t
  <2>1. \A y \in (S \cup t) \cup {x} : f[y] \in Int
    BY <1>3, <1>6
  <2>2. Total((S \cup t) \cup {x}) = f[x] + Total(S \cup t)
    BY <1>6, <2>1, SumAdd
  <2> QED
    BY <1>6, <2>2
<1> HIDE DEF t, Total
<1>10. Total(S) \in Int /\ Total(t) \in Int /\ f[x] \in Int
  BY <1>3, <1>5, <1>6, <1>a
<1> QED
  BY <1>3, <1>7, <1>8, <1>9, <1>10

LEMMA SumNat ==
  ASSUME NEW S, IsFiniteSet(S), NEW f, \A x \in S : f[x] \in Nat
  PROVE  SumFunctionOnSet(f, S) \in Nat
<1> DEFINE T == {s \in SUBSET S : SumFunctionOnSet(f, s) \notin Nat}
<1>1. SUFFICES ASSUME T # {} PROVE FALSE
  OBVIOUS
<1>2. PICK s \in T : \A t \in T : t \subseteq s => t = s
  <2>1. T \subseteq SUBSET S
    OBVIOUS
  <2> HIDE DEF T
  <2> QED
    BY <1>1, <2>1, SmallestSet
<1>3. s \in SUBSET S /\ IsFiniteSet(s) /\ SumFunctionOnSet(f, s) \notin Nat
  BY <1>2, FS_Subset
<1>4. s # {}
  BY <1>3, SumEmpty
<1>5. Pick(s) \in s
  BY <1>4, PickIn
<1>6. SumFunctionOnSet(f, s \ {Pick(s)}) \in Nat
  BY <1>2, <1>3, <1>5
<1>7. SumFunctionOnSet(f, s) = f[Pick(s)] + SumFunctionOnSet(f, s \ {Pick(s)})
  BY <1>3, <1>4, SumPick
<1> QED
  BY <1>3, <1>5, <1>6, <1>7

LEMMA SumSubset ==
  ASSUME NEW S, IsFiniteSet(S), NEW R \in SUBSET S, NEW f, \A x \in S : f[x] \in Nat
  PROVE  SumFunctionOnSet(f, R) =< SumFunctionOnSet(f, S)
<1>1. IsFiniteSet(R) /\ IsFiniteSet(S \ R) /\ R \cup (S \ R) = S /\ R \cap (S \ R) = {}
  BY FS_Subset
<1>2. SumFunctionOnSet(f, R) \in Nat /\ SumFunctionOnSet(f, S \ R) \in Nat
  BY <1>1, SumNat
<1>3. SumFunctionOnSet(f, R \cup (S \ R)) =
        SumFunctionOnSet(f, R) + SumFunctionOnSet(f, S \ R)
  BY <1>1, SumSplit
<1>4. SumFunctionOnSet(f, S) = SumFunctionOnSet(f, R) + SumFunctionOnSet(f, S \ R)
  BY <1>1, <1>3
<1> QED
  BY <1>2, <1>4
=============================================================================
