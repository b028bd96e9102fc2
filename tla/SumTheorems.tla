------------------------------ MODULE SumTheorems ------------------------------
(***************************************************************************)
(* Positions, volumes and figures are sums over sets of rows.  The laws of *)
(* SumFunctionOnSet that the proofs about them need: the recursion it is   *)
(* defined by has exactly one solution on a finite set, so the order in    *)
(* which its members are taken does not matter.                            *)
(***************************************************************************)
EXTENDS Integers, Functions, FiniteSetTheorems, TLAPS

(* A non-empty set of natural numbers has a least member. *)
LEMMA LeastMember ==
  ASSUME NEW S \in SUBSET Nat, S # {}
  PROVE  \E m \in S : \A k \in S : m <= k
<1> DEFINE R == {p \in Nat \X Nat : p[1] < p[2]}
<1>1. IsWellFoundedOn(OpToRel(<, Nat), Nat)
  BY NatLessThanWellFounded
<1>2. IsWellFoundedOn(R, Nat)
  BY <1>1 DEF OpToRel
<1> HIDE DEF R
<1>3. PICK m \in S : \A k \in S : ~(<<k, m>> \in R)
  BY <1>2, WFMin
<1>4. ASSUME NEW k \in S PROVE m <= k
  <2>1. k \in Nat /\ m \in Nat
    OBVIOUS
  <2>2. k < m => <<k, m>> \in R
    BY <2>1 DEF R
  <2>3. QED
    BY <1>3, <2>1, <2>2
<1>5. QED
  BY <1>4

(* A non-empty family of finite sets has a smallest member. *)
LEMMA SmallestSet ==
  ASSUME NEW T, T # {}, \A t \in T : IsFiniteSet(t)
  PROVE  \E s \in T : /\ IsFiniteSet(s) /\ Cardinality(s) \in Nat
                      /\ \A x \in s : s \ {x} \notin T
<1> DEFINE N == {Cardinality(s) : s \in T}
<1>1. N \in SUBSET Nat /\ N # {}
  BY FS_CardinalityType
<1>2. PICK m \in N : \A k \in N : m <= k
  BY <1>1, LeastMember
<1>3. PICK s \in T : m = Cardinality(s)
  BY <1>2
<1>4. IsFiniteSet(s) /\ Cardinality(s) \in Nat
  BY FS_CardinalityType
<1>5. ASSUME NEW x \in s, s \ {x} \in T PROVE FALSE
  <2>1. Cardinality(s \ {x}) = Cardinality(s) - 1
    BY <1>4, FS_RemoveElement
  <2>2. Cardinality(s) <= Cardinality(s \ {x})
    BY <1>2, <1>3, <1>5
  <2> QED BY <1>4, <2>1, <2>2
<1> QED BY <1>3, <1>4, <1>5

-------------------------------------------------------------------------------
(* The sum exists *)

(* The sum of s, when g gives the sums of its proper subsets. *)
Term(a, g, s) ==
  IF s = {} THEN 0 ELSE LET x == CHOOSE y \in s : TRUE IN a[x] + g[s \ {x}]

(* g gives every subset of S its sum. *)
Sums(a, g, S) ==
  /\ g \in [SUBSET S -> Int]
  /\ \A s \in SUBSET S : g[s] = Term(a, g, s)

(* What a recursive sum is of a set depends on nothing but its members. *)
LEMMA SumsAgree ==
  ASSUME NEW a, NEW b, NEW g, NEW h, NEW S, NEW T, NEW U,
         Sums(a, g, S), Sums(b, h, T), IsFiniteSet(U),
         U \subseteq S, U \subseteq T, \A x \in U : a[x] = b[x]
  PROVE  g[U] = h[U]
<1> DEFINE Bad == {s \in SUBSET U : g[s] # h[s]}
<1>1. SUFFICES ASSUME Bad # {} PROVE FALSE
  OBVIOUS
<1>2. \A s \in Bad : IsFiniteSet(s)
  BY FS_Subset
<1>3. PICK s \in Bad : \A x \in s : s \ {x} \notin Bad
  BY <1>1, <1>2, SmallestSet
<1>4. s \in SUBSET U /\ g[s] = Term(a, g, s) /\ h[s] = Term(b, h, s)
  BY DEF Sums
<1>5. CASE s = {}
  BY <1>4, <1>5 DEF Term
<1>6. CASE s # {}
  <2> DEFINE x == CHOOSE y \in s : TRUE
  <2>1. x \in s
    BY <1>6
  <2>2. g[s] = a[x] + g[s \ {x}] /\ h[s] = b[x] + h[s \ {x}]
    BY <1>4, <1>6 DEF Term
  <2> HIDE DEF x
  <2>3. g[s \ {x}] = h[s \ {x}] /\ a[x] = b[x]
    BY <1>3, <1>4, <2>1
  <2> QED BY <2>2, <2>3
<1> QED BY <1>5, <1>6

(* The recursion has a solution for every finite set of integers. *)
LEMMA SumsExist ==
  ASSUME NEW S, IsFiniteSet(S), NEW a, \A x \in S : a[x] \in Int
  PROVE  \E g : Sums(a, g, S)
<1> DEFINE Bad == {s \in SUBSET S : ~\E g : Sums(a, g, s)}
<1>1. SUFFICES ASSUME Bad # {} PROVE FALSE
  OBVIOUS
<1>2. \A s \in Bad : IsFiniteSet(s)
  BY FS_Subset
<1>3. PICK s \in Bad : IsFiniteSet(s) /\ \A x \in s : s \ {x} \notin Bad
  BY <1>1, <1>2, SmallestSet
<1>4. s # {}
  <2>1. ASSUME s = {} PROVE Sums(a, [t \in SUBSET s |-> 0], s)
    BY <2>1 DEF Sums, Term
  <2> QED BY <2>1
<1> DEFINE G(x) == CHOOSE g : Sums(a, g, s \ {x})
<1>5. ASSUME NEW x \in s PROVE Sums(a, G(x), s \ {x}) /\ IsFiniteSet(s \ {x})
  <2>1. s \ {x} \in SUBSET S
    OBVIOUS
  <2> QED BY <1>3, <2>1, FS_Subset
<1> HIDE DEF G
<1> DEFINE Out(t) == CHOOSE x \in s : x \notin t
           first == CHOOSE y \in s : TRUE
           h == [t \in SUBSET s |->
                   IF t = s THEN a[first] + G(first)[s \ {first}] ELSE G(Out(t))[t]]
<1>6. ASSUME NEW x \in s, NEW t \in SUBSET (s \ {x}) PROVE h[t] = G(x)[t]
  <2>1. Out(t) \in s /\ Out(t) \notin t /\ t # s
    OBVIOUS
  <2>2. h[t] = G(Out(t))[t]
    BY <2>1
  <2> HIDE DEF Out, h
  <2>3. IsFiniteSet(t)
    BY <1>3, FS_Subset
  <2>4. t \subseteq s \ {x} /\ t \subseteq s \ {Out(t)}
    BY <2>1
  <2>5. Sums(a, G(x), s \ {x}) /\ Sums(a, G(Out(t)), s \ {Out(t)})
    BY <1>5, <2>1
  <2>6. G(Out(t))[t] = G(x)[t]
    BY <2>3, <2>4, <2>5, SumsAgree
  <2> QED BY <2>2, <2>6
<1>7. ASSUME NEW t \in SUBSET s PROVE h[t] \in Int /\ h[t] = Term(a, h, t)
  <2>1. CASE t = s
    <3>1. first \in s
      BY <1>4
    <3>2. h[t] = a[first] + G(first)[s \ {first}]
      BY <2>1
    <3>3. h[s \ {first}] = G(first)[s \ {first}]
      BY <1>6, <3>1
    <3>4. G(first)[s \ {first}] \in Int /\ a[first] \in Int
      BY <1>5, <3>1 DEF Sums
    <3>5. Term(a, h, t) = a[first] + h[s \ {first}]
      BY <1>4, <2>1 DEF Term
    <3> HIDE DEF h, first
    <3> QED BY <3>2, <3>3, <3>4, <3>5
  <2>2. CASE t # s
    <3>1. PICK x \in s : x \notin t
      BY <2>2
    <3> HIDE DEF h
    <3>2. t \in SUBSET (s \ {x}) /\ h[t] = G(x)[t]
      <4>1. t \in SUBSET (s \ {x})
        BY <3>1
      <4> QED BY <1>6, <4>1
    <3>3. ASSUME NEW y \in t PROVE h[t \ {y}] = G(x)[t \ {y}]
      <4>1. t \ {y} \in SUBSET (s \ {x})
        BY <3>2
      <4> QED BY <1>6, <4>1
    <3>4. G(x)[t] \in Int /\ G(x)[t] = Term(a, G(x), t)
      BY <1>5, <3>2 DEF Sums
    <3>5. Term(a, G(x), t) = Term(a, h, t)
      <4>1. CASE t = {}
        BY <4>1 DEF Term
      <4>2. CASE t # {}
        <5>1. (CHOOSE y \in t : TRUE) \in t
          BY <4>2
        <5> QED BY <3>3, <4>2, <5>1 DEF Term
      <4> QED BY <4>1, <4>2
    <3> QED BY <3>2, <3>4, <3>5
  <2> QED BY <2>1, <2>2
<1>8. Sums(a, h, s)
  <2>1. h \in [SUBSET s -> Int]
    BY <1>7
  <2> HIDE DEF h
  <2> QED BY <1>7, <2>1 DEF Sums
<1> QED BY <1>8

(* The sum of the library is the solution. *)
LEMMA SumIsSolution ==
  ASSUME NEW S, IsFiniteSet(S), NEW a, \A x \in S : a[x] \in Int
  PROVE  \E g : Sums(a, g, S) /\ SumFunctionOnSet(a, S) = g[S]
<1> DEFINE Def(g) == g = [s \in SUBSET S |-> Term(a, g, s)]
           sum == CHOOSE g : Def(g)
<1>1. \E g : Def(g)
  <2>1. PICK g : Sums(a, g, S)
    BY SumsExist
  <2>2. Def(g)
    BY <2>1 DEF Sums
  <2> QED BY <2>2
<1>2. SumFunctionOnSet(a, S) = sum[S]
  BY DEF SumFunctionOnSet, FoldFunctionOnSet, MapThenFoldSet, Term
<1>3. Def(sum)
  BY <1>1
<1> HIDE DEF sum
<1>4. sum = [s \in SUBSET S |-> sum[s]] /\ \A s \in SUBSET S : sum[s] = Term(a, sum, s)
  BY <1>3
<1>5. \A s \in SUBSET S : sum[s] \in Int
  <2> DEFINE Bad == {s \in SUBSET S : sum[s] \notin Int}
  <2>1. SUFFICES ASSUME Bad # {} PROVE FALSE
    OBVIOUS
  <2>2. \A s \in Bad : IsFiniteSet(s)
    BY FS_Subset
  <2>3. PICK s \in Bad : \A x \in s : s \ {x} \notin Bad
    BY <2>1, <2>2, SmallestSet
  <2>4. \A x \in s : sum[s \ {x}] \in Int /\ a[x] \in Int
    BY <2>3
  <2>5. sum[s] = Term(a, sum, s)
    BY <1>4
  <2>6. CASE s = {}
    BY <2>5, <2>6 DEF Term
  <2>7. CASE s # {}
    <3> DEFINE x == CHOOSE y \in s : TRUE
    <3>1. x \in s
      BY <2>7
    <3>2. sum[s] = a[x] + sum[s \ {x}]
      BY <2>5, <2>7 DEF Term
    <3> HIDE DEF x
    <3>3. sum[s] \in Int
      BY <2>4, <3>1, <3>2
    <3> QED BY <3>3
  <2> QED BY <2>6, <2>7
<1>6. Sums(a, sum, S)
  <2>1. sum \in [SUBSET S -> Int]
    BY <1>4, <1>5
  <2> QED BY <1>4, <2>1 DEF Sums
<1> QED BY <1>2, <1>6
-------------------------------------------------------------------------------
(* The laws of sums *)

(* A sum of integers is an integer. *)
THEOREM SumType ==
  ASSUME NEW S, IsFiniteSet(S), NEW a, \A x \in S : a[x] \in Int
  PROVE  SumFunctionOnSet(a, S) \in Int
<1>1. PICK g : Sums(a, g, S) /\ SumFunctionOnSet(a, S) = g[S]
  BY SumIsSolution
<1> QED BY <1>1 DEF Sums

(* Only the terms of the set matter. *)
THEOREM SumSame ==
  ASSUME NEW S, IsFiniteSet(S), NEW a, NEW b,
         \A x \in S : a[x] \in Int /\ b[x] = a[x]
  PROVE  SumFunctionOnSet(b, S) = SumFunctionOnSet(a, S)
<1>1. PICK g : Sums(a, g, S) /\ SumFunctionOnSet(a, S) = g[S]
  BY SumIsSolution
<1>2. PICK h : Sums(b, h, S) /\ SumFunctionOnSet(b, S) = h[S]
  BY SumIsSolution
<1>3. h[S] = g[S]
  BY <1>1, <1>2, SumsAgree
<1> QED BY <1>1, <1>2, <1>3

(* The sum of nothing. *)
THEOREM SumEmpty == ASSUME NEW a PROVE SumFunctionOnSet(a, {}) = 0
<1>1. PICK g : Sums(a, g, {}) /\ SumFunctionOnSet(a, {}) = g[{}]
  BY SumIsSolution, FS_EmptySet
<1>2. g[{}] = Term(a, g, {})
  BY <1>1 DEF Sums
<1> QED BY <1>1, <1>2 DEF Term

(* One member, the one the recursion chooses, can be taken out. *)
LEMMA SumChoice ==
  ASSUME NEW S, IsFiniteSet(S), S # {}, NEW a, \A x \in S : a[x] \in Int
  PROVE  \E x \in S :
           SumFunctionOnSet(a, S) = a[x] + SumFunctionOnSet(a, S \ {x})
<1> DEFINE x == CHOOSE y \in S : TRUE
<1>1. x \in S
  OBVIOUS
<1>2. PICK g : Sums(a, g, S) /\ SumFunctionOnSet(a, S) = g[S]
  BY SumIsSolution
<1>3. g[S] = a[x] + g[S \ {x}]
  BY <1>2 DEF Sums, Term
<1> HIDE DEF x
<1>4. IsFiniteSet(S \ {x})
  BY FS_Subset
<1>5. PICK h : Sums(a, h, S \ {x}) /\ SumFunctionOnSet(a, S \ {x}) = h[S \ {x}]
  BY <1>4, SumIsSolution
<1>6. g[S \ {x}] = h[S \ {x}]
  BY <1>2, <1>4, <1>5, SumsAgree
<1> QED BY <1>1, <1>2, <1>3, <1>5, <1>6

(* So can every other: the order does not matter. *)
THEOREM SumTake ==
  ASSUME NEW S, IsFiniteSet(S), NEW a, \A x \in S : a[x] \in Int, NEW x \in S
  PROVE  SumFunctionOnSet(a, S) = a[x] + SumFunctionOnSet(a, S \ {x})
<1> DEFINE Sum(s) == SumFunctionOnSet(a, s)
           Bad == {s \in SUBSET S : \E y \in s : Sum(s) # a[y] + Sum(s \ {y})}
<1>1. SUFFICES ASSUME Bad # {} PROVE FALSE
  OBVIOUS
<1>2. \A s \in Bad : IsFiniteSet(s)
  BY FS_Subset
<1> HIDE DEF Sum
<1>3. PICK s \in Bad : \A y \in s : s \ {y} \notin Bad
  BY <1>1, <1>2, SmallestSet
<1>4. PICK y \in s : Sum(s) # a[y] + Sum(s \ {y})
  BY <1>3
<1>5. \A t \in SUBSET S : IsFiniteSet(t) /\ Sum(t) \in Int
  BY FS_Subset, SumType DEF Sum
<1>6. PICK z \in s : Sum(s) = a[z] + Sum(s \ {z})
  BY <1>4, <1>5, SumChoice DEF Sum
<1>7. y # z
  BY <1>4, <1>6
<1>8. PICK t \in SUBSET S : t = (s \ {z}) \ {y} /\ t = (s \ {y}) \ {z}
  OBVIOUS
<1>9. Sum(s \ {z}) = a[y] + Sum(t) /\ Sum(s \ {y}) = a[z] + Sum(t)
  <2>1. ASSUME NEW u \in s, NEW v \in s \ {u}
        PROVE  Sum(s \ {u}) = a[v] + Sum((s \ {u}) \ {v})
    <3>1. s \ {u} \in SUBSET S /\ s \ {u} \notin Bad
      BY <1>3
    <3> QED BY <3>1
  <2> HIDE DEF Bad
  <2>2. Sum(s \ {z}) = a[y] + Sum((s \ {z}) \ {y})
    BY <1>7, <2>1
  <2>3. Sum(s \ {y}) = a[z] + Sum((s \ {y}) \ {z})
    BY <1>7, <2>1
  <2> QED BY <1>8, <2>2, <2>3
<1>10. a[y] \in Int /\ a[z] \in Int /\ Sum(t) \in Int
  BY <1>5
<1>11. Sum(s) = a[y] + Sum(s \ {y})
  BY <1>6, <1>9, <1>10
<1> QED BY <1>4, <1>11

(* A sum with one term more. *)
THEOREM SumAdd ==
  ASSUME NEW S, IsFiniteSet(S), NEW a, NEW x, x \notin S,
         \A y \in S \cup {x} : a[y] \in Int
  PROVE  SumFunctionOnSet(a, S \cup {x}) = SumFunctionOnSet(a, S) + a[x]
<1>1. IsFiniteSet(S \cup {x}) /\ (S \cup {x}) \ {x} = S
  BY FS_AddElement
<1>2. SumFunctionOnSet(a, S \cup {x}) = a[x] + SumFunctionOnSet(a, S)
  BY <1>1, SumTake
<1>3. SumFunctionOnSet(a, S) \in Int /\ a[x] \in Int
  BY SumType
<1> QED BY <1>2, <1>3

(* The sum of two sets that have no member in common. *)
THEOREM SumDisjoint ==
  ASSUME NEW S, IsFiniteSet(S), NEW T, IsFiniteSet(T), S \cap T = {},
         NEW a, \A x \in S \cup T : a[x] \in Int
  PROVE  SumFunctionOnSet(a, S \cup T)
           = SumFunctionOnSet(a, S) + SumFunctionOnSet(a, T)
<1> DEFINE Sum(s) == SumFunctionOnSet(a, s)
           Bad == {t \in SUBSET T : Sum(S \cup t) # Sum(S) + Sum(t)}
<1>1. SUFFICES ASSUME Bad # {} PROVE FALSE
  OBVIOUS
<1>2. \A t \in SUBSET T : /\ IsFiniteSet(t) /\ IsFiniteSet(S \cup t)
                           /\ Sum(t) \in Int /\ Sum(S) \in Int
  BY FS_Subset, FS_Union, SumType
<1>3. PICK t \in Bad : \A y \in t : t \ {y} \notin Bad
  BY <1>1, <1>2, SmallestSet
<1>4. t # {}
  <2>1. ASSUME t = {} PROVE FALSE
    <3>1. S \cup t = S /\ Sum(t) = 0
      BY <2>1, SumEmpty
    <3>2. Sum(S \cup t) = Sum(S) /\ Sum(S) \in Int
      BY <1>2, <3>1
    <3>3. Sum(S \cup t) # Sum(S) + Sum(t)
      OBVIOUS
    <3> HIDE DEF Sum, Bad
    <3> QED BY <3>1, <3>2, <3>3
  <2> QED BY <2>1
<1>5. PICK x : x \in t
  BY <1>4
<1>6. Sum(S \cup (t \ {x})) = Sum(S) + Sum(t \ {x})
  BY <1>3, <1>5
<1>7. Sum(t) = a[x] + Sum(t \ {x})
  BY <1>2, <1>5, SumTake
<1>8. Sum(S \cup t) = a[x] + Sum(S \cup (t \ {x}))
  <2>1. (S \cup t) \ {x} = S \cup (t \ {x}) /\ x \in S \cup t
    BY <1>5
  <2>2. IsFiniteSet(S \cup t) /\ \A y \in S \cup t : a[y] \in Int
    BY <1>2
  <2> QED BY <2>1, <2>2, SumTake
<1>9. a[x] \in Int /\ Sum(t \ {x}) \in Int /\ Sum(S) \in Int /\ t \in SUBSET T
  BY <1>2, <1>5
<1>10. Sum(S \cup t) # Sum(S) + Sum(t)
  OBVIOUS
<1> HIDE DEF Sum, Bad
<1> QED BY <1>6, <1>7, <1>8, <1>9, <1>10

(* The sum of differences is the difference of the sums. *)
THEOREM SumMinus ==
  ASSUME NEW S, IsFiniteSet(S), NEW a, NEW b, NEW c,
         \A x \in S : a[x] \in Int /\ b[x] \in Int /\ c[x] = a[x] - b[x]
  PROVE  SumFunctionOnSet(c, S) = SumFunctionOnSet(a, S) - SumFunctionOnSet(b, S)
<1> DEFINE Sum(f, s) == SumFunctionOnSet(f, s)
           Bad == {s \in SUBSET S : Sum(c, s) # Sum(a, s) - Sum(b, s)}
<1>1. SUFFICES ASSUME Bad # {} PROVE FALSE
  OBVIOUS
<1>2. \A s \in SUBSET S : IsFiniteSet(s)
  BY FS_Subset
<1>3. PICK s \in Bad : \A y \in s : s \ {y} \notin Bad
  BY <1>1, <1>2, SmallestSet
<1>4. s # {}
  BY SumEmpty
<1>5. PICK x : x \in s
  BY <1>4
<1>6. Sum(c, s \ {x}) = Sum(a, s \ {x}) - Sum(b, s \ {x})
  BY <1>3, <1>5
<1>7. \A y \in s : a[y] \in Int /\ b[y] \in Int /\ c[y] \in Int /\ c[y] = a[y] - b[y]
  OBVIOUS
<1>8. /\ Sum(a, s) = a[x] + Sum(a, s \ {x})
      /\ Sum(b, s) = b[x] + Sum(b, s \ {x})
      /\ Sum(c, s) = c[x] + Sum(c, s \ {x})
  BY <1>2, <1>5, <1>7, SumTake
<1>9. Sum(a, s \ {x}) \in Int /\ Sum(b, s \ {x}) \in Int
  BY <1>2, <1>7, SumType
<1>10. Sum(c, s) # Sum(a, s) - Sum(b, s)
  OBVIOUS
<1>11. c[x] = a[x] - b[x] /\ a[x] \in Int /\ b[x] \in Int
  BY <1>5, <1>7
<1> HIDE DEF Sum, Bad
<1> QED BY <1>6, <1>8, <1>9, <1>10, <1>11

(* A sum of nothing but zeros. *)
THEOREM SumZero ==
  ASSUME NEW S, IsFiniteSet(S), NEW a, \A x \in S : a[x] = 0
  PROVE  SumFunctionOnSet(a, S) = 0
<1>1. SumFunctionOnSet(a, S) = SumFunctionOnSet(a, S) - SumFunctionOnSet(a, S)
  BY SumMinus
<1>2. SumFunctionOnSet(a, S) \in Int
  BY SumType
<1> QED BY <1>1, <1>2

(* A sum of natural numbers is a natural number. *)
THEOREM SumNatural ==
  ASSUME NEW S, IsFiniteSet(S), NEW a, \A x \in S : a[x] \in Nat
  PROVE  SumFunctionOnSet(a, S) \in Nat
<1> DEFINE Sum(s) == SumFunctionOnSet(a, s)
           Bad == {s \in SUBSET S : Sum(s) \notin Nat}
<1>1. SUFFICES ASSUME Bad # {} PROVE FALSE
  OBVIOUS
<1>2. \A s \in Bad : IsFiniteSet(s)
  BY FS_Subset
<1>3. PICK s \in Bad : IsFiniteSet(s) /\ \A x \in s : s \ {x} \notin Bad
  BY <1>1, <1>2, SmallestSet
<1>4. CASE s = {}
  BY <1>4, SumEmpty
<1>5. CASE s # {}
  <2>1. PICK x : x \in s
    BY <1>5
  <2>2. Sum(s) = a[x] + Sum(s \ {x})
    <3>1. \A y \in s : a[y] \in Int
      OBVIOUS
    <3> QED BY <1>3, <2>1, <3>1, SumTake
  <2>3. s \ {x} \in SUBSET S /\ Sum(s \ {x}) \in Nat
    BY <1>3, <2>1
  <2>4. a[x] \in Nat
    BY <2>1
  <2> HIDE DEF Sum
  <2>5. Sum(s) \in Nat
    BY <2>2, <2>3, <2>4
  <2> QED BY <2>5
<1> QED BY <1>4, <1>5

(* Positive numbers add up to zero only when there is none of them. *)
THEOREM SumPositive ==
  ASSUME NEW S, IsFiniteSet(S), NEW a, \A x \in S : a[x] \in Nat \ {0},
         SumFunctionOnSet(a, S) = 0
  PROVE  S = {}
<1> DEFINE Sum(s) == SumFunctionOnSet(a, s)
<1>1. SUFFICES ASSUME NEW x \in S PROVE FALSE
  OBVIOUS
<1>2. \A y \in S : a[y] \in Int /\ a[y] \in Nat
  OBVIOUS
<1>3. Sum(S) = a[x] + Sum(S \ {x})
  BY <1>2, SumTake
<1>4. IsFiniteSet(S \ {x}) /\ \A y \in S \ {x} : a[y] \in Nat
  BY <1>2, FS_Subset
<1>5. Sum(S \ {x}) \in Nat
  BY <1>4, SumNatural
<1>6. a[x] \in Nat \ {0} /\ Sum(S) = 0
  OBVIOUS
<1> HIDE DEF Sum
<1> QED BY <1>3, <1>5, <1>6


(* A sum taken group by group, over groups that have no member in common. *)
THEOREM SumOfSums ==
  ASSUME NEW L, IsFiniteSet(L), NEW F, NEW a, NEW b,
         \A l \in L : IsFiniteSet(F[l]) /\ b[l] = SumFunctionOnSet(a, F[l]),
         \A l, k \in L : l # k => F[l] \cap F[k] = {},
         \A l \in L : \A x \in F[l] : a[x] \in Int
  PROVE  /\ IsFiniteSet(UNION {F[l] : l \in L})
         /\ SumFunctionOnSet(b, L) = SumFunctionOnSet(a, UNION {F[l] : l \in L})
<1> DEFINE All(s) == UNION {F[l] : l \in s}
           Good(s) == /\ IsFiniteSet(All(s))
                      /\ SumFunctionOnSet(b, s) = SumFunctionOnSet(a, All(s))
           Bad == {s \in SUBSET L : ~Good(s)}
<1>1. SUFFICES ASSUME Bad # {} PROVE FALSE
  OBVIOUS
<1>2. \A s \in SUBSET L : IsFiniteSet(s)
  BY FS_Subset
<1> HIDE DEF Good
<1>3. PICK s \in Bad : \A y \in s : s \ {y} \notin Bad
  BY <1>1, <1>2, SmallestSet
<1>4. ASSUME s = {} PROVE FALSE
  <2>1. All({}) = {}
    OBVIOUS
  <2>2. Good({})
    BY <2>1, FS_EmptySet, SumEmpty DEF Good
  <2> QED BY <1>4, <2>2
<1>5. PICK l : l \in s
  BY <1>4
<1>6. Good(s \ {l})
  BY <1>3, <1>5
<1>7. /\ All(s) = All(s \ {l}) \cup F[l]
      /\ All(s \ {l}) \cap F[l] = {}
      /\ \A x \in All(s) : a[x] \in Int
  BY <1>5
<1> HIDE DEF All
<1>8. IsFiniteSet(All(s \ {l})) /\ IsFiniteSet(F[l]) /\ l \in L
  BY <1>5, <1>6 DEF Good
<1>9. IsFiniteSet(All(s))
  <2>1. IsFiniteSet(All(s \ {l}) \cup F[l])
    BY <1>8, FS_Union
  <2> QED BY <1>7, <2>1
<1>10. SumFunctionOnSet(a, All(s))
         = SumFunctionOnSet(a, All(s \ {l})) + SumFunctionOnSet(a, F[l])
  <2>1. PICK A, B : A = All(s \ {l}) /\ B = F[l]
    OBVIOUS
  <2>2. /\ IsFiniteSet(A) /\ IsFiniteSet(B) /\ A \cap B = {}
        /\ All(s) = A \cup B /\ \A x \in A \cup B : a[x] \in Int
    BY <1>7, <1>8, <2>1
  <2>3. SumFunctionOnSet(a, A \cup B) = SumFunctionOnSet(a, A) + SumFunctionOnSet(a, B)
    BY <2>2, SumDisjoint
  <2> QED BY <2>1, <2>2, <2>3
<1>11. \A k \in L : b[k] \in Int
  BY SumType
<1>12. SumFunctionOnSet(b, s) = b[l] + SumFunctionOnSet(b, s \ {l})
  BY <1>2, <1>5, <1>11, SumTake
<1>13. SumFunctionOnSet(b, s \ {l}) \in Int /\ b[l] \in Int
  BY <1>2, <1>8, <1>11, SumType
<1>14. SumFunctionOnSet(b, s) = SumFunctionOnSet(a, All(s))
  BY <1>6, <1>8, <1>10, <1>12, <1>13 DEF Good
<1>15. Good(s)
  BY <1>9, <1>14 DEF Good
<1> QED BY <1>15

(* A sum over other names for the same members is the same sum. *)
THEOREM SumImage ==
  ASSUME NEW S, IsFiniteSet(S), NEW g, NEW a, NEW b,
         \A x, y \in S : g[x] = g[y] => x = y,
         \A x \in S : b[x] = a[g[x]] /\ a[g[x]] \in Int
  PROVE  SumFunctionOnSet(a, {g[x] : x \in S}) = SumFunctionOnSet(b, S)
<1> PICK F : F = [x \in S |-> {g[x]}]
  OBVIOUS
<1>1. ASSUME NEW x \in S
      PROVE  IsFiniteSet(F[x]) /\ b[x] = SumFunctionOnSet(a, F[x])
  <2>1. IsFiniteSet({g[x]})
    BY FS_Singleton
  <2>2. /\ SumFunctionOnSet(a, {g[x]})
             = a[g[x]] + SumFunctionOnSet(a, {g[x]} \ {g[x]})
    BY <2>1, SumTake
  <2>3. {g[x]} \ {g[x]} = {}
    OBVIOUS
  <2>4. SumFunctionOnSet(a, {g[x]} \ {g[x]}) = 0
    BY <2>3, SumEmpty
  <2>5. SumFunctionOnSet(a, {g[x]}) = a[g[x]]
    BY <2>2, <2>4
  <2> QED BY <2>1, <2>5
<1>2. \A x, y \in S : x # y => F[x] \cap F[y] = {}
  OBVIOUS
<1>3. \A x \in S : \A y \in F[x] : a[y] \in Int
  OBVIOUS
<1>4. UNION {F[x] : x \in S} = {g[x] : x \in S}
  OBVIOUS
<1>5. \A x \in S : IsFiniteSet(F[x]) /\ b[x] = SumFunctionOnSet(a, F[x])
  BY <1>1
<1>6. SumFunctionOnSet(b, S) = SumFunctionOnSet(a, UNION {F[x] : x \in S})
  BY <1>2, <1>3, <1>5, SumOfSums
<1> QED BY <1>4, <1>6
===============================================================================
