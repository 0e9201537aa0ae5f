---------------------------- MODULE SumTheorems ----------------------------
(***************************************************************************)
(* Sums over finite sets: SumFunctionOnSet, which the community modules    *)
(* define by a recursion that takes the elements in an order nobody knows, *)
(* is what one expects of a sum.                                           *)
(*                                                                         *)
(* Induction is used in its first-order form: a set of subsets of a finite *)
(* set that is not empty has a minimal member, and a set of natural        *)
(* numbers a least one.                                                    *)
(***************************************************************************)
EXTENDS Functions, FiniteSetTheorems, TLAPS

LEMMA MinimalSubset ==
  ASSUME NEW S, IsFiniteSet(S), NEW F \in SUBSET (SUBSET S), F # {}
  PROVE  \E s \in F : \A t \in F : t \subseteq s => t = s
<1>1. F \subseteq FiniteSubsetsOf(S)
  BY FS_FiniteSubsetsOfFinite
<1>2. PICK s \in F : \A t \in F : <<t, s>> \notin StrictSubsetOrdering(S)
  <2>1. IsWellFoundedOn(StrictSubsetOrdering(S), FiniteSubsetsOf(S))
    BY FS_StrictSubsetOrderingWellFounded
  <2> HIDE DEF StrictSubsetOrdering, FiniteSubsetsOf
  <2> QED BY <1>1, <2>1, WFMin
<1>3. \A t \in F : t \subseteq s => t = s
  BY <1>2 DEF StrictSubsetOrdering
<1> QED BY <1>3

\* The same for natural numbers.
LEMMA LeastMember ==
  ASSUME NEW B \in SUBSET Nat, B # {}
  PROVE  \E n \in B : \A m \in B : n <= m
<1>1. PICK b \in B : TRUE
  OBVIOUS
<1> DEFINE F == {0 .. k : k \in {m \in B : m <= b}}
<1>2. IsFiniteSet(0 .. b)
  BY FS_Interval
<1>3. F \in SUBSET (SUBSET (0 .. b)) /\ F # {}
  BY <1>1
<1>4. PICK s \in F : \A t \in F : t \subseteq s => t = s
  <2> DEFINE S == 0 .. b
  <2>1. IsFiniteSet(S) /\ F \in SUBSET (SUBSET S) /\ F # {}
    BY <1>2, <1>3
  <2> HIDE DEF F, S
  <2> QED BY <2>1, MinimalSubset
<1>5. PICK n \in B : n <= b /\ s = 0 .. n
  OBVIOUS
<1>6. ASSUME NEW m \in B PROVE n <= m
  <2> SUFFICES ASSUME m < n PROVE FALSE
    BY <1>5
  <2>1. 0 .. m \in F
    BY <1>5
  <2>2. 0 .. m \subseteq s /\ n \in s /\ n \notin 0 .. m
    BY <1>5
  <2> QED BY <1>4, <2>1, <2>2
<1> QED BY <1>5, <1>6

-----------------------------------------------------------------------------
(* The recursion behind SumFunctionOnSet.                                   *)

Pick(s) == CHOOSE x \in s : TRUE
Rest(s) == s \ {Pick(s)}

\* g adds up the values of f, element by element, for every subset of S.
AddsUp(g, f, S) ==
  g = [s \in SUBSET S |-> IF s = {} THEN 0 ELSE f[Pick(s)] + g[Rest(s)]]

LEMMA PickRest ==
  ASSUME NEW s, s # {}
  PROVE  Pick(s) \in s /\ Rest(s) \subseteq s /\ Rest(s) # s
BY DEF Pick, Rest

\* Two functions that add up agree wherever both are defined.
LEMMA AddsUpUnique ==
  ASSUME NEW S, IsFiniteSet(S), NEW f, NEW g, NEW h, NEW T, NEW U,
         T \subseteq S, U \subseteq S, AddsUp(g, f, T), AddsUp(h, f, U),
         NEW s, s \subseteq T, s \subseteq U
  PROVE  g[s] = h[s]
<1> DEFINE bad == {t \in SUBSET S : t \subseteq T /\ t \subseteq U /\ g[t] # h[t]}
<1> SUFFICES ASSUME bad # {} PROVE FALSE
  OBVIOUS
<1>1. PICK t \in bad : \A u \in bad : u \subseteq t => u = t
  <2>1. bad \in SUBSET (SUBSET S) /\ bad # {}
    OBVIOUS
  <2> HIDE DEF bad
  <2> QED BY <2>1, MinimalSubset
<1>2. g[t] = IF t = {} THEN 0 ELSE f[Pick(t)] + g[Rest(t)]
  BY DEF AddsUp
<1>3. h[t] = IF t = {} THEN 0 ELSE f[Pick(t)] + h[Rest(t)]
  BY DEF AddsUp
<1>4. t # {}
  BY <1>2, <1>3
<1>5. Rest(t) \subseteq t /\ Rest(t) # t
  BY <1>4, PickRest
<1>6. g[Rest(t)] = h[Rest(t)]
  BY <1>1, <1>5
<1> QED BY <1>1, <1>2, <1>3, <1>4, <1>6

LEMMA AddsUpExists ==
  ASSUME NEW S, IsFiniteSet(S), NEW f
  PROVE  \E g : AddsUp(g, f, S)
<1> DEFINE Good(u) == \E g : AddsUp(g, f, u)
           bad     == {u \in SUBSET S : ~Good(u)}
<1>1. ASSUME NEW u \in SUBSET S, \A t \in SUBSET u : t # u => Good(t)
      PROVE  Good(u)
  <2> DEFINE G(t) == CHOOSE g : AddsUp(g, f, t)
             V(t) == G(t)[t]
             h    == [s \in SUBSET u |-> IF s = {} THEN 0 ELSE f[Pick(s)] + V(Rest(s))]
  <2>1. \A t \in SUBSET u : t # u => AddsUp(G(t), f, t)
    BY <1>1
  <2>2. ASSUME NEW t \in SUBSET u, t # u
        PROVE  h[t] = V(t)
    <3> HIDE DEF G
    <3>1. AddsUp(G(t), f, t)
      BY <2>1, <2>2
    <3>2. V(t) = IF t = {} THEN 0 ELSE f[Pick(t)] + G(t)[Rest(t)]
      BY <3>1 DEF AddsUp
    <3>3. CASE t = {}
      BY <3>2, <3>3
    <3>4. CASE t # {}
      <4>1. Rest(t) \subseteq t /\ Rest(t) # t
        BY <3>4, PickRest
      <4>2. AddsUp(G(Rest(t)), f, Rest(t))
        BY <2>1, <2>2, <4>1
      <4>3. G(t)[Rest(t)] = V(Rest(t))
        BY <3>1, <4>1, <4>2, AddsUpUnique
      <4> QED BY <3>2, <3>4, <4>3
    <3> QED BY <3>3, <3>4
  <2>3. \A s \in SUBSET u : s # {} => V(Rest(s)) = h[Rest(s)]
    <3> HIDE DEF V, h
    <3> TAKE s \in SUBSET u
    <3> HAVE s # {}
    <3>1. Rest(s) \subseteq s /\ Rest(s) # s
      BY PickRest
    <3>2. Rest(s) \in SUBSET u /\ Rest(s) # u
      BY <3>1
    <3> QED BY <2>2, <3>2
  <2>4. AddsUp(h, f, u)
    <3> HIDE DEF V
    <3> QED BY <2>3 DEF AddsUp
  <2> QED BY <2>4
<1>2. bad = {}
  <2> HIDE DEF Good
  <2> SUFFICES ASSUME bad # {} PROVE FALSE
    OBVIOUS
  <2>1. PICK u \in bad : \A t \in bad : t \subseteq u => t = u
    <3>1. bad \in SUBSET (SUBSET S) /\ bad # {}
      OBVIOUS
    <3> HIDE DEF bad
    <3> QED BY <3>1, MinimalSubset
  <2> QED BY <1>1, <2>1
<1> QED BY <1>2

\* SumFunctionOnSet is the value of that recursion.
LEMMA SumAddsUp ==
  ASSUME NEW S, IsFiniteSet(S), NEW f
  PROVE  \E g : AddsUp(g, f, S) /\ SumFunctionOnSet(f, S) = g[S]
<1> DEFINE g == CHOOSE g : AddsUp(g, f, S)
<1>1. AddsUp(g, f, S)
  BY AddsUpExists
<1>2. SumFunctionOnSet(f, S) = g[S]
  BY DEF SumFunctionOnSet, FoldFunctionOnSet, MapThenFoldSet, AddsUp, Pick, Rest
<1> QED BY <1>1, <1>2

-----------------------------------------------------------------------------
(* What the recursion gives.                                                *)

LEMMA SumEmpty == ASSUME NEW f PROVE SumFunctionOnSet(f, {}) = 0
<1>1. IsFiniteSet({})
  BY FS_EmptySet
<1>2. PICK g : AddsUp(g, f, {}) /\ SumFunctionOnSet(f, {}) = g[{}]
  BY <1>1, SumAddsUp
<1> QED BY <1>2 DEF AddsUp

LEMMA SumPick ==
  ASSUME NEW S, IsFiniteSet(S), S # {}, NEW f
  PROVE  SumFunctionOnSet(f, S) = f[Pick(S)] + SumFunctionOnSet(f, Rest(S))
<1>1. Pick(S) \in S /\ Rest(S) \subseteq S
  BY PickRest
<1>2. IsFiniteSet(Rest(S))
  BY <1>1, FS_Subset
<1>3. PICK g : AddsUp(g, f, S) /\ SumFunctionOnSet(f, S) = g[S]
  BY SumAddsUp
<1>4. PICK h : AddsUp(h, f, Rest(S)) /\ SumFunctionOnSet(f, Rest(S)) = h[Rest(S)]
  BY <1>2, SumAddsUp
<1>5. g[Rest(S)] = h[Rest(S)]
  BY <1>1, <1>3, <1>4, AddsUpUnique
<1>6. g[S] = f[Pick(S)] + g[Rest(S)]
  BY <1>3 DEF AddsUp
<1> QED BY <1>3, <1>4, <1>5, <1>6

\* A sum of integers is an integer.
LEMMA SumIsInt ==
  ASSUME NEW S, IsFiniteSet(S), NEW f, \A x \in S : f[x] \in Int
  PROVE  SumFunctionOnSet(f, S) \in Int
<1> DEFINE bad == {t \in SUBSET S : SumFunctionOnSet(f, t) \notin Int}
<1> SUFFICES ASSUME bad # {} PROVE FALSE
  OBVIOUS
<1>1. PICK t \in bad : \A u \in bad : u \subseteq t => u = t
  <2>1. bad \in SUBSET (SUBSET S) /\ bad # {}
    OBVIOUS
  <2> HIDE DEF bad
  <2> QED BY <2>1, MinimalSubset
<1>2. t \in SUBSET S /\ IsFiniteSet(t) /\ SumFunctionOnSet(f, t) \notin Int
  BY FS_Subset
<1>3. t # {}
  BY <1>2, SumEmpty
<1>4. Pick(t) \in t /\ Rest(t) \subseteq t /\ Rest(t) # t
  BY <1>3, PickRest
<1>5. SumFunctionOnSet(f, t) = f[Pick(t)] + SumFunctionOnSet(f, Rest(t))
  BY <1>2, <1>3, SumPick
<1>6. SumFunctionOnSet(f, Rest(t)) \in Int
  BY <1>1, <1>2, <1>4
<1> QED BY <1>2, <1>4, <1>5, <1>6

\* Any element may be taken out first.
LEMMA SumRemove ==
  ASSUME NEW S, IsFiniteSet(S), NEW f, \A x \in S : f[x] \in Int, NEW a \in S
  PROVE  SumFunctionOnSet(f, S) = f[a] + SumFunctionOnSet(f, S \ {a})
<1> DEFINE Taken(t) == \A x \in t : SumFunctionOnSet(f, t) = f[x] + SumFunctionOnSet(f, t \ {x})
           bad == {t \in SUBSET S : ~Taken(t)}
<1>1. bad = {}
  <2> SUFFICES ASSUME bad # {} PROVE FALSE
    OBVIOUS
  <2>1. PICK t \in bad : \A u \in bad : u \subseteq t => u = t
    <3>1. bad \in SUBSET (SUBSET S) /\ bad # {}
      OBVIOUS
    <3> HIDE DEF bad
    <3> QED BY <3>1, MinimalSubset
  <2>2. PICK x \in t : SumFunctionOnSet(f, t) # f[x] + SumFunctionOnSet(f, t \ {x})
    OBVIOUS
  <2>3. t \in SUBSET S /\ t # {} /\ x \in S
    OBVIOUS
  <2>4. \A u \in SUBSET S : IsFiniteSet(u) /\ SumFunctionOnSet(f, u) \in Int
    <3> TAKE u \in SUBSET S
    <3>1. IsFiniteSet(u)
      BY FS_Subset
    <3> QED BY <3>1, SumIsInt
  <2> DEFINE p == Pick(t)
             r == Rest(t)
  <2>5. p \in t /\ r = t \ {p} /\ p \in S
    BY <2>3, PickRest DEF Rest
  <2>6. SumFunctionOnSet(f, t) = f[p] + SumFunctionOnSet(f, r)
    BY <2>3, <2>4, SumPick
  <2>7. x # p
    BY <2>2, <2>5, <2>6
  <2>8. Taken(r) /\ Taken(t \ {x})
    <3>1. r \in SUBSET S /\ r \subseteq t /\ r # t
      BY <2>3, <2>5
    <3>2. t \ {x} \in SUBSET S /\ t \ {x} \subseteq t /\ t \ {x} # t
      BY <2>3
    <3> HIDE DEF Taken, r
    <3> QED BY <2>1, <3>1, <3>2
  <2>9. SumFunctionOnSet(f, r) = f[x] + SumFunctionOnSet(f, r \ {x})
    BY <2>5, <2>7, <2>8
  <2>10. SumFunctionOnSet(f, t \ {x}) = f[p] + SumFunctionOnSet(f, (t \ {x}) \ {p})
    BY <2>5, <2>7, <2>8
  <2>11. r \ {x} = (t \ {x}) \ {p}
    BY <2>5
  <2>12. /\ f[x] \in Int /\ f[p] \in Int
         /\ SumFunctionOnSet(f, (t \ {x}) \ {p}) \in Int
    BY <2>3, <2>4, <2>5
  <2>13. SumFunctionOnSet(f, r) = f[x] + SumFunctionOnSet(f, (t \ {x}) \ {p})
    BY <2>9, <2>11
  <2> DEFINE rest == SumFunctionOnSet(f, (t \ {x}) \ {p})
             less == SumFunctionOnSet(f, t \ {x})
             all  == SumFunctionOnSet(f, t)
  <2>14. /\ all = f[p] + (f[x] + rest) /\ less = f[p] + rest /\ all # f[x] + less
         /\ f[x] \in Int /\ f[p] \in Int /\ rest \in Int
    BY <2>2, <2>6, <2>10, <2>12, <2>13
  <2> HIDE DEF p, all, less, rest
  <2> QED BY <2>14
<1>2. Taken(S)
  BY <1>1
<1> QED BY <1>2

\* Only the values on the set count.
LEMMA SumSame ==
  ASSUME NEW S, IsFiniteSet(S), NEW f, NEW g, \A x \in S : f[x] = g[x]
  PROVE  SumFunctionOnSet(f, S) = SumFunctionOnSet(g, S)
<1> DEFINE bad == {t \in SUBSET S : SumFunctionOnSet(f, t) # SumFunctionOnSet(g, t)}
<1> SUFFICES ASSUME bad # {} PROVE FALSE
  OBVIOUS
<1>1. PICK t \in bad : \A u \in bad : u \subseteq t => u = t
  <2>1. bad \in SUBSET (SUBSET S) /\ bad # {}
    OBVIOUS
  <2> HIDE DEF bad
  <2> QED BY <2>1, MinimalSubset
<1>2. t \in SUBSET S /\ IsFiniteSet(t) /\ SumFunctionOnSet(f, t) # SumFunctionOnSet(g, t)
  BY FS_Subset
<1>3. t # {}
  BY <1>2, SumEmpty
<1>4. Pick(t) \in t /\ Rest(t) \subseteq t /\ Rest(t) # t
  BY <1>3, PickRest
<1>5. /\ SumFunctionOnSet(f, t) = f[Pick(t)] + SumFunctionOnSet(f, Rest(t))
      /\ SumFunctionOnSet(g, t) = g[Pick(t)] + SumFunctionOnSet(g, Rest(t))
  BY <1>2, <1>3, SumPick
<1>6. SumFunctionOnSet(f, Rest(t)) = SumFunctionOnSet(g, Rest(t))
  BY <1>1, <1>2, <1>4
<1> QED BY <1>2, <1>4, <1>5, <1>6

\* A larger set of natural numbers has a larger sum.
LEMMA SumIsNat ==
  ASSUME NEW S, IsFiniteSet(S), NEW f, \A x \in S : f[x] \in Nat
  PROVE  SumFunctionOnSet(f, S) \in Nat
<1> DEFINE bad == {t \in SUBSET S : SumFunctionOnSet(f, t) \notin Nat}
<1> SUFFICES ASSUME bad # {} PROVE FALSE
  OBVIOUS
<1>1. PICK t \in bad : \A u \in bad : u \subseteq t => u = t
  <2>1. bad \in SUBSET (SUBSET S) /\ bad # {}
    OBVIOUS
  <2> HIDE DEF bad
  <2> QED BY <2>1, MinimalSubset
<1>2. t \in SUBSET S /\ IsFiniteSet(t) /\ SumFunctionOnSet(f, t) \notin Nat
  BY FS_Subset
<1>3. t # {}
  BY <1>2, SumEmpty
<1>4. Pick(t) \in t /\ Rest(t) \subseteq t /\ Rest(t) # t
  BY <1>3, PickRest
<1>5. SumFunctionOnSet(f, t) = f[Pick(t)] + SumFunctionOnSet(f, Rest(t))
  BY <1>2, <1>3, SumPick
<1>6. SumFunctionOnSet(f, Rest(t)) \in Nat
  BY <1>1, <1>2, <1>4
<1> QED BY <1>2, <1>4, <1>5, <1>6

\* One element more adds its value.
LEMMA SumAdd ==
  ASSUME NEW S, IsFiniteSet(S), NEW f, NEW g, NEW a, a \notin S, f[a] \in Int,
         \A x \in S : f[x] = g[x] /\ g[x] \in Int
  PROVE  SumFunctionOnSet(f, S \cup {a}) = f[a] + SumFunctionOnSet(g, S)
<1> DEFINE T == S \cup {a}
<1>1. IsFiniteSet(T) /\ a \in T /\ \A x \in T : f[x] \in Int
  BY FS_AddElement
<1>2. T \ {a} = S
  OBVIOUS
<1> HIDE DEF T
<1>3. SumFunctionOnSet(f, T) = f[a] + SumFunctionOnSet(f, S)
  BY <1>1, <1>2, SumRemove
<1> QED BY <1>3, SumSame DEF T

\* A larger set of natural numbers has a sum no smaller.
LEMMA SumGrows ==
  ASSUME NEW T, IsFiniteSet(T), NEW S, S \subseteq T, NEW f, NEW g,
         \A x \in T : f[x] \in Nat, \A x \in S : f[x] = g[x]
  PROVE  SumFunctionOnSet(g, S) <= SumFunctionOnSet(f, T)
<1> DEFINE bad == {u \in SUBSET T : S \subseteq u /\ ~(SumFunctionOnSet(g, S) <= SumFunctionOnSet(f, u))}
<1> SUFFICES ASSUME bad # {} PROVE FALSE
  OBVIOUS
<1>1. PICK u \in bad : \A w \in bad : w \subseteq u => w = u
  <2>1. bad \in SUBSET (SUBSET T) /\ bad # {}
    OBVIOUS
  <2> HIDE DEF bad
  <2> QED BY <2>1, MinimalSubset
<1>2. u \in SUBSET T /\ S \subseteq u /\ ~(SumFunctionOnSet(g, S) <= SumFunctionOnSet(f, u))
      /\ IsFiniteSet(u) /\ IsFiniteSet(S)
  BY FS_Subset
<1>3. SumFunctionOnSet(f, S) = SumFunctionOnSet(g, S) /\ SumFunctionOnSet(f, S) \in Nat
  BY <1>2, SumSame, SumIsNat
<1>4. PICK a \in u : a \notin S
  BY <1>2, <1>3
<1>5. SumFunctionOnSet(f, u) = f[a] + SumFunctionOnSet(f, u \ {a})
  BY <1>2, SumRemove
<1>6. SumFunctionOnSet(f, u \ {a}) \in Nat /\ f[a] \in Nat
  <2>1. IsFiniteSet(u \ {a})
    BY <1>2, FS_Subset
  <2> QED BY <1>2, <2>1, SumIsNat
<1>7. SumFunctionOnSet(g, S) <= SumFunctionOnSet(f, u \ {a})
  <2>1. u \ {a} \in SUBSET T /\ S \subseteq u \ {a} /\ u \ {a} # u
    BY <1>2, <1>4
  <2> QED BY <1>1, <2>1
<1> QED BY <1>2, <1>3, <1>5, <1>6, <1>7
=============================================================================
