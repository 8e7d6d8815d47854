------------------------------- MODULE SetSums -------------------------------
(***************************************************************************)
(* Sums of a function over a finite set, as the folds of the community     *)
(* modules compute them: an element is chosen, the rest is summed first.   *)
(* The facts are proved by looking at a smallest set that would refute     *)
(* them.                                                                   *)
(***************************************************************************)
EXTENDS Integers, FiniteSets, FiniteSetTheorems, TLAPS

\* The element a fold takes first.
FirstOf(S) == CHOOSE x \in S : TRUE
\* g gives the sum of f over every subset of S.
Sums(g, f, S) ==
  g = [s \in SUBSET S |-> IF s = {} THEN 0 ELSE f[FirstOf(s)] + g[s \ {FirstOf(s)}]]
SumsOf(f, S) == CHOOSE g : Sums(g, f, S)
Total(f, S) == SumsOf(f, S)[S]
-----------------------------------------------------------------------------
\* Among subsets of a finite set there is one with none of the others inside.
LEMMA SmallestSet ==
  ASSUME NEW D, IsFiniteSet(D), NEW Refuting \in SUBSET (SUBSET D), Refuting # {}
  PROVE  \E S \in Refuting : \A T \in SUBSET S : T # S => T \notin Refuting
<1>1. FiniteSubsetsOf(D) = SUBSET D
  BY FS_FiniteSubsetsOfFinite
<1>2. PICK S \in Refuting : \A T \in Refuting : ~ (<<T, S>> \in StrictSubsetOrdering(D))
  BY <1>1, FS_StrictSubsetOrderingWellFounded, WFMin
<1>3. ASSUME NEW T \in SUBSET S, T # S, T \in Refuting PROVE FALSE
  <2>1. <<T, S>> \in StrictSubsetOrdering(D)
    BY <1>3 DEF StrictSubsetOrdering
  <2> QED BY <1>2, <1>3, <2>1
<1> QED BY <1>3

\* Two such functions agree where what they sum does.
LEMMA SumsAgree ==
  ASSUME NEW D, IsFiniteSet(D), NEW S \in SUBSET D, NEW T \in SUBSET D,
         NEW f, NEW e, NEW g, NEW h, Sums(g, f, S), Sums(h, e, T),
         NEW U, U \subseteq S, U \subseteq T, \A x \in U : f[x] = e[x]
  PROVE  g[U] = h[U]
<1> DEFINE Refuting == {s \in SUBSET U : g[s] # h[s]}
<1>1. SUFFICES ASSUME Refuting # {} PROVE FALSE
  BY U \in SUBSET U
<1>2. PICK s \in Refuting : \A t \in SUBSET s : t # s => t \notin Refuting
  <2>1. Refuting \in SUBSET (SUBSET D)
    OBVIOUS
  <2> HIDE DEF Refuting
  <2> QED BY <1>1, <2>1, SmallestSet
<1>3. CASE s = {}
  BY <1>2, <1>3 DEF Sums
<1>4. CASE s # {}
  <2> DEFINE x == FirstOf(s)
  <2>1. x \in s /\ s \subseteq U
    BY <1>2, <1>4 DEF FirstOf
  <2>2. s \ {x} \in SUBSET s /\ s \ {x} # s
    BY <2>1
  <2>3. g[s \ {x}] = h[s \ {x}]
    BY <1>2, <2>1, <2>2
  <2>4. g[s] = f[x] + g[s \ {x}]
    BY <1>4, <2>1 DEF Sums
  <2>5. h[s] = e[x] + h[s \ {x}]
    BY <1>4, <2>1 DEF Sums
  <2> HIDE DEF x
  <2> QED BY <1>2, <2>1, <2>3, <2>4, <2>5
<1> QED BY <1>3, <1>4

\* There is one.
LEMMA SumsExist ==
  ASSUME NEW D, IsFiniteSet(D), NEW S \in SUBSET D, NEW f
  PROVE  Sums(SumsOf(f, S), f, S)
<1> DEFINE Refuting == {s \in SUBSET D : ~ \E g : Sums(g, f, s)}
<1>1. SUFFICES ASSUME Refuting # {} PROVE FALSE
  BY DEF SumsOf
<1>2. PICK T \in Refuting : \A s \in SUBSET T : s # T => s \notin Refuting
  <2>1. Refuting \in SUBSET (SUBSET D)
    OBVIOUS
  <2> HIDE DEF Refuting
  <2> QED BY <1>1, <2>1, SmallestSet
<1> DEFINE rest(s) == s \ {FirstOf(s)}
           val(s) == IF s = {} THEN 0
                     ELSE f[FirstOf(s)] + SumsOf(f, rest(s))[rest(s)]
           g == [s \in SUBSET T |-> val(s)]
<1>3. ASSUME NEW s \in SUBSET T, s # {}
      PROVE  /\ FirstOf(s) \in s /\ rest(s) \in SUBSET T
             /\ Sums(SumsOf(f, rest(s)), f, rest(s))
  <2>1. FirstOf(s) \in s
    BY <1>3 DEF FirstOf
  <2>2. rest(s) \in SUBSET T /\ rest(s) # T
    BY <2>1, <1>3
  <2>3. rest(s) \notin Refuting /\ rest(s) \in SUBSET D
    BY <1>2, <2>2
  <2> QED BY <2>1, <2>2, <2>3 DEF SumsOf
<1>4. ASSUME NEW s \in SUBSET T, s # {}
      PROVE  SumsOf(f, rest(s))[rest(s)] = g[rest(s)]
  <2> DEFINE t == rest(s)
             k == SumsOf(f, t)
  <2>1. t \in SUBSET T /\ Sums(k, f, t)
    BY <1>3, <1>4
  <2>2. CASE t = {}
    <3>1. k[t] = 0
      BY <2>1, <2>2 DEF Sums
    <3> QED BY <2>1, <2>2, <3>1
  <2>3. CASE t # {}
    <3> DEFINE u == rest(t)
               l == SumsOf(f, u)
    <3>1. u \in SUBSET T /\ Sums(l, f, u) /\ u \subseteq t
      BY <1>3, <2>1, <2>3
    <3>2. k[t] = f[FirstOf(t)] + k[u]
      <4> HIDE DEF t, k
      <4> QED BY <2>1, <2>3 DEF Sums
    <3>3. g[t] = f[FirstOf(t)] + l[u]
      BY <2>1, <2>3
    <3>4. T \in SUBSET D /\ t \in SUBSET D /\ u \in SUBSET D
      BY <1>2, <2>1, <3>1
    <3>5. k[u] = l[u]
      <4> HIDE DEF t, k, u, l
      <4> QED BY <2>1, <3>1, <3>4, SumsAgree
    <3> QED BY <3>2, <3>3, <3>5
  <2> QED BY <2>2, <2>3
<1>5. \A s \in SUBSET T : g[s] = IF s = {} THEN 0 ELSE f[FirstOf(s)] + g[s \ {FirstOf(s)}]
  <2> SUFFICES ASSUME NEW s \in SUBSET T
               PROVE  g[s] = IF s = {} THEN 0 ELSE f[FirstOf(s)] + g[s \ {FirstOf(s)}]
    OBVIOUS
  <2>1. g[s] = val(s)
    OBVIOUS
  <2> QED BY <2>1, <1>4
<1>6. Sums(g, f, T)
  BY <1>5 DEF Sums
<1> QED BY <1>2, <1>6
-----------------------------------------------------------------------------
\* A fold that sums the same values gives the total.
LEMMA FoldIsTotal ==
  ASSUME NEW D, IsFiniteSet(D), NEW S \in SUBSET D, NEW f, NEW g, Sums(g, f, S)
  PROVE  g[S] = Total(f, S)
<1> DEFINE h == SumsOf(f, S)
<1>1. Sums(h, f, S)
  BY SumsExist
<1>2. g[S] = h[S]
  <2> HIDE DEF h
  <2> DEFINE U == S
  <2>1. U \subseteq S /\ \A x \in U : f[x] = f[x]
    OBVIOUS
  <2>2. g[U] = h[U]
    <3> HIDE DEF U
    <3> QED BY <1>1, <2>1, SumsAgree
  <2> QED BY <2>2
<1> QED BY <1>2 DEF Total

\* The total takes one element after the other ...
LEMMA TotalByFirst ==
  ASSUME NEW D, IsFiniteSet(D), NEW S \in SUBSET D, NEW f
  PROVE  Total(f, S) = IF S = {} THEN 0 ELSE f[FirstOf(S)] + Total(f, S \ {FirstOf(S)})
<1> DEFINE g == SumsOf(f, S)
           rest == S \ {FirstOf(S)}
           h == SumsOf(f, rest)
<1>1. rest \in SUBSET D /\ rest \subseteq S
  OBVIOUS
<1>2. Sums(g, f, S) /\ Sums(h, f, rest)
  BY <1>1, SumsExist
<1>3. Total(f, S) = g[S] /\ Total(f, rest) = h[rest]
  BY DEF Total
<1>4. g[rest] = h[rest]
  <2> HIDE DEF g, h, rest
  <2> QED BY <1>1, <1>2, SumsAgree
<1>5. g[S] = IF S = {} THEN 0 ELSE f[FirstOf(S)] + g[rest]
  <2> HIDE DEF g
  <2> QED BY <1>2 DEF Sums
<1> HIDE DEF g, h
<1> QED BY <1>3, <1>4, <1>5

LEMMA TotalOfNone == ASSUME NEW f PROVE Total(f, {}) = 0
<1>1. IsFiniteSet({}) /\ {} \in SUBSET {}
  BY FS_EmptySet
<1> QED BY <1>1, TotalByFirst

\* ... and depends on nothing but their values.
LEMMA TotalsAgree ==
  ASSUME NEW D, IsFiniteSet(D), NEW S \in SUBSET D, NEW f, NEW e, \A x \in S : f[x] = e[x]
  PROVE  Total(f, S) = Total(e, S)
<1> DEFINE g == SumsOf(f, S)
           h == SumsOf(e, S)
<1>1. Sums(g, f, S) /\ Sums(h, e, S)
  BY SumsExist
<1>2. Total(f, S) = g[S] /\ Total(e, S) = h[S]
  BY DEF Total
<1>3. g[S] = h[S]
  <2> HIDE DEF g, h
  <2>1. ASSUME NEW U, U \subseteq S, \A x \in U : f[x] = e[x]
        PROVE  g[U] = h[U]
    <3> DEFINE T == S
    <3>1. T \in SUBSET D /\ Sums(h, e, T) /\ U \subseteq T
      BY <1>1, <2>1
    <3> HIDE DEF T
    <3> QED BY <1>1, <2>1, <3>1, SumsAgree
  <2> QED BY <2>1
<1> QED BY <1>2, <1>3

LEMMA TotalIsNat ==
  ASSUME NEW D, IsFiniteSet(D), NEW S \in SUBSET D, NEW f, \A x \in S : f[x] \in Nat
  PROVE  Total(f, S) \in Nat
<1> DEFINE Refuting == {s \in SUBSET S : Total(f, s) \notin Nat}
<1>1. SUFFICES ASSUME Refuting # {} PROVE FALSE
  OBVIOUS
<1>2. PICK s \in Refuting : \A t \in SUBSET s : t # s => t \notin Refuting
  <2>1. Refuting \in SUBSET (SUBSET D)
    OBVIOUS
  <2> HIDE DEF Refuting
  <2> QED BY <1>1, <2>1, SmallestSet
<1>3. s # {}
  <2>1. Total(f, s) \notin Nat
    BY <1>2
  <2>2. Total(f, {}) = 0
    BY TotalOfNone
  <2> QED BY <2>1, <2>2
<1>4. FirstOf(s) \in s
  BY <1>3 DEF FirstOf
<1>5. Total(f, s \ {FirstOf(s)}) \in Nat
  BY <1>2, <1>4
<1>6. Total(f, s) = f[FirstOf(s)] + Total(f, s \ {FirstOf(s)})
  BY <1>2, <1>3, TotalByFirst
<1>7. f[FirstOf(s)] \in Nat
  BY <1>2, <1>4
<1> QED BY <1>2, <1>5, <1>6, <1>7

LEMMA TotalOfZeros ==
  ASSUME NEW D, IsFiniteSet(D), NEW S \in SUBSET D, NEW f, \A x \in S : f[x] = 0
  PROVE  Total(f, S) = 0
<1> DEFINE Refuting == {s \in SUBSET S : Total(f, s) # 0}
<1>1. SUFFICES ASSUME Refuting # {} PROVE FALSE
  OBVIOUS
<1>2. PICK s \in Refuting : \A t \in SUBSET s : t # s => t \notin Refuting
  <2>1. Refuting \in SUBSET (SUBSET D)
    OBVIOUS
  <2> HIDE DEF Refuting
  <2> QED BY <1>1, <2>1, SmallestSet
<1>3. s # {}
  <2>1. Total(f, s) # 0
    BY <1>2
  <2> QED BY <2>1, TotalOfNone
<1>4. FirstOf(s) \in s
  BY <1>3 DEF FirstOf
<1>5. Total(f, s \ {FirstOf(s)}) = 0 /\ f[FirstOf(s)] = 0
  BY <1>2, <1>4
<1>6. Total(f, s) = f[FirstOf(s)] + Total(f, s \ {FirstOf(s)})
  BY <1>2, <1>3, TotalByFirst
<1> QED BY <1>2, <1>5, <1>6

\* One element and the rest, whichever element.
LEMMA TotalWithout ==
  ASSUME NEW D, IsFiniteSet(D), NEW S \in SUBSET D, NEW f, \A x \in S : f[x] \in Nat, NEW x \in S
  PROVE  Total(f, S) = f[x] + Total(f, S \ {x})
<1> DEFINE Splits(s, b) == Total(f, s) = f[b] + Total(f, s \ {b})
           Refuting == {s \in SUBSET S : \E b \in s : ~ Splits(s, b)}
<1>1. SUFFICES ASSUME Refuting # {} PROVE FALSE
  OBVIOUS
<1>2. PICK s \in Refuting : \A t \in SUBSET s : t # s => t \notin Refuting
  <2>1. Refuting \in SUBSET (SUBSET D)
    OBVIOUS
  <2> HIDE DEF Refuting
  <2> QED BY <1>1, <2>1, SmallestSet
<1>3. PICK b \in s : ~ Splits(s, b)
  BY <1>2
<1> DEFINE a == FirstOf(s)
<1>4. a \in s
  BY <1>3 DEF FirstOf
<1>5. Splits(s, a)
  BY <1>2, <1>3, TotalByFirst
<1> HIDE DEF a
<1>6. a # b
  BY <1>3, <1>5
<1>7. s \ {a} \in SUBSET S /\ s \ {b} \in SUBSET S /\ s \ {a} # s /\ s \ {b} # s
  BY <1>2, <1>3, <1>4
<1>8. Splits(s \ {a}, b) /\ Splits(s \ {b}, a)
  BY <1>2, <1>3, <1>4, <1>6, <1>7
<1>9. (s \ {a}) \ {b} = (s \ {b}) \ {a}
  OBVIOUS
<1> DEFINE fa == f[a]
           fb == f[b]
           both == Total(f, (s \ {a}) \ {b})
<1>10. fa \in Nat /\ fb \in Nat
  BY <1>2, <1>3, <1>4
<1>11. both \in Nat
  <2>1. (s \ {a}) \ {b} \in SUBSET D /\ \A c \in (s \ {a}) \ {b} : f[c] \in Nat
    BY <1>2
  <2> QED BY <2>1, TotalIsNat
<1>12. Total(f, s) = fa + (fb + both) /\ Total(f, s \ {b}) = fa + both
  BY <1>5, <1>8, <1>9
<1>13. Total(f, s) # fb + Total(f, s \ {b})
  BY <1>3
<1> HIDE DEF fa, fb, both
<1> QED BY <1>10, <1>11, <1>12, <1>13

\* Some of the elements and the others.
LEMMA TotalApart ==
  ASSUME NEW D, IsFiniteSet(D), NEW S \in SUBSET D, NEW T \in SUBSET S,
         NEW f, \A x \in S : f[x] \in Nat
  PROVE  Total(f, S) = Total(f, T) + Total(f, S \ T)
<1> DEFINE Refuting == {t \in SUBSET S : Total(f, S) # Total(f, t) + Total(f, S \ t)}
<1>1. SUFFICES ASSUME Refuting # {} PROVE FALSE
  OBVIOUS
<1>2. PICK t \in Refuting : \A u \in SUBSET t : u # t => u \notin Refuting
  <2>1. Refuting \in SUBSET (SUBSET D)
    OBVIOUS
  <2> HIDE DEF Refuting
  <2> QED BY <1>1, <2>1, SmallestSet
<1>3. Total(f, S) \in Nat
  BY TotalIsNat
<1>4. CASE t = {}
  <2> DEFINE all == Total(f, S)
  <2>1. Total(f, t) = 0
    BY <1>4, TotalOfNone
  <2>2. S \ t = S
    BY <1>4
  <2>3. all # Total(f, t) + Total(f, S \ t)
    BY <1>2
  <2>4. all # 0 + all
    BY <2>1, <2>2, <2>3
  <2> HIDE DEF all
  <2> QED BY <1>3, <2>4 DEF all
<1>5. CASE t # {}
  <2>1. PICK x \in t : TRUE
    BY <1>5
  <2> DEFINE u == t \ {x}
             left == S \ t
  <2>2. Total(f, S) = Total(f, u) + Total(f, S \ u)
    BY <1>2, <2>1
  <2>3. /\ t \in SUBSET D /\ \A c \in t : f[c] \in Nat
        /\ S \ u \in SUBSET D /\ (\A c \in S \ u : f[c] \in Nat) /\ x \in S \ u
        /\ u \in SUBSET D /\ \A c \in u : f[c] \in Nat
        /\ left \in SUBSET D /\ \A c \in left : f[c] \in Nat
        /\ (S \ u) \ {x} = left
    BY <1>2
  <2>4. Total(f, t) = f[x] + Total(f, u)
    BY <2>3, TotalWithout
  <2>5. Total(f, S \ u) = f[x] + Total(f, left)
    <3> DEFINE most == S \ u
    <3>1. /\ most \in SUBSET D /\ x \in most /\ most \ {x} = left
          /\ \A c \in most : f[c] \in Nat
      BY <2>3
    <3> HIDE DEF most, left
    <3>2. Total(f, most) = f[x] + Total(f, most \ {x})
      BY <3>1, TotalWithout
    <3> QED BY <3>1, <3>2 DEF most
  <2>6. Total(f, u) \in Nat /\ Total(f, left) \in Nat /\ f[x] \in Nat
    BY <2>3, TotalIsNat
  <2>7. Total(f, S) # Total(f, t) + Total(f, left)
    BY <1>2
  <2> HIDE DEF u, left
  <2> QED BY <2>2, <2>4, <2>5, <2>6, <2>7
<1> QED BY <1>4, <1>5

\* When one value changes, the total changes by as much.
LEMMA TotalWithOneChanged ==
  ASSUME NEW D, IsFiniteSet(D), NEW f, NEW e, NEW x \in D,
         \A y \in D : f[y] \in Nat /\ e[y] \in Nat, \A y \in D \ {x} : f[y] = e[y]
  PROVE  Total(e, D) - e[x] = Total(f, D) - f[x]
<1> DEFINE rest == Total(f, D \ {x})
<1>1. D \in SUBSET D /\ D \ {x} \in SUBSET D
  OBVIOUS
<1>2. Total(f, D) = f[x] + rest
  BY <1>1, TotalWithout
<1>3. Total(e, D) = e[x] + Total(e, D \ {x})
  BY <1>1, TotalWithout
<1>4. Total(e, D \ {x}) = rest
  BY <1>1, TotalsAgree
<1>5. rest \in Nat
  BY <1>1, TotalIsNat
<1> HIDE DEF rest
<1> QED BY <1>2, <1>3, <1>4, <1>5
=============================================================================
