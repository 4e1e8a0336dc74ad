---------------------------- MODULE Sums_proofs -----------------------------
(***************************************************************************)
(* Lemmas about SumOver: its type, and how it changes with its set and     *)
(* with its function.                                                      *)
(***************************************************************************)
EXTENDS Sums, FiniteSetTheorems, TLAPS

\* The units counted for one element x of a sum are f[x] many.
LEMMA UnitsOfOne ==
    ASSUME NEW x, NEW n \in Nat
    PROVE  /\ IsFiniteSet({x} \X (1 .. n))
           /\ Cardinality({x} \X (1 .. n)) = n
<1>1. IsFiniteSet({x}) /\ Cardinality({x}) = 1
  BY FS_Singleton
<1>2. IsFiniteSet(1 .. n) /\ Cardinality(1 .. n) = n
  BY FS_Interval
<1>3. /\ IsFiniteSet({x} \X (1 .. n))
      /\ Cardinality({x} \X (1 .. n)) = Cardinality({x}) * Cardinality(1 .. n)
  BY <1>1, <1>2, FS_Product, Zenon
<1> QED
  BY <1>1, <1>2, <1>3

\* The units of a finite sum are finitely many.
LEMMA UnitsFinite ==
    ASSUME NEW f, NEW S, IsFiniteSet(S), \A x \in S : f[x] \in Nat
    PROVE  IsFiniteSet(Units(f, S))
<1> DEFINE T == {{x} \X (1 .. f[x]) : x \in S}
           g == [x \in S |-> {x} \X (1 .. f[x])]
<1>1. g \in Surjection(S, T)
  BY DEF Surjection
<1>2. IsFiniteSet(T)
  BY <1>1, FS_Surjection
<1>3. ASSUME NEW u \in T PROVE IsFiniteSet(u)
  <2>1. PICK x \in S : u = {x} \X (1 .. f[x])
    OBVIOUS
  <2>2. IsFiniteSet({x} \X (1 .. f[x]))
    BY UnitsOfOne
  <2> QED
    BY <2>1, <2>2
<1> HIDE DEF T, g
<1>4. IsFiniteSet(UNION T)
  BY <1>2, <1>3, FS_UNION
<1> QED
  BY <1>4 DEF T, Units

\* A finite sum of naturals is a natural.
LEMMA SumType ==
    ASSUME NEW f, NEW S, IsFiniteSet(S), \A x \in S : f[x] \in Nat
    PROVE  SumOver(f, S) \in Nat
  BY UnitsFinite, FS_CardinalityType DEF SumOver

\* The empty sum is zero.
LEMMA SumEmpty == ASSUME NEW f PROVE SumOver(f, {}) = 0
<1>1. Units(f, {}) = {}
  BY DEF Units
<1> QED
  BY <1>1, FS_EmptySet DEF SumOver

\* A sum of zeros is zero.
LEMMA SumZero ==
    ASSUME NEW f, NEW S, \A x \in S : f[x] = 0
    PROVE  SumOver(f, S) = 0
<1>1. Units(f, S) = {}
  BY DEF Units
<1> QED
  BY <1>1, FS_EmptySet DEF SumOver

\* A sum depends only on the values of the function on the set.
LEMMA SumSame ==
    ASSUME NEW f, NEW g, NEW S, \A x \in S : f[x] = g[x]
    PROVE  SumOver(f, S) = SumOver(g, S)
<1>1. Units(f, S) = Units(g, S)
  BY DEF Units
<1> QED
  BY <1>1 DEF SumOver

\* The sum over one element.
LEMMA SumOne ==
    ASSUME NEW f, NEW x, f[x] \in Nat
    PROVE  SumOver(f, {x}) = f[x]
<1>1. Units(f, {x}) = {x} \X (1 .. f[x])
  BY DEF Units
<1> QED
  BY <1>1, UnitsOfOne DEF SumOver

\* A sum over two disjoint sets is the sum of the sums.
LEMMA SumSplit ==
    ASSUME NEW f, NEW S, NEW T, IsFiniteSet(S), IsFiniteSet(T), S \cap T = {},
           \A x \in S \cup T : f[x] \in Nat
    PROVE  SumOver(f, S \cup T) = SumOver(f, S) + SumOver(f, T)
<1>1. Units(f, S \cup T) = Units(f, S) \cup Units(f, T)
  BY DEF Units
<1>2. Units(f, S) \cap Units(f, T) = {}
  BY DEF Units
<1>3. IsFiniteSet(Units(f, S)) /\ IsFiniteSet(Units(f, T))
  BY UnitsFinite
<1>4. /\ Cardinality(Units(f, S)) \in Nat
      /\ Cardinality(Units(f, T)) \in Nat
  BY <1>3, FS_CardinalityType
<1>5. Cardinality(Units(f, S) \cup Units(f, T))
        = Cardinality(Units(f, S)) + Cardinality(Units(f, T)) - Cardinality({})
  BY <1>2, <1>3, FS_Union
<1>6. Cardinality({}) = 0
  BY FS_EmptySet
<1>7. Cardinality(Units(f, S \cup T)) = Cardinality(Units(f, S) \cup Units(f, T))
  BY <1>1, Zenon
<1> QED
  BY <1>4, <1>5, <1>6, <1>7 DEF SumOver

\* Taking elements out of a sum.
LEMMA SumWithout ==
    ASSUME NEW f, NEW S, NEW T, IsFiniteSet(S), T \subseteq S,
           \A x \in S : f[x] \in Nat
    PROVE  SumOver(f, S \ T) = SumOver(f, S) - SumOver(f, T)
<1>1. IsFiniteSet(T) /\ IsFiniteSet(S \ T)
  BY FS_Subset
<1>2. SumOver(f, S) = SumOver(f, S \ T) + SumOver(f, T)
  <2>1. S = (S \ T) \cup T /\ (S \ T) \cap T = {}
    OBVIOUS
  <2>2. SumOver(f, (S \ T) \cup T) = SumOver(f, S \ T) + SumOver(f, T)
    BY <1>1, <2>1, SumSplit
  <2> QED
    BY <2>1, <2>2
<1>3. SumOver(f, S \ T) \in Nat /\ SumOver(f, T) \in Nat
  BY <1>1, SumType
<1> QED
  BY <1>2, <1>3

\* Changing the value of one element of a sum.
LEMMA SumUpdate ==
    ASSUME NEW f, NEW g, NEW S, NEW c \in S, IsFiniteSet(S),
           \A x \in S : f[x] \in Nat /\ g[x] \in Nat,
           \A x \in S \ {c} : f[x] = g[x]
    PROVE  SumOver(g, S) = SumOver(f, S) - f[c] + g[c]
<1>1. SumOver(f, S \ {c}) = SumOver(f, S) - f[c]
  <2>1. SumOver(f, S \ {c}) = SumOver(f, S) - SumOver(f, {c})
    BY SumWithout
  <2>2. SumOver(f, {c}) = f[c]
    BY SumOne
  <2> QED
    BY <2>1, <2>2
<1>2. SumOver(g, S \ {c}) = SumOver(g, S) - g[c]
  <2>1. SumOver(g, S \ {c}) = SumOver(g, S) - SumOver(g, {c})
    BY SumWithout
  <2>2. SumOver(g, {c}) = g[c]
    BY SumOne
  <2> QED
    BY <2>1, <2>2
<1>3. SumOver(f, S \ {c}) = SumOver(g, S \ {c})
  BY SumSame
<1>4. SumOver(f, S) \in Nat /\ SumOver(g, S) \in Nat
  BY SumType
<1> QED
  BY <1>1, <1>2, <1>3, <1>4
=============================================================================
