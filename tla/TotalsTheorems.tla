--------------------------- MODULE TotalsTheorems ---------------------------
(***************************************************************************)
(* What Total returns: a natural number, 0 for no rows, and one row's      *)
(* amount more when that row is added.                                     *)
(***************************************************************************)
EXTENDS Totals, FiniteSetTheorems, TLAPS

\* The pairs counted by a total are finitely many.
LEMMA UnitsFinite ==
    ASSUME NEW S, IsFiniteSet(S), NEW D, S \subseteq D, NEW f \in [D -> Nat]
    PROVE  IsFiniteSet(Units(S, f))
<1> DEFINE block(x) == {x} \X (1..f[x])
           blocks == {block(x) : x \in S}
           make == [x \in S |-> block(x)]
<1>1. make \in Surjection(S, blocks)
  BY DEF Surjection
<1>2. IsFiniteSet(blocks)
  BY <1>1, FS_Surjection
<1>3. \A x \in S : IsFiniteSet(block(x))
  <2> TAKE x \in S
  <2>1. IsFiniteSet({x})
    BY FS_Singleton
  <2>2. IsFiniteSet(1..f[x])
    <3>1. 1 \in Int /\ f[x] \in Int
      OBVIOUS
    <3> QED
      BY <3>1, FS_Interval
  <2> QED
    BY <2>1, <2>2, FS_Product
<1>4. \A T \in blocks : IsFiniteSet(T)
  BY <1>3
<1> QED
  BY <1>2, <1>4, FS_UNION DEF Units

\* A total is a natural number.
LEMMA TotalType ==
    ASSUME NEW S, IsFiniteSet(S), NEW D, S \subseteq D, NEW f \in [D -> Nat]
    PROVE  Total(S, f) \in Nat
BY UnitsFinite, FS_CardinalityType DEF Total

\* No rows, no amount.
LEMMA TotalEmpty ==
    ASSUME NEW f
    PROVE  Total({}, f) = 0
<1>1. Units({}, f) = {}
  BY DEF Units
<1> QED
  BY <1>1, FS_EmptySet DEF Total

\* The total depends on the amounts of the rows only.
LEMMA TotalAgree ==
    ASSUME NEW S, NEW D, S \subseteq D, NEW f \in [D -> Nat],
           NEW E, S \subseteq E, NEW g \in [E -> Nat],
           \A x \in S : f[x] = g[x]
    PROVE  Total(S, f) = Total(S, g)
<1>1. Units(S, f) = Units(S, g)
  BY DEF Units
<1> QED
  BY <1>1 DEF Total

\* Adding a row adds its amount.
LEMMA TotalAdd ==
    ASSUME NEW S, IsFiniteSet(S), NEW x, x \notin S, NEW T, T = S \cup {x},
           NEW D, T \subseteq D, NEW f \in [D -> Nat]
    PROVE  Total(T, f) = Total(S, f) + f[x]
<1> DEFINE block == {x} \X (1..f[x])
<1>0. f[x] \in Nat
  OBVIOUS
<1>1. Units(T, f) = Units(S, f) \cup block
  BY DEF Units
<1>2. Units(S, f) \cap block = {}
  BY DEF Units
<1>3. IsFiniteSet(Units(S, f)) /\ Cardinality(Units(S, f)) \in Nat
  BY UnitsFinite, FS_CardinalityType
<1>4. IsFiniteSet(block) /\ Cardinality(block) = f[x]
  <2>1. IsFiniteSet({x}) /\ Cardinality({x}) = 1
    BY FS_Singleton
  <2>2. IsFiniteSet(1..f[x]) /\ Cardinality(1..f[x]) = f[x]
    <3>1. 1 \in Int /\ f[x] \in Int /\ f[x] - 1 + 1 = f[x] /\ (1 > f[x] => f[x] = 0)
      BY <1>0
    <3> QED
      BY <3>1, FS_Interval
  <2>3. IsFiniteSet(block) /\ Cardinality(block) = Cardinality({x}) * Cardinality(1..f[x])
    BY <2>1, <2>2, FS_Product
  <2> QED
    BY <1>0, <2>1, <2>2, <2>3
<1>5. Cardinality(Units(S, f) \cup block)
        = Cardinality(Units(S, f)) + Cardinality(block) - Cardinality(Units(S, f) \cap block)
  BY <1>3, <1>4, FS_Union
<1>6. Cardinality(Units(S, f) \cap block) = 0
  BY <1>2, FS_EmptySet
<1>7. /\ Total(T, f) = Cardinality(Units(S, f) \cup block)
      /\ Total(S, f) = Cardinality(Units(S, f))
  BY <1>1 DEF Total
<1> HIDE DEF block
<1> QED
  BY <1>0, <1>3, <1>4, <1>5, <1>6, <1>7

\* Fewer rows have no more.
LEMMA TotalMonotone ==
    ASSUME NEW T, IsFiniteSet(T), NEW S \in SUBSET T, NEW D, T \subseteq D, NEW f \in [D -> Nat]
    PROVE  Total(S, f) <= Total(T, f)
<1>1. Units(S, f) \subseteq Units(T, f)
  BY DEF Units
<1> QED
  BY <1>1, UnitsFinite, FS_Subset DEF Total

\* Two sets of rows together have no more than the one and the other.
LEMMA TotalUnion ==
    ASSUME NEW S, IsFiniteSet(S), NEW T, IsFiniteSet(T),
           NEW D, S \subseteq D, T \subseteq D, NEW f \in [D -> Nat]
    PROVE  Total(S \cup T, f) <= Total(S, f) + Total(T, f)
<1>1. Units(S \cup T, f) = Units(S, f) \cup Units(T, f)
  BY DEF Units
<1>2. IsFiniteSet(Units(S, f)) /\ IsFiniteSet(Units(T, f))
  BY UnitsFinite
<1>3. /\ Cardinality(Units(S, f) \cup Units(T, f))
           = Cardinality(Units(S, f)) + Cardinality(Units(T, f))
               - Cardinality(Units(S, f) \cap Units(T, f))
      /\ Cardinality(Units(S, f)) \in Nat /\ Cardinality(Units(T, f)) \in Nat
  BY <1>2, FS_Union, FS_CardinalityType
<1>4. Cardinality(Units(S, f) \cap Units(T, f)) \in Nat
  <2>1. IsFiniteSet(Units(S, f) \cap Units(T, f))
    BY <1>2, FS_Intersection
  <2> QED
    BY <2>1, FS_CardinalityType
<1>5. /\ Total(S \cup T, f) = Cardinality(Units(S, f) \cup Units(T, f))
      /\ Total(S, f) = Cardinality(Units(S, f)) /\ Total(T, f) = Cardinality(Units(T, f))
  BY <1>1 DEF Total
<1> QED
  BY <1>3, <1>4, <1>5

\* One more for one row is one more in all.
LEMMA TotalIncrement ==
    ASSUME NEW S, IsFiniteSet(S), NEW x \in S, NEW f \in [S -> Nat]
    PROVE  Total(S, [f EXCEPT ![x] = @ + 1]) = Total(S, f) + 1
<1> DEFINE g == [f EXCEPT ![x] = @ + 1]
           T == S \ {x}
<1>1. IsFiniteSet(T) /\ x \notin T /\ S = T \cup {x} /\ T \subseteq S
  BY FS_Subset
<1>2. g \in [S -> Nat] /\ g[x] = f[x] + 1 /\ \A y \in T : f[y] = g[y]
  OBVIOUS
<1> HIDE DEF g, T
<1>3. Total(S, f) = Total(T, f) + f[x] /\ Total(S, g) = Total(T, g) + g[x]
  BY <1>1, <1>2, TotalAdd
<1>4. Total(T, f) = Total(T, g) /\ Total(T, f) \in Nat
  BY <1>1, <1>2, TotalAgree, TotalType
<1>5. Total(S, g) = Total(S, f) + 1
  BY <1>2, <1>3, <1>4
<1> QED
  BY <1>5 DEF g
=============================================================================
