--------------------------- MODULE SortingProofs ---------------------------
(***************************************************************************)
(* What sorting returns.  A list and its sorted form hold the same values  *)
(* equally often, because the places are a bijection; two lists without    *)
(* repetition that hold the same values have the same sorted form.         *)
(***************************************************************************)
EXTENDS Sorting, FiniteSetTheorems, TLAPS

\* A finite list of numbers under numeric indices.
Sortable(f) == IsFiniteSet(DOMAIN f) /\ DOMAIN f \subseteq Int /\ \A i \in DOMAIN f : f[i] \in Int

\* The places of the elements are numbered from 1 without a gap or a double.
LEMMA PlacesBiject ==
    ASSUME NEW f, Sortable(f)
    PROVE  LET n == Cardinality(DOMAIN f)
           IN  /\ n \in Nat
               /\ \A i \in DOMAIN f : Place(f, i) \in 1 .. n
               /\ \A i, j \in DOMAIN f : Place(f, i) = Place(f, j) => i = j
               /\ \A k \in 1 .. n : \E i \in DOMAIN f : Place(f, i) = k
  <1> DEFINE D == DOMAIN f
             n == Cardinality(D)
             Before(i) == {j \in D : f[j] < f[i] \/ (f[j] = f[i] /\ j <= i)}
             P == [i \in D |-> Place(f, i)]
  <1>1. IsFiniteSet(D) /\ D \subseteq Int /\ \A i \in D : f[i] \in Int
    BY DEF Sortable
  <1>2. n \in Nat
    BY <1>1, FS_CardinalityType
  <1>3. \A i \in D : IsFiniteSet(Before(i)) /\ Cardinality(Before(i)) \in Nat /\ Cardinality(Before(i)) <= n
    <2> SUFFICES ASSUME NEW i \in D
                 PROVE  IsFiniteSet(Before(i)) /\ Cardinality(Before(i)) \in Nat /\ Cardinality(Before(i)) <= n
      OBVIOUS
    <2>1. Before(i) \in SUBSET D
      OBVIOUS
    <2> HIDE DEF Before
    <2>2. IsFiniteSet(Before(i)) /\ Cardinality(Before(i)) <= n
      BY <1>1, <2>1, FS_Subset
    <2> QED
      BY <2>2, FS_CardinalityType
  <1>4. \A i \in D : Place(f, i) \in 1 .. n
    <2> SUFFICES ASSUME NEW i \in D PROVE Place(f, i) \in 1 .. n
      OBVIOUS
    <2>1. i \in Before(i)
      BY <1>1
    <2>2. Before(i) # {}
      BY <2>1
    <2>3. Place(f, i) = Cardinality(Before(i))
      BY DEF Place
    <2> HIDE DEF Before
    <2>4. Cardinality(Before(i)) # 0
      BY <2>2, <1>3, FS_EmptySet
    <2> QED
      BY <2>3, <2>4, <1>3, <1>2
  <1>5. ASSUME NEW i \in D, NEW j \in D, i # j, f[i] < f[j] \/ (f[i] = f[j] /\ i <= j)
        PROVE  Place(f, i) < Place(f, j)
    <2>1. Before(i) \in SUBSET Before(j)
      BY <1>1, <1>5
    <2>2. j \in Before(j) /\ j \notin Before(i)
      BY <1>1, <1>5
    <2>3. Place(f, i) = Cardinality(Before(i)) /\ Place(f, j) = Cardinality(Before(j))
      BY DEF Place
    <2> HIDE DEF Before
    <2>4. Cardinality(Before(i)) <= Cardinality(Before(j)) /\ Cardinality(Before(i)) # Cardinality(Before(j))
      BY <1>3, <2>1, <2>2, FS_Subset
    <2> QED
      BY <2>3, <2>4, <1>3
  <1>6. ASSUME NEW i \in D, NEW j \in D, Place(f, i) = Place(f, j)
        PROVE  i = j
    <2>1. Place(f, i) \in Int /\ Place(f, j) \in Int
      BY <1>4, <1>2
    <2> SUFFICES ASSUME i # j PROVE FALSE
      OBVIOUS
    <2>2. i \in Int /\ j \in Int /\ f[i] \in Int /\ f[j] \in Int
      BY <1>1
    <2>3. \/ f[i] < f[j] \/ (f[i] = f[j] /\ i <= j)
          \/ f[j] < f[i] \/ (f[j] = f[i] /\ j <= i)
      BY <2>2
    <2> QED
      BY <2>1, <2>3, <1>5, <1>6
  <1>7. P \in Injection(D, 1 .. n)
    BY <1>4, <1>6 DEF Injection, IsInjective
  <1>8. P \in Surjection(D, 1 .. n)
    <2>1. IsFiniteSet(1 .. n) /\ Cardinality(1 .. n) = n
      BY <1>2, FS_Interval
    <2> HIDE DEF P, D
    <2> QED
      BY <2>1, <1>7, FS_Injection DEF n
  <1>9. \A k \in 1 .. n : \E i \in D : Place(f, i) = k
    BY <1>8 DEF Surjection
  <1> QED
    BY <1>2, <1>4, <1>6, <1>9

\* An element that comes before another, by value and then by index, has a
\* smaller place.
LEMMA PlacesFollowValues ==
    ASSUME NEW f, Sortable(f), NEW i \in DOMAIN f, NEW j \in DOMAIN f, Place(f, i) < Place(f, j)
    PROVE  f[i] <= f[j]
  <1> DEFINE Before(k) == {l \in DOMAIN f : f[l] < f[k] \/ (f[l] = f[k] /\ l <= k)}
  <1>1. IsFiniteSet(DOMAIN f) /\ DOMAIN f \subseteq Int /\ \A k \in DOMAIN f : f[k] \in Int
    BY DEF Sortable
  <1> SUFFICES ASSUME f[j] < f[i] PROVE FALSE
    BY <1>1
  <1>2. Before(j) \in SUBSET Before(i) /\ Before(i) \in SUBSET DOMAIN f
    BY <1>1
  <1>3. Place(f, i) = Cardinality(Before(i)) /\ Place(f, j) = Cardinality(Before(j))
    BY DEF Place
  <1> HIDE DEF Before
  <1>4. IsFiniteSet(Before(i))
    BY <1>1, <1>2, FS_Subset
  <1>5. Cardinality(Before(j)) <= Cardinality(Before(i))
    BY <1>2, <1>4, FS_Subset
  <1>6. Place(f, i) \in Int /\ Place(f, j) \in Int
    BY PlacesBiject
  <1> QED
    BY <1>3, <1>5, <1>6

\* sorted() returns the values of its list, each at the place of its element.
LEMMA SortedAtPlaces ==
    ASSUME NEW f, Sortable(f)
    PROVE  /\ Cardinality(DOMAIN f) \in Nat
           /\ DOMAIN Sorted(f) = 1 .. Cardinality(DOMAIN f)
           /\ \A i \in DOMAIN f : Place(f, i) \in DOMAIN Sorted(f) /\ Sorted(f)[Place(f, i)] = f[i]
           /\ \A k \in DOMAIN Sorted(f) : \E i \in DOMAIN f : Place(f, i) = k /\ Sorted(f)[k] = f[i]
  <1> DEFINE n == Cardinality(DOMAIN f)
             At(k) == CHOOSE i \in DOMAIN f : Place(f, i) = k
  <1>1. /\ n \in Nat
        /\ \A i \in DOMAIN f : Place(f, i) \in 1 .. n
        /\ \A i, j \in DOMAIN f : Place(f, i) = Place(f, j) => i = j
        /\ \A k \in 1 .. n : \E i \in DOMAIN f : Place(f, i) = k
    BY PlacesBiject
  <1>2. \A k \in 1 .. n : At(k) \in DOMAIN f /\ Place(f, At(k)) = k
    BY <1>1
  <1>3. \A i \in DOMAIN f : At(Place(f, i)) = i
    BY <1>1, <1>2
  <1>4. DOMAIN Sorted(f) = 1 .. n /\ \A k \in 1 .. n : Sorted(f)[k] = f[At(k)]
    BY DEF Sorted
  <1> HIDE DEF At, n
  <1>5. \A i \in DOMAIN f : Place(f, i) \in DOMAIN Sorted(f) /\ Sorted(f)[Place(f, i)] = f[i]
    BY <1>1, <1>3, <1>4
  <1>6. \A k \in DOMAIN Sorted(f) : \E i \in DOMAIN f : Place(f, i) = k /\ Sorted(f)[k] = f[i]
    BY <1>2, <1>4
  <1> QED
    BY <1>1, <1>4, <1>5, <1>6 DEF n

\* What sorted() returns does not decrease.
THEOREM SortedRises ==
    ASSUME NEW f, Sortable(f), NEW k \in DOMAIN Sorted(f), NEW l \in DOMAIN Sorted(f), k < l
    PROVE  Sorted(f)[k] <= Sorted(f)[l]
  <1>1. PICK i \in DOMAIN f : Place(f, i) = k /\ Sorted(f)[k] = f[i]
    BY SortedAtPlaces
  <1>2. PICK j \in DOMAIN f : Place(f, j) = l /\ Sorted(f)[l] = f[j]
    BY SortedAtPlaces
  <1> QED
    BY <1>1, <1>2, PlacesFollowValues

\* A sorted set is a bijection from its positions to its elements, and increases
\* strictly.
THEOREM IncreasingEnumerates ==
    ASSUME NEW S \in SUBSET Int, IsFiniteSet(S)
    PROVE  /\ Cardinality(S) \in Nat
           /\ Increasing(S) \in Bijection(1 .. Cardinality(S), S)
           /\ \A k, l \in 1 .. Cardinality(S) : k < l => Increasing(S)[k] < Increasing(S)[l]
  <1> DEFINE f == [x \in S |-> x]
             n == Cardinality(S)
  <1>1. DOMAIN f = S /\ \A x \in S : f[x] = x
    OBVIOUS
  <1>2. Sortable(f)
    BY DEF Sortable
  <1>3. Increasing(S) = Sorted(f)
    BY DEF Increasing
  <1> HIDE DEF f
  <1>4. /\ n \in Nat
        /\ DOMAIN Sorted(f) = 1 .. n
        /\ \A x \in S : Place(f, x) \in 1 .. n /\ Sorted(f)[Place(f, x)] = x
        /\ \A k \in 1 .. n : \E x \in S : Place(f, x) = k /\ Sorted(f)[k] = x
    <2>1. /\ Cardinality(DOMAIN f) \in Nat
          /\ DOMAIN Sorted(f) = 1 .. Cardinality(DOMAIN f)
          /\ \A x \in DOMAIN f : Place(f, x) \in DOMAIN Sorted(f) /\ Sorted(f)[Place(f, x)] = f[x]
          /\ \A k \in DOMAIN Sorted(f) : \E x \in DOMAIN f : Place(f, x) = k /\ Sorted(f)[k] = f[x]
      BY <1>2, SortedAtPlaces
    <2> QED
      BY <1>1, <2>1
  <1>5. Sorted(f) = [k \in 1 .. n |-> Sorted(f)[k]]
    BY <1>4 DEF Sorted
  <1>6. Sorted(f) \in [1 .. n -> S]
    BY <1>4, <1>5
  <1>7. \A k, l \in 1 .. n : Sorted(f)[k] = Sorted(f)[l] => k = l
    BY <1>4
  <1>8. Sorted(f) \in Bijection(1 .. n, S)
    BY <1>4, <1>6, <1>7 DEF Bijection, Injection, Surjection, IsInjective
  <1>9. ASSUME NEW k \in 1 .. n, NEW l \in 1 .. n, k < l
        PROVE  Sorted(f)[k] < Sorted(f)[l]
    <2>1. Sorted(f)[k] <= Sorted(f)[l]
      BY <1>2, <1>4, <1>9, SortedRises
    <2>2. Sorted(f)[k] # Sorted(f)[l]
      BY <1>4, <1>7, <1>9
    <2>3. Sorted(f)[k] \in Int /\ Sorted(f)[l] \in Int
      BY <1>6
    <2> QED
      BY <2>1, <2>2, <2>3
  <1> QED
    BY <1>3, <1>4, <1>8, <1>9

\* Sorting a list without repetition gives the sorted set of its values: the
\* order in which they arrived has no influence.
THEOREM SortedDistinct ==
    ASSUME NEW f, Sortable(f), \A i, j \in DOMAIN f : f[i] = f[j] => i = j
    PROVE  Sorted(f) = Increasing({f[i] : i \in DOMAIN f})
  <1> DEFINE S == {f[i] : i \in DOMAIN f}
             g == [x \in S |-> x]
             F == [i \in DOMAIN f |-> f[i]]
  <1>1. IsFiniteSet(DOMAIN f) /\ DOMAIN f \subseteq Int /\ \A i \in DOMAIN f : f[i] \in Int
    BY DEF Sortable
  <1>2. ASSUME NEW T \in SUBSET DOMAIN f
        PROVE  IsFiniteSet({f[i] : i \in T}) /\ Cardinality({f[i] : i \in T}) = Cardinality(T)
    <2> DEFINE h == [i \in T |-> f[i]]
               U == {f[i] : i \in T}
    <2>1. h \in Bijection(T, U)
      BY DEF Bijection, Injection, Surjection, IsInjective
    <2>2. IsFiniteSet(T)
      BY <1>1, FS_Subset
    <2> HIDE DEF h, U
    <2>3. IsFiniteSet(U) /\ Cardinality(U) = Cardinality(T)
      BY <2>1, <2>2, FS_Bijection DEF ExistsBijection
    <2> QED
      BY <2>3 DEF U
  <1>3. IsFiniteSet(S) /\ Cardinality(S) = Cardinality(DOMAIN f)
    BY <1>2
  <1>4. DOMAIN g = S /\ \A x \in S : g[x] = x
    OBVIOUS
  <1>5. Sortable(g)
    BY <1>1, <1>3 DEF Sortable
  <1>6. \A i \in DOMAIN f : Place(g, f[i]) = Place(f, i)
    <2> SUFFICES ASSUME NEW i \in DOMAIN f PROVE Place(g, f[i]) = Place(f, i)
      OBVIOUS
    <2> DEFINE T == {j \in DOMAIN f : f[j] < f[i] \/ (f[j] = f[i] /\ j <= i)}
               V == {x \in DOMAIN g : g[x] < g[f[i]] \/ (g[x] = g[f[i]] /\ x <= f[i])}
    <2>1. V = {f[j] : j \in T}
      BY <1>1, <1>4
    <2>2. Cardinality({f[j] : j \in T}) = Cardinality(T)
      BY <1>2
    <2> QED
      BY <2>1, <2>2 DEF Place
  <1>7. Increasing(S) = Sorted(g)
    BY DEF Increasing
  <1> HIDE DEF g, S
  <1>8. DOMAIN Sorted(g) = DOMAIN Sorted(f)
    BY <1>3, <1>4 DEF Sorted
  <1>9. ASSUME NEW k \in DOMAIN Sorted(f)
        PROVE  Sorted(g)[k] = Sorted(f)[k]
    <2>1. PICK i \in DOMAIN f : Place(f, i) = k /\ Sorted(f)[k] = f[i]
      BY SortedAtPlaces
    <2>2. f[i] \in S
      BY DEF S
    <2>3. Sorted(g)[Place(g, f[i])] = g[f[i]]
      BY <1>4, <1>5, <2>2, SortedAtPlaces
    <2> QED
      BY <2>1, <2>2, <2>3, <1>4, <1>6
  <1>10. /\ Sorted(f) = [k \in DOMAIN Sorted(f) |-> Sorted(f)[k]]
         /\ Sorted(g) = [k \in DOMAIN Sorted(g) |-> Sorted(g)[k]]
    BY DEF Sorted
  <1> QED
    BY <1>7, <1>8, <1>9, <1>10 DEF S
=============================================================================
