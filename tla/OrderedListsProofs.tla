------------------------- MODULE OrderedListsProofs -------------------------
(***************************************************************************)
(* What the list operators of OrderedLists return, for every input, and    *)
(* at the end what the doubling of a size does.                            *)
(***************************************************************************)
EXTENDS OrderedLists, FiniteSetTheorems, SequenceTheorems, TLAPS

(* Rank numbers the elements of a finite set from 0, in order. *)
LEMMA RankOrder ==
  ASSUME NEW S \in SUBSET Int, IsFiniteSet(S)
  PROVE  /\ \A x \in S : Rank(S, x) \in 0..(Cardinality(S) - 1)
         /\ \A x, z \in S : x < z => Rank(S, x) < Rank(S, z)
<1>. DEFINE Below(x) == {y \in S : y < x}
<1>1. \A x : Rank(S, x) = Cardinality(Below(x)) /\ Below(x) \subseteq S
  BY DEF Rank
<1>2. \A x \in S : x \notin Below(x)
  OBVIOUS
<1>3. \A x, z \in S : x < z => Below(x) \subseteq Below(z) /\ x \in Below(z)
  <2>1. \A x, y, z \in Int : y < x /\ x < z => y < z
    OBVIOUS
  <2>2. S \subseteq Int
    OBVIOUS
  <2>. QED BY <2>1, <2>2
<1>. HIDE DEF Below
<1>4. \A x : IsFiniteSet(Below(x)) /\ Cardinality(Below(x)) \in Nat
  BY <1>1, FS_Subset, FS_CardinalityType
<1>5. Cardinality(S) \in Nat
  BY FS_CardinalityType
<1>6. ASSUME NEW x \in S
      PROVE  Rank(S, x) \in 0..(Cardinality(S) - 1)
  <2>1. Cardinality(Below(x)) <= Cardinality(S) /\ Cardinality(Below(x)) # Cardinality(S)
    BY <1>1, <1>2, FS_Subset
  <2>. QED BY <2>1, <1>1, <1>4, <1>5
<1>7. ASSUME NEW x \in S, NEW z \in S, x < z
      PROVE  Rank(S, x) < Rank(S, z)
  <2>1. Cardinality(Below(x)) <= Cardinality(Below(z))
        /\ Cardinality(Below(x)) # Cardinality(Below(z))
    BY <1>2, <1>3, <1>4, <1>7, FS_Subset
  <2>. QED BY <2>1, <1>1, <1>4
<1>. QED BY <1>6, <1>7

(* Two elements of the same rank are the same. *)
LEMMA RankInjective ==
  ASSUME NEW S \in SUBSET Int, IsFiniteSet(S),
         NEW x \in S, NEW z \in S, Rank(S, x) = Rank(S, z)
  PROVE  x = z
<1>1. /\ Rank(S, x) \in Int
      /\ x < z => Rank(S, x) < Rank(S, z)
      /\ z < x => Rank(S, z) < Rank(S, x)
  BY RankOrder
<1>2. x \in Int /\ z \in Int
  OBVIOUS
<1>. QED BY <1>1, <1>2

(* Every rank below the cardinality is the rank of an element. *)
LEMMA RankOnto ==
  ASSUME NEW S \in SUBSET Int, IsFiniteSet(S),
         NEW k \in 0..(Cardinality(S) - 1)
  PROVE  \E x \in S : Rank(S, x) = k
<1>. DEFINE T == 0..(Cardinality(S) - 1)
            f == [x \in S |-> Rank(S, x)]
<1>1. IsFiniteSet(T) /\ Cardinality(T) = Cardinality(S)
  BY FS_CardinalityType, FS_Interval
<1>2. f \in Injection(S, T)
  <2>1. f \in [S -> T]
    BY RankOrder
  <2>2. \A x, z \in S : f[x] = f[z] => x = z
    BY RankInjective
  <2>. QED BY <2>1, <2>2 DEF Injection, IsInjective
<1>3. f \in Surjection(S, T)
  BY <1>1, <1>2, FS_Injection
<1>. QED BY <1>3 DEF Surjection

(* A nonempty finite set of integers has a least element. *)
LEMMA LeastElement ==
  ASSUME NEW S \in SUBSET Int, IsFiniteSet(S), S # {}
  PROVE  \E x \in S : \A y \in S : x <= y
<1>1. Cardinality(S) \in Nat \ {0}
  BY FS_CardinalityType, FS_EmptySet
<1>2. 0 \in 0..(Cardinality(S) - 1)
  BY <1>1
<1>3. PICK x \in S : Rank(S, x) = 0
  BY <1>2, RankOnto
<1>4. IsFiniteSet({y \in S : y < x})
  BY FS_Subset
<1>5. {y \in S : y < x} = {}
  BY <1>3, <1>4, FS_EmptySet DEF Rank
<1>6. \A y \in S : y \in Int /\ x \in Int /\ ~(y < x)
  BY <1>5
<1>. QED BY <1>6

(* Ascending lists exactly the elements of the set. *)
LEMMA AscendingList ==
  ASSUME NEW S \in SUBSET Int, IsFiniteSet(S)
  PROVE  /\ Ascending(S) \in Seq(S)
         /\ Len(Ascending(S)) = Cardinality(S)
         /\ Elements(Ascending(S)) = S
<1>. DEFINE n == Cardinality(S)
            T == 0..(n - 1)
<1>1. n \in Nat
  BY FS_CardinalityType
<1>2. \A k \in T : \E x \in S : Rank(S, x) = k
  BY RankOnto
<1>3. \A i \in 1..n : /\ Ascending(S)[i] \in S
                      /\ Rank(S, Ascending(S)[i]) = i - 1
  <2>. SUFFICES ASSUME NEW i \in 1..n
                PROVE  /\ Ascending(S)[i] \in S
                       /\ Rank(S, Ascending(S)[i]) = i - 1
    OBVIOUS
  <2>1. i - 1 \in T
    BY <1>1
  <2>2. \E x \in S : Rank(S, x) = i - 1
    BY <2>1, <1>2
  <2>3. Ascending(S)[i] = CHOOSE x \in S : Rank(S, x) = i - 1
    BY DEF Ascending
  <2>. QED BY <2>2, <2>3
<1>4. Ascending(S) \in [1..n -> S]
  BY <1>3 DEF Ascending
<1>5. Ascending(S) \in Seq(S) /\ Len(Ascending(S)) = n
  BY <1>4, <1>1
<1>6. ASSUME NEW x \in S
      PROVE  \E i \in 1..n : Ascending(S)[i] = x
  <2>0. Rank(S, x) + 1 \in 1..n /\ (Rank(S, x) + 1) - 1 = Rank(S, x)
    BY <1>1, RankOrder
  <2>1. PICK i \in 1..n : i - 1 = Rank(S, x)
    BY <2>0
  <2>2. Ascending(S)[i] \in S /\ Rank(S, Ascending(S)[i]) = Rank(S, x)
    BY <2>1, <1>3
  <2>3. \A y \in S : Rank(S, y) = Rank(S, x) => y = x
    BY RankInjective
  <2>. QED BY <2>2, <2>3
<1>. QED BY <1>3, <1>5, <1>6 DEF Elements

(* Keep returns a list of elements of s that are in S. *)
LEMMA KeepList ==
  ASSUME NEW T, NEW s \in Seq(T), NEW S
  PROVE  Keep(s, S) \in Seq(T) /\ Elements(Keep(s, S)) = Elements(s) \cap S
<1>. DEFINE I  == {i \in 1..Len(s) : s[i] \in S}
            at == Ascending(I)
<1>1. Len(s) \in Nat
  OBVIOUS
<1>2. I \in SUBSET Int /\ IsFiniteSet(I)
  <2>1. IsFiniteSet(1..Len(s)) /\ I \in SUBSET (1..Len(s))
    BY <1>1, FS_Interval
  <2>. QED BY <2>1, FS_Subset
<1>3. at \in Seq(I) /\ Elements(at) = I
  BY <1>2, AscendingList
<1>4. Keep(s, S) = [k \in 1..Len(at) |-> s[at[k]]]
  BY DEF Keep
<1>. HIDE DEF at
<1>5. \A k \in 1..Len(at) : at[k] \in I
  BY <1>3
<1>6. \A k \in 1..Len(at) : s[at[k]] \in T /\ s[at[k]] \in S /\ at[k] \in 1..Len(s)
  BY <1>5
<1>7. Len(at) \in Nat
  BY <1>3
<1>8. Keep(s, S) \in Seq(T) /\ Len(Keep(s, S)) = Len(at)
  BY <1>4, <1>6, <1>7
<1>9. Elements(Keep(s, S)) \subseteq Elements(s) \cap S
  BY <1>4, <1>6, <1>8 DEF Elements
<1>10. ASSUME NEW x \in Elements(s) \cap S
       PROVE  x \in Elements(Keep(s, S))
  <2>1. PICK i \in 1..Len(s) : x = s[i]
    BY DEF Elements
  <2>2. i \in Elements(at)
    BY <2>1, <1>3
  <2>3. PICK k \in 1..Len(at) : i = at[k]
    BY <2>2 DEF Elements
  <2>. QED BY <2>1, <2>3, <1>4, <1>8 DEF Elements
<1>. QED BY <1>8, <1>9, <1>10

LEMMA BackwardsList ==
  ASSUME NEW T, NEW s \in Seq(T)
  PROVE  Backwards(s) \in Seq(T) /\ Elements(Backwards(s)) = Elements(s)
<1>1. Len(s) \in Nat
  OBVIOUS
<1>2. \A i \in 1..Len(s) : Len(s) - i + 1 \in 1..Len(s) /\ s[Len(s) - i + 1] \in T
  BY <1>1
<1>3. Backwards(s) \in Seq(T) /\ Len(Backwards(s)) = Len(s)
  BY <1>1, <1>2 DEF Backwards
<1>4. \A i \in 1..Len(s) : Backwards(s)[i] = s[Len(s) - i + 1]
  BY DEF Backwards
<1>5. \A i \in 1..Len(s) : s[i] = Backwards(s)[Len(s) - i + 1]
  BY <1>1, <1>2, <1>4
<1>6. Elements(Backwards(s)) \subseteq Elements(s)
  BY <1>2, <1>3, <1>4 DEF Elements
<1>7. Elements(s) \subseteq Elements(Backwards(s))
  BY <1>2, <1>3, <1>5 DEF Elements
<1>. QED BY <1>3, <1>6, <1>7

(* No more than n elements of a set have fewer than n elements below them. *)
LEMMA FirstElements ==
  ASSUME NEW S \in SUBSET Int, IsFiniteSet(S), NEW n \in Nat
  PROVE  /\ IsFiniteSet({x \in S : Rank(S, x) < n})
         /\ Cardinality({x \in S : Rank(S, x) < n}) <= n
<1>. DEFINE F == {x \in S : Rank(S, x) < n}
            f == [x \in F |-> Rank(S, x)]
<1>1. IsFiniteSet(0..(n - 1)) /\ Cardinality(0..(n - 1)) = n
  BY FS_Interval
<1>2. f \in [F -> 0..(n - 1)]
  <2>1. \A x \in F : Rank(S, x) \in Int /\ 0 <= Rank(S, x) /\ Rank(S, x) < n
    BY RankOrder
  <2>2. \A x \in F : f[x] \in 0..(n - 1)
    BY <2>1
  <2>. QED BY <2>2
<1>3. \A x, z \in F : f[x] = f[z] => x = z
  BY RankInjective
<1>4. f \in Injection(F, 0..(n - 1))
  BY <1>2, <1>3 DEF Injection, IsInjective
<1>. QED BY <1>1, <1>4, FS_Injection

-----------------------------------------------------------------------------
(* How often a list has an element.                                        *)

(* The positions of x in s. *)
Positions(s, x) == {i \in 1..Len(s) : s[i] = x}

LEMMA TimesType ==
  ASSUME NEW T, NEW s \in Seq(T), NEW x
  PROVE  /\ IsFiniteSet(Positions(s, x)) /\ Times(s, x) = Cardinality(Positions(s, x))
         /\ Times(s, x) \in Nat
         /\ Times(s, x) = 0 <=> x \notin Elements(s)
<1>1. Len(s) \in Nat
  OBVIOUS
<1>2. IsFiniteSet(1..Len(s))
  BY <1>1, FS_Interval
<1>3. Positions(s, x) \in SUBSET (1..Len(s))
  BY DEF Positions
<1>4. IsFiniteSet(Positions(s, x))
  BY <1>2, <1>3, FS_Subset
<1>5. Times(s, x) = Cardinality(Positions(s, x))
  BY DEF Times, Positions
<1>6. Cardinality(Positions(s, x)) \in Nat /\ (Cardinality(Positions(s, x)) = 0 <=> Positions(s, x) = {})
  BY <1>4, FS_CardinalityType, FS_EmptySet
<1>7. Positions(s, x) = {} <=> x \notin Elements(s)
  BY DEF Positions, Elements
<1>. QED BY <1>4, <1>5, <1>6, <1>7

LEMMA TimesConcat ==
  ASSUME NEW T, NEW s \in Seq(T), NEW t \in Seq(T), NEW x
  PROVE  Times(s \o t, x) = Times(s, x) + Times(t, x)
<1>. DEFINE u == s \o t
            late == {i \in Positions(u, x) : i > Len(s)}
            f == [j \in Positions(t, x) |-> Len(s) + j]
<1>1. Len(s) \in Nat /\ Len(t) \in Nat /\ u \in Seq(T) /\ Len(u) = Len(s) + Len(t)
  OBVIOUS
<1>2. /\ \A i \in 1..Len(s) : u[i] = s[i]
      /\ \A j \in 1..Len(t) : u[Len(s) + j] = t[j]
  OBVIOUS
<1>3. \A i \in 1..Len(u) : i > Len(s) => /\ i - Len(s) \in 1..Len(t)
                                         /\ i = Len(s) + (i - Len(s))
                                         /\ u[i] = t[i - Len(s)]
  <2>. SUFFICES ASSUME NEW i \in 1..Len(u), i > Len(s)
                PROVE  i - Len(s) \in 1..Len(t) /\ i = Len(s) + (i - Len(s)) /\ u[i] = t[i - Len(s)]
    OBVIOUS
  <2>. HIDE DEF u
  <2>1. i - Len(s) \in 1..Len(t) /\ i = Len(s) + (i - Len(s))
    BY <1>1
  <2>2. u[Len(s) + (i - Len(s))] = t[i - Len(s)]
    BY <2>1, <1>2
  <2>. QED BY <2>1, <2>2
<1>. HIDE DEF u
<1>4. IsFiniteSet(Positions(s, x)) /\ IsFiniteSet(Positions(t, x)) /\ IsFiniteSet(Positions(u, x))
  BY <1>1, TimesType
<1>5. f \in Bijection(Positions(t, x), late)
  <2>1. \A j \in Positions(t, x) : Len(s) + j \in late
    BY <1>1, <1>2 DEF Positions
  <2>2. \A i \in late : i - Len(s) \in Positions(t, x) /\ f[i - Len(s)] = i
    BY <1>1, <1>3 DEF Positions
  <2>3. \A j, k \in Positions(t, x) : Len(s) + j = Len(s) + k => j = k
    BY <1>1 DEF Positions
  <2>4. f \in [Positions(t, x) -> late]
    BY <2>1
  <2>5. f \in Injection(Positions(t, x), late)
    BY <2>3, <2>4 DEF Injection, IsInjective
  <2>6. f \in Surjection(Positions(t, x), late)
    BY <2>2, <2>4 DEF Surjection
  <2>. QED BY <2>5, <2>6 DEF Bijection
<1>6. IsFiniteSet(late) /\ Cardinality(late) = Cardinality(Positions(t, x))
  BY <1>4, <1>5, FS_Bijection DEF ExistsBijection
<1>7. Positions(u, x) = Positions(s, x) \cup late /\ Positions(s, x) \cap late = {}
  BY <1>1, <1>2 DEF Positions
<1>8. Cardinality(Positions(u, x)) = Cardinality(Positions(s, x)) + Cardinality(late) - Cardinality({})
  BY <1>4, <1>6, <1>7, FS_Union
<1>9. Cardinality({}) = 0
  BY FS_EmptySet
<1>10. /\ Times(u, x) = Cardinality(Positions(u, x))
       /\ Times(s, x) = Cardinality(Positions(s, x)) /\ Times(t, x) = Cardinality(Positions(t, x))
       /\ Times(s, x) \in Nat /\ Times(t, x) \in Nat
  BY <1>1, TimesType
<1>11. Times(u, x) = Times(s, x) + Times(t, x)
  BY <1>6, <1>8, <1>9, <1>10
<1>. QED BY <1>11 DEF u

LEMMA TimesOne ==
  ASSUME NEW y, NEW x
  PROVE  Times(<<y>>, x) = IF y = x THEN 1 ELSE 0
<1>1. Positions(<<y>>, x) = IF y = x THEN {1} ELSE {}
  BY DEF Positions
<1>2. Cardinality({1}) = 1 /\ Cardinality({}) = 0
  BY FS_Singleton, FS_EmptySet
<1>. QED BY <1>1, <1>2 DEF Times, Positions

LEMMA TimesNone ==
  ASSUME NEW x
  PROVE  Times(<<>>, x) = 0
<1>1. Positions(<<>>, x) = {}
  BY DEF Positions
<1>. QED BY <1>1, FS_EmptySet DEF Times, Positions

LEMMA TimesAppend ==
  ASSUME NEW T, NEW s \in Seq(T), NEW y \in T, NEW x
  PROVE  Times(Append(s, y), x) = Times(s, x) + (IF y = x THEN 1 ELSE 0)
<1>1. Append(s, y) = s \o <<y>> /\ <<y>> \in Seq(T)
  OBVIOUS
<1>2. Times(s \o <<y>>, x) = Times(s, x) + Times(<<y>>, x)
  BY <1>1, TimesConcat
<1>. QED BY <1>1, <1>2, TimesOne

LEMMA TimesTail ==
  ASSUME NEW T, NEW s \in Seq(T), s # <<>>, NEW x
  PROVE  /\ Head(s) \in T /\ Tail(s) \in Seq(T)
         /\ Times(s, x) = Times(Tail(s), x) + (IF Head(s) = x THEN 1 ELSE 0)
<1>. DEFINE u == <<Head(s)>> \o Tail(s)
<1>1. Head(s) \in T /\ Tail(s) \in Seq(T) /\ <<Head(s)>> \in Seq(T) /\ u = s
  OBVIOUS
<1>2. Times(u, x) = Times(<<Head(s)>>, x) + Times(Tail(s), x)
  BY <1>1, TimesConcat, ZenonT(60)
<1>3. Times(Tail(s), x) \in Nat
  BY <1>1, TimesType
<1>4. Times(<<Head(s)>>, x) = IF Head(s) = x THEN 1 ELSE 0
  BY TimesOne
<1>. HIDE DEF u
<1>5. Times(s, x) = Times(<<Head(s)>>, x) + Times(Tail(s), x)
  BY <1>1, <1>2
<1>. QED BY <1>1, <1>3, <1>4, <1>5

(* A list without repetitions has each of its elements once. *)
LEMMA TimesOnce ==
  ASSUME NEW T, NEW s \in Seq(T), NEW x,
         \A i, j \in 1..Len(s) : s[i] = s[j] => i = j
  PROVE  Times(s, x) = IF x \in Elements(s) THEN 1 ELSE 0
<1>1. ASSUME x \in Elements(s) PROVE Times(s, x) = 1
  <2>1. PICK i \in 1..Len(s) : s[i] = x
    BY <1>1 DEF Elements
  <2>2. Positions(s, x) = {i}
    BY <2>1 DEF Positions
  <2>3. Cardinality({i}) = 1
    BY FS_Singleton
  <2>. QED BY <2>2, <2>3 DEF Times, Positions
<1>2. ASSUME x \notin Elements(s) PROVE Times(s, x) = 0
  BY <1>2, TimesType
<1>. QED BY <1>1, <1>2

(* Ascending lists no element twice. *)
LEMMA AscendingOnce ==
  ASSUME NEW S \in SUBSET Int, IsFiniteSet(S)
  PROVE  \A i, j \in 1..Len(Ascending(S)) : Ascending(S)[i] = Ascending(S)[j] => i = j
<1>1. Cardinality(S) \in Nat /\ Len(Ascending(S)) = Cardinality(S)
  BY FS_CardinalityType, AscendingList
<1>2. \A i \in 1..Cardinality(S) : Rank(S, Ascending(S)[i]) = i - 1
  <2>. TAKE i \in 1..Cardinality(S)
  <2>1. i - 1 \in 0..(Cardinality(S) - 1)
    BY <1>1
  <2>2. \E x \in S : Rank(S, x) = i - 1
    BY <2>1, RankOnto
  <2>3. Ascending(S)[i] = CHOOSE x \in S : Rank(S, x) = i - 1
    BY DEF Ascending
  <2>. QED BY <2>2, <2>3
<1>3. \A i \in 1..Cardinality(S) : i \in Int
  BY <1>1
<1>. QED BY <1>1, <1>2, <1>3

LEMMA ElementsConcat ==
  ASSUME NEW T, NEW s \in Seq(T), NEW t \in Seq(T)
  PROVE  Elements(s \o t) = Elements(s) \cup Elements(t)
<1>1. \A x : x \in Elements(s \o t) <=> x \in Elements(s) \cup Elements(t)
  <2>. TAKE x
  <2>1. s \o t \in Seq(T)
    OBVIOUS
  <2>2. Times(s \o t, x) = Times(s, x) + Times(t, x)
    BY TimesConcat
  <2>3. /\ Times(s, x) \in Nat /\ (Times(s, x) = 0 <=> x \notin Elements(s))
        /\ Times(t, x) \in Nat /\ (Times(t, x) = 0 <=> x \notin Elements(t))
        /\ (Times(s \o t, x) = 0 <=> x \notin Elements(s \o t))
    BY <2>1, TimesType
  <2>. QED BY <2>2, <2>3
<1>. QED BY <1>1

LEMMA AppendList ==
  ASSUME NEW T, NEW s \in Seq(T), NEW y \in T
  PROVE  /\ Append(s, y) \in Seq(T) /\ Append(s, y) # <<>>
         /\ Elements(Append(s, y)) = Elements(s) \cup {y}
         /\ \A x : Times(Append(s, y), x) = Times(s, x) + (IF y = x THEN 1 ELSE 0)
         /\ \A x : Times(s, x) \in Nat
<1>. DEFINE one == <<y>>
<1>1. Append(s, y) = s \o one /\ one \in Seq(T) /\ Append(s, y) \in Seq(T)
  OBVIOUS
<1>2. Len(Append(s, y)) = Len(s) + 1 /\ Len(s) \in Nat /\ Len(<<>>) = 0
  OBVIOUS
<1>3. Append(s, y) # <<>>
  BY <1>2
<1>4. Elements(one) = {y}
  BY DEF Elements
<1>. HIDE DEF one
<1>5. Elements(s \o one) = Elements(s) \cup {y}
  BY <1>1, <1>4, ElementsConcat
<1>6. \A x : Times(Append(s, y), x) = Times(s, x) + (IF y = x THEN 1 ELSE 0)
  BY TimesAppend
<1>7. \A x : Times(s, x) \in Nat
  BY TimesType
<1>8. Elements(Append(s, y)) = Elements(s) \cup {y}
  BY <1>1, <1>5
<1>. QED BY <1>1, <1>3, <1>6, <1>7, <1>8

-----------------------------------------------------------------------------
(* How many elements of a list are in a set.                               *)

Count(s, S) == Cardinality({i \in 1..Len(s) : s[i] \in S})
Marks(s, S) == [i \in 1..Len(s) |-> IF s[i] \in S THEN 1 ELSE 0]

LEMMA CountMarks ==
  ASSUME NEW T, NEW s \in Seq(T), NEW S
  PROVE  /\ Marks(s, S) \in Seq(0..1) /\ Len(Marks(s, S)) = Len(s)
         /\ \A i \in 1..Len(s) : Marks(s, S)[i] = IF s[i] \in S THEN 1 ELSE 0
         /\ Count(s, S) = Times(Marks(s, S), 1) /\ Count(s, S) \in Nat
         /\ Count(s, S) = 0 <=> Elements(s) \cap S = {}
<1>. DEFINE m == Marks(s, S)
<1>1. m \in Seq(0..1) /\ Len(m) = Len(s) /\ Len(s) \in Nat
  BY DEF Marks
<1>2. \A i \in 1..Len(s) : m[i] = IF s[i] \in S THEN 1 ELSE 0
  BY DEF Marks
<1>. HIDE DEF m
<1>3. {i \in 1..Len(s) : s[i] \in S} = {i \in 1..Len(m) : m[i] = 1}
  BY <1>1, <1>2
<1>4. Count(s, S) = Times(m, 1)
  BY <1>3 DEF Count, Times
<1>5. Times(m, 1) \in Nat /\ (Times(m, 1) = 0 <=> 1 \notin Elements(m))
  BY <1>1, TimesType
<1>6. 1 \notin Elements(m) <=> Elements(s) \cap S = {}
  BY <1>1, <1>2 DEF Elements
<1>. QED BY <1>1, <1>2, <1>4, <1>5, <1>6 DEF m

LEMMA CountAppend ==
  ASSUME NEW T, NEW s \in Seq(T), NEW y \in T, NEW S
  PROVE  Count(Append(s, y), S) = Count(s, S) + (IF y \in S THEN 1 ELSE 0)
<1>. DEFINE l == Append(s, y)
            e == IF y \in S THEN 1 ELSE 0
            m == Marks(s, S)
            n == Marks(l, S)
<1>1. l \in Seq(T) /\ Len(l) = Len(s) + 1 /\ Len(s) \in Nat
      /\ \A i \in 1..Len(s) + 1 : l[i] = IF i <= Len(s) THEN s[i] ELSE y
  OBVIOUS
<1>. HIDE DEF l
<1>2. /\ m \in Seq(0..1) /\ Len(m) = Len(s) /\ \A i \in 1..Len(s) : m[i] = IF s[i] \in S THEN 1 ELSE 0
      /\ Count(s, S) = Times(m, 1)
  BY CountMarks
<1>3. /\ n \in Seq(0..1) /\ Len(n) = Len(l)
      /\ \A i \in 1..Len(l) : n[i] = IF l[i] \in S THEN 1 ELSE 0
      /\ Count(l, S) = Times(n, 1)
  BY <1>1, CountMarks
<1>. HIDE DEF m, n
<1>4. e \in 0..1
  OBVIOUS
<1>5. \A i \in 1..Len(s) + 1 : n[i] = IF i <= Len(s) THEN m[i] ELSE e
  BY <1>1, <1>2, <1>3
<1>. HIDE DEF e
<1>6. n = Append(m, e)
  BY <1>1, <1>2, <1>3, <1>4, <1>5
<1>7. Times(n, 1) = Times(m, 1) + (IF e = 1 THEN 1 ELSE 0)
  BY <1>2, <1>4, <1>6, TimesAppend
<1>. QED BY <1>2, <1>3, <1>7 DEF e, l

LEMMA CountTail ==
  ASSUME NEW T, NEW s \in Seq(T), s # <<>>, NEW S
  PROVE  /\ Head(s) \in T /\ Tail(s) \in Seq(T)
         /\ Count(s, S) = Count(Tail(s), S) + (IF Head(s) \in S THEN 1 ELSE 0)
<1>. DEFINE l == Tail(s)
            m == Marks(s, S)
            n == Marks(l, S)
<1>1. /\ Head(s) \in T /\ l \in Seq(T) /\ Len(l) = Len(s) - 1 /\ Len(s) \in Nat \ {0}
      /\ Head(s) = s[1] /\ \A i \in 1..Len(s) - 1 : l[i] = s[i + 1]
  OBVIOUS
<1>. HIDE DEF l
<1>2. /\ m \in Seq(0..1) /\ Len(m) = Len(s) /\ \A i \in 1..Len(s) : m[i] = IF s[i] \in S THEN 1 ELSE 0
      /\ Count(s, S) = Times(m, 1)
  BY CountMarks
<1>3. /\ n \in Seq(0..1) /\ Len(n) = Len(l)
      /\ \A i \in 1..Len(l) : n[i] = IF l[i] \in S THEN 1 ELSE 0
      /\ Count(l, S) = Times(n, 1)
  BY <1>1, CountMarks
<1>. HIDE DEF m, n
<1>4. m # <<>> /\ Head(m) = IF Head(s) \in S THEN 1 ELSE 0
  BY <1>1, <1>2
<1>5. n = Tail(m)
  <2>1. /\ Tail(m) \in Seq(0..1) /\ Len(Tail(m)) = Len(m) - 1
        /\ \A i \in 1..Len(Tail(m)) : Tail(m)[i] = m[i + 1]
    BY <1>2, <1>4, HeadTailProperties
  <2>2. ASSUME NEW i \in 1..Len(n) PROVE n[i] = m[i + 1]
    <3>1. i \in 1..Len(s) - 1 /\ i + 1 \in 1..Len(s) /\ i \in 1..Len(l)
      BY <1>1, <1>3
    <3>2. l[i] = s[i + 1]
      BY <1>1, <3>1
    <3>. QED BY <1>2, <1>3, <3>1, <3>2
  <2>4. Len(n) = Len(Tail(m)) /\ n \in Seq(0..1) /\ Tail(m) \in Seq(0..1)
    BY <1>1, <1>2, <1>3, <2>1
  <2>3. \A i \in 1..Len(n) : n[i] = Tail(m)[i]
    BY <2>1, <2>2, <2>4
  <2>. QED BY <2>3, <2>4, SeqEqual
<1>6. Times(m, 1) = Times(Tail(m), 1) + (IF Head(m) = 1 THEN 1 ELSE 0)
  BY <1>2, <1>4, TimesTail
<1>. QED BY <1>1, <1>2, <1>3, <1>4, <1>5, <1>6 DEF l

(* A list from which element i is taken out. *)
LEMMA CountRemove ==
  ASSUME NEW T, NEW s \in Seq(T), NEW i \in 1..Len(s), NEW S
  PROVE  LET u == SubSeq(s, 1, i - 1) \o SubSeq(s, i + 1, Len(s))
         IN  /\ u \in Seq(T) /\ s[i] \in T
             /\ Count(u, S) = Count(s, S) - (IF s[i] \in S THEN 1 ELSE 0)
<1>. DEFINE front == SubSeq(s, 1, i - 1)
            back == SubSeq(s, i + 1, Len(s))
            u == front \o back
            at == {j \in 1..Len(s) : s[j] \in S}
            left == {j \in 1..Len(u) : u[j] \in S}
            f == [j \in left |-> IF j < i THEN j ELSE j + 1]
<1>1. Len(s) \in Nat /\ i \in Nat /\ 1 <= i /\ i <= Len(s)
  OBVIOUS
<1>2. /\ front \in Seq(T) /\ Len(front) = i - 1 /\ \A j \in 1..i - 1 : front[j] = s[j]
      /\ back \in Seq(T) /\ Len(back) = Len(s) - i /\ \A j \in 1..Len(s) - i : back[j] = s[i + j]
  BY <1>1
<1>. HIDE DEF front, back
<1>3. /\ u \in Seq(T) /\ Len(u) = Len(s) - 1
      /\ \A j \in 1..Len(u) : u[j] = IF j < i THEN s[j] ELSE s[j + 1]
  <2>1. /\ u \in Seq(T) /\ Len(u) = Len(front) + Len(back)
        /\ \A j \in 1..Len(front) + Len(back) : u[j] = IF j <= Len(front) THEN front[j] ELSE back[j - Len(front)]
    BY <1>2, ConcatProperties
  <2>. HIDE DEF u
  <2>2. Len(u) = Len(s) - 1
    BY <1>1, <1>2, <2>1
  <2>3. ASSUME NEW j \in 1..Len(u) PROVE u[j] = IF j < i THEN s[j] ELSE s[j + 1]
    <3>1. j \in Int /\ 1 <= j /\ j <= Len(s) - 1
      BY <1>1, <2>2
    <3>2. u[j] = IF j <= i - 1 THEN front[j] ELSE back[j - (i - 1)]
      BY <1>2, <2>1
    <3>3. CASE j < i
      <4>1. j \in 1..i - 1 /\ j <= i - 1
        BY <1>1, <3>1, <3>3
      <4>. QED BY <1>2, <3>2, <3>3, <4>1
    <3>4. CASE ~(j < i)
      <4>1. j - (i - 1) \in 1..Len(s) - i /\ i + (j - (i - 1)) = j + 1 /\ ~(j <= i - 1)
        BY <1>1, <3>1, <3>4
      <4>2. back[j - (i - 1)] = s[j + 1]
        BY <1>2, <4>1
      <4>. QED BY <3>2, <3>4, <4>1, <4>2
    <3>. QED BY <3>3, <3>4
  <2>. QED BY <2>1, <2>2, <2>3
<1>. HIDE DEF u
<1>4. at \subseteq 1..Len(s) /\ left \subseteq 1..Len(u) /\ IsFiniteSet(at) /\ IsFiniteSet(left)
  <2>1. IsFiniteSet(1..Len(s)) /\ IsFiniteSet(1..Len(u))
    BY <1>1, <1>3, FS_Interval
  <2>. QED BY <2>1, FS_Subset
<1>5. f \in Bijection(left, at \ {i})
  <2>1. \A j \in left : f[j] = IF j < i THEN j ELSE j + 1
    OBVIOUS
  <2>2. f \in [left -> at \ {i}]
    <3>1. ASSUME NEW j \in left PROVE f[j] \in at \ {i}
      <4>1. j \in 1..Len(s) - 1 /\ u[j] \in S /\ u[j] = IF j < i THEN s[j] ELSE s[j + 1]
        BY <1>3
      <4>2. CASE j < i
        BY <1>1, <4>1, <4>2
      <4>3. CASE ~(j < i)
        <5>1. j + 1 \in 1..Len(s) /\ j + 1 # i /\ s[j + 1] \in S
          BY <1>1, <4>1, <4>3
        <5>. QED BY <4>3, <5>1
      <4>. QED BY <4>2, <4>3
    <3>. QED BY <3>1
  <2>3. \A j, k \in left : f[j] = f[k] => j = k
    BY <1>1, <1>3, <2>1
  <2>4. ASSUME NEW k \in at \ {i} PROVE \E j \in left : f[j] = k
    <3>1. CASE k < i
      <4>1. k \in 1..Len(u) /\ s[k] \in S
        BY <1>1, <1>3, <3>1
      <4>2. k \in left
        BY <1>3, <3>1, <4>1
      <4>. QED BY <2>1, <3>1, <4>2
    <3>2. CASE k > i
      <4>1. k - 1 \in 1..Len(u) /\ ~(k - 1 < i) /\ (k - 1) + 1 = k
        BY <1>1, <1>3, <3>2
      <4>2. k - 1 \in left
        BY <1>3, <4>1
      <4>. QED BY <2>1, <4>1, <4>2
    <3>. QED BY <1>1, <3>1, <3>2
  <2>5. f \in Injection(left, at \ {i})
    BY <2>2, <2>3 DEF Injection, IsInjective
  <2>6. f \in Surjection(left, at \ {i})
    BY <2>2, <2>4 DEF Surjection
  <2>. QED BY <2>5, <2>6 DEF Bijection
<1>. HIDE DEF f, at, left
<1>6. Cardinality(left) = Cardinality(at \ {i})
  BY <1>4, <1>5, FS_Bijection DEF ExistsBijection
<1>7. Cardinality(at \ {i}) = IF i \in at THEN Cardinality(at) - 1 ELSE Cardinality(at)
  BY <1>4, FS_RemoveElement
<1>8. (i \in at <=> s[i] \in S) /\ Cardinality(at) \in Nat
  BY <1>4, FS_CardinalityType DEF at
<1>9. Count(u, S) = Cardinality(left) /\ Count(s, S) = Cardinality(at)
  BY DEF Count, left, at
<1>10. s[i] \in T
  OBVIOUS
<1>11. Count(u, S) = Count(s, S) - (IF s[i] \in S THEN 1 ELSE 0)
  BY <1>6, <1>7, <1>8, <1>9
<1>. QED BY <1>3, <1>10, <1>11 DEF u, front, back

-----------------------------------------------------------------------------
(* A function that starts with 1 and doubles exists, is positive and grows. *)
Doubles(f, n) == f = [k \in 0..n |-> IF k = 0 THEN 1 ELSE 2 * f[k - 1]]

LEMMA DoublingExists ==
  ASSUME NEW n \in Nat
  PROVE  \E f : Doubles(f, n)
<1>. DEFINE Bad == {k \in 0..n : ~\E f : Doubles(f, k)}
<1>1. ASSUME Bad # {} PROVE FALSE
  <2>1. IsFiniteSet(Bad) /\ Bad \in SUBSET Int
    <3>1. IsFiniteSet(0..n)
      BY FS_Interval
    <3>. QED BY <3>1, FS_Subset
  <2>2. PICK l \in Bad : \A k \in Bad : l <= k
    BY <2>1, <1>1, LeastElement
  <2>3. CASE l = 0
    <3>1. Doubles([k \in 0..0 |-> 1], 0)
      BY DEF Doubles
    <3>. QED BY <3>1, <2>2, <2>3
  <2>4. CASE l # 0
    <3>1. l \in Nat /\ l - 1 \in 0..n /\ ~(l <= l - 1)
      BY <2>4
    <3>2. l - 1 \notin Bad
      BY <3>1, <2>2
    <3>3. PICK f : Doubles(f, l - 1)
      BY <3>1, <3>2
    <3>. DEFINE g == [k \in 0..l |-> IF k = l THEN 2 * f[l - 1] ELSE f[k]]
    <3>4. ASSUME NEW k \in 0..l PROVE g[k] = IF k = 0 THEN 1 ELSE 2 * g[k - 1]
      <4>1. CASE k = l
        BY <4>1, <2>4, <3>1
      <4>2. CASE k # l
        <5>1. k \in 0..(l - 1)
          BY <4>2, <3>1
        <5>2. f[k] = IF k = 0 THEN 1 ELSE 2 * f[k - 1]
          BY <5>1, <3>3 DEF Doubles
        <5>3. g[k] = f[k] /\ (k # 0 => g[k - 1] = f[k - 1])
          BY <5>1, <4>2, <3>1
        <5>. QED BY <5>2, <5>3
      <4>. QED BY <4>1, <4>2
    <3>5. g = [k \in 0..l |-> g[k]]
      OBVIOUS
    <3>. HIDE DEF g
    <3>6. [k \in 0..l |-> g[k]] = [k \in 0..l |-> IF k = 0 THEN 1 ELSE 2 * g[k - 1]]
      BY <3>4
    <3>7. Doubles(g, l)
      BY <3>5, <3>6 DEF Doubles
    <3>. QED BY <3>7, <2>2
  <2>. QED BY <2>3, <2>4
<1>. QED BY <1>1

LEMMA DoublingGrows ==
  ASSUME NEW n \in Nat, NEW f, Doubles(f, n)
  PROVE  /\ f[0] = 1 /\ \A k \in 1..n : f[k] = 2 * f[k - 1]
         /\ \A k \in 0..n : f[k] \in Nat \ {0}
         /\ \A j, k \in 0..n : j < k <=> f[j] < f[k]
<1>1. f[0] = 1 /\ \A k \in 1..n : f[k] = 2 * f[k - 1]
  BY DEF Doubles
<1>. DEFINE Ends(k) == f[k] \in Nat \ {0} /\ \A j \in 0..(k - 1) : f[j] < f[k]
            Bad == {k \in 0..n : ~Ends(k)}
<1>2. ASSUME Bad # {} PROVE FALSE
  <2>1. IsFiniteSet(Bad) /\ Bad \in SUBSET Int
    <3>1. IsFiniteSet(0..n)
      BY FS_Interval
    <3>. QED BY <3>1, FS_Subset
  <2>2. PICK l \in Bad : \A k \in Bad : l <= k
    BY <2>1, <1>2, LeastElement
  <2>3. l # 0
    BY <1>1, <2>2
  <2>4. l \in 1..n /\ l - 1 \in 0..n /\ ~(l <= l - 1)
    BY <2>3
  <2>5. f[l - 1] \in Nat \ {0} /\ \A j \in 0..(l - 1 - 1) : f[j] < f[l - 1]
    BY <2>2, <2>4
  <2>6. f[l] = 2 * f[l - 1]
    BY <1>1, <2>4
  <2>7. \A j \in 0..(l - 1) : f[j] \in Nat /\ f[j] <= f[l - 1]
    <3>1. ASSUME NEW j \in 0..(l - 1) PROVE f[j] \in Nat /\ f[j] <= f[l - 1]
      <4>1. CASE j = l - 1
        BY <4>1, <2>5
      <4>2. CASE j # l - 1
        <5>1. j \in 0..(l - 1 - 1) /\ j \in 0..n /\ ~(l <= j)
          BY <4>2, <2>4
        <5>2. f[j] \in Nat
          BY <5>1, <2>2
        <5>. QED BY <5>1, <5>2, <2>5
      <4>. QED BY <4>1, <4>2
    <3>. QED BY <3>1
  <2>8. Ends(l)
    BY <2>5, <2>6, <2>7
  <2>. QED BY <2>2, <2>8
<1>3. \A k \in 0..n : f[k] \in Nat \ {0} /\ \A j \in 0..(k - 1) : f[j] < f[k]
  BY <1>2
<1>4. ASSUME NEW j \in 0..n, NEW k \in 0..n PROVE j < k <=> f[j] < f[k]
  <2>1. j < k => f[j] < f[k]
    BY <1>3
  <2>2. k < j => f[k] < f[j]
    BY <1>3
  <2>3. f[j] \in Nat /\ f[k] \in Nat /\ j \in Int /\ k \in Int
    BY <1>3
  <2>4. j < k \/ j = k \/ k < j
    BY <2>3
  <2>. QED BY <2>1, <2>2, <2>3, <2>4
<1>. QED BY <1>1, <1>3, <1>4
=============================================================================
