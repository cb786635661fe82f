------------------------ MODULE AppendOnlyMapProofs ------------------------
(***************************************************************************)
(* Theorems about AppendOnlyMap for every capacity asked for, every set of *)
(* keys, values and readers, and every hash: the map never loses an entry, *)
(* never stores a key twice, implements OnceMap, and a search of it gives  *)
(* up only when the map is full.  All but the last look at the probes only *)
(* as a function into the slots; the last needs that the capacity is a     *)
(* power of two, so that the triangular probes visit every slot.           *)
(***************************************************************************)
EXTENDS AppendOnlyMap, FiniteSetTheorems, FunctionTheorems, TLAPS

-----------------------------------------------------------------------------
(***************************************************************************)
(* Powers of two                                                           *)
(***************************************************************************)

\* A set of naturals that has an element has a least one.
LEMMA LeastNatural ==
    ASSUME NEW T \in SUBSET Nat, T # {}
    PROVE  \E m \in T : \A y \in T : m <= y
<1> DEFINE R == OpToRel(<, Nat)
<1>1. PICK m \in T : \A y \in T : ~ (<<y, m>> \in R)
    <2>1. IsWellFoundedOn(R, Nat)
        BY NatLessThanWellFounded
    <2> HIDE DEF R
    <2> QED BY <2>1, WFMin
<1>2. ASSUME NEW y \in T PROVE m <= y
    <2>1. y < m => <<y, m>> \in R
        BY DEF OpToRel
    <2> HIDE DEF R
    <2> QED BY <1>1, <2>1
<1> QED
    BY <1>2

\* The sets of numbers up to n + 1 are those up to n, with and without n + 1.
LEMMA PowerDoubles ==
    ASSUME NEW n \in Nat
    PROVE  2 ^ n \in Nat /\ 2 ^ (n + 1) = 2 * 2 ^ n
<1> DEFINE S == 1 .. n
           T == 1 .. n + 1
           A == SUBSET S
           B == {s \cup {n + 1} : s \in A}
           f == [s \in A |-> s \cup {n + 1}]
<1>1. /\ IsFiniteSet(S) /\ Cardinality(S) = n
      /\ IsFiniteSet(T) /\ Cardinality(T) = n + 1
    BY FS_Interval
<1>2. /\ IsFiniteSet(A) /\ Cardinality(A) = 2 ^ n
      /\ Cardinality(SUBSET T) = 2 ^ (n + 1)
    <2> HIDE DEF S, T
    <2> QED BY <1>1, FS_SUBSET
<1>3. T = S \cup {n + 1} /\ n + 1 \notin S
    OBVIOUS
<1> HIDE DEF S, T
<1>4. SUBSET T = A \cup B /\ A \cap B = {}
    <2>1. ASSUME NEW t \in SUBSET T, n + 1 \in t PROVE t \in B
        <3>1. t \ {n + 1} \in A /\ t = (t \ {n + 1}) \cup {n + 1}
            BY <1>3, <2>1
        <3> QED BY <3>1
    <2>2. ASSUME NEW t \in SUBSET T, n + 1 \notin t PROVE t \in A
        BY <1>3, <2>2
    <2>3. \A t \in B : t \in SUBSET T /\ n + 1 \in t
        BY <1>3
    <2>4. \A t \in A : t \in SUBSET T /\ n + 1 \notin t
        BY <1>3
    <2> HIDE DEF A, B
    <2> QED BY <2>1, <2>2, <2>3, <2>4
<1>5. ExistsBijection(A, B)
    <2>1. ASSUME NEW s \in A, NEW t \in A, f[s] = f[t] PROVE s = t
        <3>1. s = f[s] \ {n + 1} /\ t = f[t] \ {n + 1}
            BY <1>3
        <3> QED BY <2>1, <3>1
    <2>2. f \in [A -> B] /\ \A t \in B : \E s \in A : f[s] = t
        OBVIOUS
    <2>3. f \in Bijection(A, B)
        <3> HIDE DEF A, B, f
        <3> QED BY <2>1, <2>2, Fun_IsBij
    <2> QED BY <2>3 DEF ExistsBijection
<1>6. IsFiniteSet(B) /\ Cardinality(B) = Cardinality(A)
    <2> HIDE DEF A, B
    <2> QED BY <1>2, <1>5, FS_Bijection
<1> HIDE DEF A, B, f
<1>7. Cardinality(A) \in Nat /\ Cardinality(A \cap B) = 0
    BY <1>2, <1>4, FS_CardinalityType, FS_EmptySet
<1>8. Cardinality(A \cup B) =
          Cardinality(A) + Cardinality(B) - Cardinality(A \cap B)
    BY <1>2, <1>6, FS_Union
<1>9. Cardinality(SUBSET T) = 2 * Cardinality(A)
    <2>1. /\ Cardinality(SUBSET T) = Cardinality(A \cup B)
          /\ Cardinality(A \cup B) = Cardinality(A) + Cardinality(A) - 0
        BY <1>4, <1>6, <1>7, <1>8, Zenon
    <2>2. PICK m \in Nat : m = Cardinality(A)
        BY <1>7
    <2>3. m + m - 0 = 2 * m
        OBVIOUS
    <2> QED BY <2>1, <2>2, <2>3, Zenon
<1> QED
    BY <1>2, <1>7, <1>9

\* A power of two is more than its exponent.
LEMMA PowerExceeds == \A n \in Nat : 2 ^ n \in Nat /\ 2 ^ n > n
<1> DEFINE Bad == {n \in Nat : ~ (2 ^ n > n)}
<1>1. ASSUME NEW m \in Bad, \A y \in Bad : m <= y PROVE FALSE
    <2>1. CASE m = 0
        <3>1. 2 ^ 0 = 1
            OBVIOUS
        <3> QED BY <1>1, <2>1, <3>1
    <2>2. CASE m # 0
        <3>1. m - 1 \in Nat /\ m - 1 \notin Bad /\ (m - 1) + 1 = m
            BY <1>1, <2>2
        <3>2. PICK k \in Nat : k = m - 1
            BY <3>1
        <3>3. 2 ^ k > k /\ 2 ^ k \in Nat /\ 2 ^ (k + 1) = 2 * 2 ^ k
            BY <3>1, <3>2, PowerDoubles
        <3>4. 2 ^ (k + 1) > k + 1
            BY <3>3
        <3> QED BY <1>1, <3>1, <3>2, <3>4
    <2> QED BY <2>1, <2>2
<1>2. Bad = {}
    <2>1. Bad \in SUBSET Nat
        OBVIOUS
    <2> HIDE DEF Bad
    <2> QED BY <1>1, <2>1, LeastNatural
<1> QED
    BY <1>2, PowerDoubles

\* The next power of two is one.
LEMMA NextPowerIsPower ==
    ASSUME NEW n \in Nat
    PROVE  \E k \in Nat : NextPower(n) = 2 ^ k
<1> DEFINE powers == {2 ^ i : i \in 0 .. n}
           enough == {p \in powers : p >= n}
<1>1. powers \subseteq Nat
    BY PowerExceeds
<1>2. 2 ^ n \in enough
    BY PowerExceeds
<1>3. PICK p \in enough : \A q \in enough : p <= q
    <2> HIDE DEF powers
    <2>1. enough \in SUBSET Nat /\ enough # {}
        BY <1>1, <1>2
    <2> HIDE DEF enough
    <2> QED BY <2>1, LeastNatural
<1>4. p \in powers /\ p >= n /\ \A q \in powers : q >= n => p <= q
    <2> HIDE DEF powers
    <2> QED BY <1>3
<1>5. NextPower(n) \in powers
    <2>1. NextPower(n) =
              CHOOSE x \in powers : x >= n /\ \A q \in powers : q >= n => x <= q
        BY DEF NextPower
    <2> HIDE DEF powers
    <2> QED BY <1>4, <2>1
<1> QED
    BY <1>5

\* The capacity of a map is a power of two.
LEMMA CapacityIsPower == \E k \in Nat : Capacity = 2 ^ k
<1>1. PICK k \in Nat : NextPower(Requested) = 2 ^ k
    BY NextPowerIsPower, RequestedAssumption
<1>2. NextPower(Requested) \in Nat
    BY <1>1, PowerExceeds
<1>3. \E j \in Nat : NextPower(NextPower(Requested)) = 2 ^ j
    BY <1>2, NextPowerIsPower
<1> QED
    BY <1>1, <1>3 DEF Capacity, RealCapacity

\* A map has a slot.
LEMMA CapacityType == Capacity \in Nat \ {0}
<1>1. PICK j \in Nat : Capacity = 2 ^ j
    BY CapacityIsPower
<1> QED
    BY <1>1, PowerExceeds

-----------------------------------------------------------------------------
(***************************************************************************)
(* The probes of a search                                                  *)
(***************************************************************************)

IInv == TypeOK /\ EntriesReachable /\ ProbesBehind /\ KeysUnique

\* Every probe hits a slot of the map.
LEMMA SlotType ==
    ASSUME TypeOK, NEW k \in Keys, NEW i \in Nat
    PROVE  Slot(k, i) \in Slots
<1>1. hash[k] \in Nat
    BY CapacityType DEF TypeOK, Slots
<1>2. (i * (i + 1)) \div 2 \in Nat
    <2> DEFINE m == i * (i + 1)
    <2>1. m \in Nat
        OBVIOUS
    <2> HIDE DEF m
    <2>2. m \div 2 \in Nat
        BY <2>1
    <2> QED
        BY <2>2 DEF m
<1>3. \A n \in Nat : n % Capacity \in 0..(Capacity - 1)
    BY CapacityType
<1> QED
    BY <1>1, <1>2, <1>3 DEF Slot, Slots

\* What a power of two divides of a product with an odd factor, it divides of
\* the other factor.
Divides(m, b) == \E c \in Int : b = m * c

LEMMA OddFactor ==
    ASSUME NEW k \in Nat, NEW x \in Int, NEW b \in Int,
           Divides(2 ^ k, (2 * x + 1) * b)
    PROVE  Divides(2 ^ k, b)
<1> DEFINE OddOK(n) == \A d \in Int :
                           Divides(2 ^ n, (2 * x + 1) * d) => Divides(2 ^ n, d)
           Bad == {n \in Nat : ~ OddOK(n)}
<1>1. ASSUME NEW m \in Bad, \A y \in Bad : m <= y PROVE FALSE
    <2>1. CASE m = 0
        <3>1. 2 ^ 0 = 1 /\ \A d \in Int : d = 1 * d
            OBVIOUS
        <3>2. OddOK(0)
            BY <3>1 DEF Divides
        <3> QED BY <1>1, <2>1, <3>2
    <2>2. CASE m # 0
        <3>1. m - 1 \in Nat /\ m - 1 \notin Bad /\ (m - 1) + 1 = m
            BY <1>1, <2>2
        <3>2. PICK n \in Nat : n = m - 1
            BY <3>1
        <3>3. PICK p \in Nat : p = 2 ^ n /\ 2 ^ (n + 1) = 2 * p
            BY PowerDoubles
        <3>4. ASSUME NEW d \in Int, NEW c \in Int,
                     (2 * x + 1) * d = (2 * p) * c
              PROVE  \E e \in Int : d = (2 * p) * e
            <4>1. PICK pc \in Int, xd \in Int : pc = p * c /\ xd = x * d
                OBVIOUS
            <4>2. (2 * x + 1) * d = 2 * xd + d /\ (2 * p) * c = 2 * pc
                BY <4>1
            <4>3. PICK h \in Int : d = 2 * h
                <5>1. PICK h \in Int : h = pc - xd
                    OBVIOUS
                <5>2. d = 2 * h
                    BY <3>4, <4>2, <5>1
                <5> QED BY <5>2
            <4>4. (2 * x + 1) * h = p * c
                <5>1. (2 * x + 1) * d = 2 * ((2 * x + 1) * h)
                    BY <4>3
                <5>2. PICK y \in Int : y = (2 * x + 1) * h
                    OBVIOUS
                <5> QED BY <3>4, <4>1, <4>2, <5>1, <5>2
            <4>5. PICK e \in Int : h = p * e
                <5>1. OddOK(n)
                    BY <3>1, <3>2
                <5>2. Divides(2 ^ n, (2 * x + 1) * h)
                    BY <3>3, <4>4 DEF Divides
                <5>3. Divides(2 ^ n, h)
                    <6> HIDE DEF Bad
                    <6> QED BY <5>1, <5>2
                <5> QED BY <3>3, <5>3 DEF Divides
            <4>6. d = (2 * p) * e
                BY <4>3, <4>5
            <4> QED BY <4>6
        <3>5. 2 ^ m = 2 * p
            BY <3>1, <3>2, <3>3
        <3>6. OddOK(m)
            BY <3>4, <3>5 DEF Divides
        <3> QED BY <1>1, <3>6
    <2> QED BY <2>1, <2>2
<1>2. Bad = {}
    <2>1. Bad \in SUBSET Nat
        OBVIOUS
    <2> HIDE DEF Bad
    <2> QED BY <1>1, <2>1, LeastNatural
<1>3. OddOK(k)
    BY <1>2
<1> QED
    BY <1>3

\* The increments of the probes add up to half of i * (i + 1).
LEMMA Triangular ==
    ASSUME NEW i \in Nat
    PROVE  /\ (i * (i + 1)) \div 2 \in Nat
           /\ 2 * ((i * (i + 1)) \div 2) = i * (i + 1)
<1>1. \E n \in Nat : i * (i + 1) = 2 * n
    <2>1. PICK x \in Nat : i = 2 * x \/ i = 2 * x + 1
        <3>1. i \div 2 \in Nat /\ (i = 2 * (i \div 2) \/ i = 2 * (i \div 2) + 1)
            OBVIOUS
        <3> QED BY <3>1
    <2>2. CASE i = 2 * x
        <3>1. i * (i + 1) = 2 * (x * (i + 1)) /\ x * (i + 1) \in Nat
            BY <2>2
        <3> QED BY <3>1
    <2>3. CASE i = 2 * x + 1
        <3>1. i + 1 = 2 * (x + 1)
            BY <2>3
        <3>2. i * (i + 1) = 2 * (i * (x + 1)) /\ i * (x + 1) \in Nat
            BY <3>1
        <3> QED BY <3>2
    <2> QED BY <2>1, <2>2, <2>3
<1>2. PICK n \in Nat : i * (i + 1) = 2 * n
    BY <1>1
<1>3. (2 * n) \div 2 = n
    OBVIOUS
<1> QED
    BY <1>2, <1>3

\* Two probes of a search hit two slots: with C the capacity, 2 * C would
\* divide (j - i) * (j + i + 1), one factor of which is odd, so it would
\* divide the other, which is smaller.
LEMMA ProbesDiffer ==
    ASSUME NEW h \in Nat, NEW i \in Nat, NEW j \in Nat, i < j, j < Capacity,
           (h + (i * (i + 1)) \div 2) % Capacity
               = (h + (j * (j + 1)) \div 2) % Capacity
    PROVE  FALSE
<1>1. PICK k \in Nat : Capacity = 2 ^ k
    BY CapacityIsPower
<1>2. PICK C \in Nat : C = Capacity /\ C > 0
    BY CapacityType
<1>3. PICK D \in Nat : D = 2 * C
    BY <1>2
<1>4. D = 2 ^ (k + 1) /\ D > 0
    BY <1>1, <1>2, <1>3, PowerDoubles
<1>5. PICK s \in Nat, t \in Nat :
          /\ s = (i * (i + 1)) \div 2 /\ 2 * s = i * (i + 1)
          /\ t = (j * (j + 1)) \div 2 /\ 2 * t = j * (j + 1)
    BY Triangular
<1>6. \E c \in Int : t - s = C * c
    <2>1. (h + s) % C = (h + t) % C /\ h + s \in Nat /\ h + t \in Nat
        BY <1>2, <1>5
    <2>2. PICK a \in Nat, b \in Nat : a = h + s /\ b = h + t
        OBVIOUS
    <2>3. /\ a % C = a - C * (a \div C) /\ a \div C \in Int
          /\ b % C = b - C * (b \div C) /\ b \div C \in Int
        BY <1>2, <2>2
    <2>4. PICK x \in Int, y \in Int : a - C * x = b - C * y
        BY <2>1, <2>2, <2>3
    <2>5. b - a = C * (y - x) /\ y - x \in Int
        <3>1. PICK u \in Int, v \in Int : u = C * x /\ v = C * y
            OBVIOUS
        <3>2. C * (y - x) = v - u
            BY <3>1
        <3> QED BY <2>4, <3>1, <3>2
    <2>6. t - s = b - a
        BY <2>2
    <2> QED BY <2>5, <2>6
<1>7. PICK c \in Int : t - s = C * c
    BY <1>6
<1>8. (j - i) * (j + i + 1) = D * c
    <2>1. (j - i) * (j + i + 1) = j * (j + 1) - i * (i + 1)
        OBVIOUS
    <2>2. (j - i) * (j + i + 1) = 2 * t - 2 * s
        BY <1>5, <2>1
    <2>3. 2 * t - 2 * s = 2 * (t - s)
        OBVIOUS
    <2>4. D * c = 2 * (C * c)
        BY <1>3
    <2> QED BY <1>7, <2>2, <2>3, <2>4
<1>9. ASSUME NEW b \in Int, 0 < b, b < D, Divides(D, b) PROVE FALSE
    <2>1. PICK e \in Int : b = D * e
        BY <1>9 DEF Divides
    <2>2. CASE e <= 0
        <3>1. D * e <= 0
            BY <1>4, <2>2
        <3> QED BY <1>9, <2>1, <3>1
    <2>3. CASE e >= 1
        <3>1. D * e >= D
            BY <1>4, <2>3
        <3> QED BY <1>9, <2>1, <3>1
    <2> QED BY <2>2, <2>3
<1>10. PICK a \in Int, b \in Int : a = j - i /\ b = j + i + 1
    OBVIOUS
<1>11. 0 < a /\ a < D /\ 0 < b /\ b < D
    BY <1>2, <1>3, <1>10
<1>12. a * b = D * c /\ b * a = D * c
    BY <1>8, <1>10
<1>13. PICK x \in Int : a = 2 * x + 1 \/ b = 2 * x + 1
    <2>1. CASE \E y \in Int : a = 2 * y + 1
        BY <2>1
    <2>2. CASE ~ \E y \in Int : a = 2 * y + 1
        <3>1. PICK y \in Int : a = 2 * y
            <4>1. /\ a \div 2 \in Int
                  /\ a = 2 * (a \div 2) \/ a = 2 * (a \div 2) + 1
                OBVIOUS
            <4> QED BY <2>2, <4>1
        <3>2. b = 2 * (y + i) + 1 /\ y + i \in Int
            BY <1>10, <3>1
        <3> QED BY <3>2
    <2> QED BY <2>1, <2>2
<1>14. CASE a = 2 * x + 1
    <2>1. Divides(2 ^ (k + 1), (2 * x + 1) * b)
        BY <1>4, <1>12, <1>14 DEF Divides
    <2>2. Divides(D, b)
        BY <1>4, <2>1, OddFactor
    <2> QED BY <1>9, <1>11, <2>2
<1>15. CASE b = 2 * x + 1
    <2>1. Divides(2 ^ (k + 1), (2 * x + 1) * a)
        BY <1>4, <1>12, <1>15 DEF Divides
    <2>2. Divides(D, a)
        BY <1>4, <2>1, OddFactor
    <2> QED BY <1>9, <1>11, <2>2
<1> QED
    BY <1>13, <1>14, <1>15

\* As many probes as there are slots, all different, visit every slot.
LEMMA ProbesVisitAll ==
    ASSUME TypeOK, NEW k \in Keys, NEW i \in Slots
    PROVE  \E p \in Slots : Slot(k, p) = i
<1> DEFINE f == [p \in Slots |-> Slot(k, p)]
<1>1. /\ IsFiniteSet(Slots)
      /\ Slots \subseteq Nat /\ \A p \in Slots : p < Capacity
    BY CapacityType, FS_Interval DEF Slots
<1>2. hash[k] \in Nat
    BY <1>1 DEF TypeOK
<1>3. ASSUME NEW p \in Slots, NEW q \in Slots, Slot(k, p) = Slot(k, q)
      PROVE  p = q
    <2>1. p \in Nat /\ q \in Nat /\ p < Capacity /\ q < Capacity
        BY <1>1
    <2>2. ~ (p < q)
        BY <1>2, <1>3, <2>1, ProbesDiffer DEF Slot
    <2>3. ~ (q < p)
        BY <1>2, <1>3, <2>1, ProbesDiffer DEF Slot
    <2> QED BY <2>1, <2>2, <2>3
<1>4. f \in [Slots -> Slots]
    BY <1>1, SlotType
<1>5. f \in Injection(Slots, Slots)
    <2>1. \A p, q \in Slots : f[p] = f[q] => p = q
        BY <1>3
    <2> HIDE DEF f
    <2> QED BY <1>4, <2>1, Fun_IsInj
<1>6. f \in Surjection(Slots, Slots)
    <2> HIDE DEF f
    <2> QED BY <1>1, <1>5, FS_Injection
<1>7. \E p \in Slots : f[p] = i
    <2> HIDE DEF f
    <2> QED BY <1>6, Fun_SurjectionProperties
<1> QED
    BY <1>7

-----------------------------------------------------------------------------
(***************************************************************************)
(* The inductive invariant                                                 *)
(***************************************************************************)

\* The search of a client, when it is in one.
LEMMA SearchType ==
    ASSUME TypeOK, NEW c \in Clients, search[c] # None
    PROVE  /\ search[c] \in Searches
           /\ search[c].key \in Keys
           /\ search[c].value \in Values \cup {None}
           /\ search[c].probes \in 0..Capacity
           /\ search[c].probes \in Nat
<1>1. search[c] \in Searches
    BY DEF TypeOK
<1> QED
    BY <1>1, CapacityType DEF Searches

\* The slot a probe reads is empty or holds an entry.
LEMMA ProbedType ==
    ASSUME TypeOK, NEW c \in Clients, Probing(c)
    PROVE  /\ Slot(search[c].key, search[c].probes) \in Slots
           /\ Probed(c) \in Entries \cup {None}
           /\ Probed(c) # None => /\ Probed(c).key \in Keys
                                  /\ Probed(c).value \in Values
<1>1. Slot(search[c].key, search[c].probes) \in Slots
    BY SearchType, SlotType DEF Probing
<1>2. Probed(c) \in Entries \cup {None}
    BY <1>1 DEF TypeOK, Probed
<1> QED
    BY <1>1, <1>2 DEF Entries

\* The heart of the argument: a probe that finds an empty slot knows that the
\* key is nowhere in the map.
LEMMA EmptyMeansAbsent ==
    ASSUME IInv, NEW c \in Clients, Probing(c), Probed(c) = None
    PROVE  \A i \in Slots : Filled(i) => slots[i].key # search[c].key
<1> DEFINE k == search[c].key
           n == search[c].probes
<1> SUFFICES ASSUME NEW i \in Slots, Filled(i), slots[i].key = k
             PROVE  FALSE
    OBVIOUS
<1>1. PICK p \in 0..(Capacity - 1) :
          /\ Slot(k, p) = i
          /\ \A q \in 0..(p - 1) : Filled(Slot(k, q))
    BY DEF IInv, EntriesReachable
<1>2. n \in Nat /\ p \in Nat
    BY SearchType, CapacityType DEF IInv, Probing
<1>3. CASE p < n
    <2>1. p \in 0..(n - 1)
        BY <1>2, <1>3
    <2>2. slots[Slot(k, p)].key # k
        BY <2>1 DEF IInv, ProbesBehind, Probing
    <2> QED
        BY <2>2, <1>1
<1>4. CASE p = n
    BY <1>1, <1>4 DEF Probed, Filled
<1>5. CASE n < p
    <2>1. n \in 0..(p - 1)
        BY <1>2, <1>5
    <2> QED
        BY <2>1, <1>1 DEF Probed, Filled
<1> QED
    BY <1>2, <1>3, <1>4, <1>5

-----------------------------------------------------------------------------

\* new sets up an empty map.
LEMMA InitIInv == Init => IInv
<1> SUFFICES ASSUME Init PROVE IInv
    OBVIOUS
<1>1. TypeOK
    BY DEF Init, TypeOK, Clients
<1>2. \A i \in Slots : ~ Filled(i)
    BY DEF Init, Filled
<1>3. \A c \in Clients : search[c] = None
    BY DEF Init
<1> QED
    BY <1>1, <1>2, <1>3 DEF IInv, EntriesReachable, ProbesBehind, KeysUnique

\* What Return leaves of the types, whatever the result.
LEMMA ReturnType ==
    ASSUME TypeOK, NEW c \in Clients, search[c] # None,
           NEW result \in Results, Return(c, result)
    PROVE  /\ search' \in [Clients -> Searches \cup {None}]
           /\ \A r \in Readers : search'[r] # None => search'[r].value = None
           /\ answer' \in [Clients -> [key : Keys, result : Results] \cup {None}]
<1>1. search[c].key \in Keys
    BY SearchType
<1>2. Answer(search[c].key, result) \in [key : Keys, result : Results]
    BY <1>1 DEF Answer
<1>3. answer' \in [Clients -> [key : Keys, result : Results] \cup {None}]
    BY <1>2 DEF TypeOK, Return
<1>4. search' \in [Clients -> Searches \cup {None}]
    BY DEF TypeOK, Return
<1>5. \A r \in Readers : search'[r] # None => search'[r].value = None
    BY DEF TypeOK, Return, Clients
<1> QED
    BY <1>3, <1>4, <1>5

\* Ending a search without touching a slot: the other searches go on as they
\* were.
LEMMA ReturnIInv ==
    ASSUME IInv, NEW c \in Clients, search[c] # None,
           NEW result \in Results, Return(c, result),
           UNCHANGED <<hash, slots, used>>
    PROVE  IInv'
<1>1. TypeOK'
    BY ReturnType DEF IInv, TypeOK
<1>2. \A d \in Clients : search'[d] # None => search'[d] = search[d]
    BY DEF IInv, TypeOK, Return
<1>3. EntriesReachable' /\ KeysUnique'
    BY DEF IInv, EntriesReachable, KeysUnique, Filled, Slot
<1>4. ProbesBehind'
    BY <1>2 DEF IInv, ProbesBehind, Filled, Slot
<1> QED
    BY <1>1, <1>3, <1>4 DEF IInv

\* A call starts with no probe behind it.
LEMMA StartIInv ==
    ASSUME IInv, NEW c \in Clients, NEW k \in Keys, NEW v \in Values \cup {None},
           c \in Readers => v = None, Start(c, k, v)
    PROVE  IInv'
<1> DEFINE new == [key |-> k, value |-> v, probes |-> 0]
<1>1. new \in Searches
    BY CapacityType DEF Searches
<1>2. TypeOK'
    <2>1. search' \in [Clients -> Searches \cup {None}]
        BY <1>1 DEF IInv, TypeOK, Start
    <2>2. \A r \in Readers : search'[r] # None => search'[r].value = None
        BY DEF IInv, TypeOK, Start, Clients
    <2> QED
        BY <2>1, <2>2 DEF IInv, TypeOK, Start
<1>3. EntriesReachable' /\ KeysUnique'
    BY DEF IInv, EntriesReachable, KeysUnique, Filled, Slot, Start
<1>4. ProbesBehind'
    <2> SUFFICES ASSUME NEW d \in Clients, search'[d] # None,
                        NEW q \in 0..(search'[d].probes - 1)
                 PROVE  /\ Filled(Slot(search'[d].key, q))
                        /\ slots[Slot(search'[d].key, q)].key # search'[d].key
        BY DEF Start, ProbesBehind, Filled, Slot
    <2>1. CASE d = c
        BY <2>1, <1>1 DEF IInv, TypeOK, Start
    <2>2. CASE d # c
        <3>1. search'[d] = search[d]
            BY <2>2 DEF IInv, TypeOK, Start
        <3> QED
            BY <3>1 DEF IInv, ProbesBehind
    <2> QED
        BY <2>1, <2>2
<1> QED
    BY <1>2, <1>3, <1>4 DEF IInv

\* One probe further: the slot just read joins the ones behind.
LEMMA CollideIInv ==
    ASSUME IInv, NEW c \in Clients, Collide(c)
    PROVE  IInv'
<1> DEFINE k == search[c].key
           n == search[c].probes
<1>1. /\ search[c] \in Searches
      /\ n \in Nat /\ n < Capacity /\ search[c] # None
    BY SearchType DEF IInv, Collide, Probing
<1>2. search'[c] = [search[c] EXCEPT !.probes = n + 1]
    BY DEF IInv, TypeOK, Collide
<1>3. search'[c] \in Searches /\ search'[c].value = search[c].value
    BY <1>1, <1>2, CapacityType DEF Searches
<1>4. \A d \in Clients : d # c => search'[d] = search[d]
    BY DEF IInv, TypeOK, Collide
<1>5. TypeOK'
    <2>1. search' \in [Clients -> Searches \cup {None}]
        <3>1. DOMAIN search' = Clients
            BY DEF IInv, TypeOK, Collide
        <3>2. search' = [d \in Clients |-> search'[d]]
            BY DEF IInv, TypeOK, Collide
        <3>3. \A d \in Clients : search'[d] \in Searches \cup {None}
            BY <1>3, <1>4 DEF IInv, TypeOK
        <3> QED
            BY <3>2, <3>3
    <2>2. \A r \in Readers : search'[r] # None => search'[r].value = None
        BY <1>1, <1>3, <1>4 DEF IInv, TypeOK, Clients
    <2> QED
        BY <2>1, <2>2 DEF IInv, TypeOK, Collide
<1>6. EntriesReachable' /\ KeysUnique'
    BY DEF IInv, EntriesReachable, KeysUnique, Filled, Slot, Collide
<1>7. ProbesBehind'
    <2> SUFFICES ASSUME NEW d \in Clients, search'[d] # None,
                        NEW q \in 0..(search'[d].probes - 1)
                 PROVE  /\ Filled(Slot(search'[d].key, q))
                        /\ slots[Slot(search'[d].key, q)].key # search'[d].key
        BY DEF Collide, ProbesBehind, Filled, Slot
    <2>1. CASE d # c
        BY <2>1, <1>4 DEF IInv, ProbesBehind
    <2>2. CASE d = c
        <3>1. search'[d].key = k /\ q \in 0..n
            BY <1>1, <1>2, <2>2 DEF Searches
        <3>2. CASE q = n
            BY <3>1, <3>2 DEF Collide, Probed, Filled
        <3>3. CASE q # n
            <4>1. q \in 0..(n - 1)
                BY <3>1, <3>3, <1>1
            <4> QED
                BY <4>1, <3>1, <1>1 DEF IInv, ProbesBehind
        <3> QED
            BY <3>2, <3>3
    <2> QED
        BY <2>1, <2>2
<1> QED
    BY <1>5, <1>6, <1>7 DEF IInv

\* What Set does when it sets: used is 0, so the error is out of reach.
LEMMA SetSets ==
    ASSUME IInv, Set
    PROVE  /\ Return(Writer, None)
           /\ slots' = [slots EXCEPT
                  ![Slot(search[Writer].key, search[Writer].probes)] =
                      [key |-> search[Writer].key, value |-> search[Writer].value]]
           /\ UNCHANGED <<hash, used>>
           /\ search[Writer].key \in Keys
           /\ search[Writer].value \in Values
           /\ Slot(search[Writer].key, search[Writer].probes) \in Slots
           /\ Writer \in Clients
           /\ search[Writer] # None
<1>1. Writer \in Clients /\ Probing(Writer) /\ search[Writer] # None
    BY DEF Set, Probing, Clients
<1>2. ~ (used >= Capacity)
    BY CapacityType DEF IInv, TypeOK
<1>3. search[Writer].key \in Keys /\ search[Writer].value \in Values
    BY <1>1, SearchType DEF IInv, Set
<1>4. Slot(search[Writer].key, search[Writer].probes) \in Slots
    BY <1>1, ProbedType DEF IInv
<1> QED
    BY <1>1, <1>2, <1>3, <1>4 DEF Set

\* An insertion fills the empty slot its search ended at.
LEMMA SetIInv ==
    ASSUME IInv, Set
    PROVE  IInv'
<1> DEFINE k == search[Writer].key
           n == search[Writer].probes
           s == Slot(k, n)
           e == [key |-> k, value |-> search[Writer].value]
<1>1. /\ Return(Writer, None)
      /\ slots' = [slots EXCEPT ![s] = e]
      /\ UNCHANGED <<hash, used>>
      /\ k \in Keys
      /\ search[Writer].value \in Values
      /\ s \in Slots
      /\ Writer \in Clients
      /\ search[Writer] # None
    BY SetSets
<1>2. /\ Probing(Writer)
      /\ slots[s] = None
      /\ n \in Nat /\ n < Capacity
    BY <1>1, SearchType DEF Set, Probing, Probed, IInv
<1>3. e \in Entries /\ e # None
    <2>1. e \in Entries
        BY <1>1 DEF Entries
    <2> QED
        BY <2>1, DistinctAssumption
<1>4. \A i \in Slots : i # s => slots'[i] = slots[i]
    BY <1>1 DEF IInv, TypeOK
<1>5. slots'[s] = e
    BY <1>1 DEF IInv, TypeOK
<1>6. \A i \in Slots : Filled(i) => /\ i # s
                                     /\ slots'[i] = slots[i] /\ slots'[i] # None
    BY <1>2, <1>4 DEF Filled
<1>7. \A j \in Keys, q \in Nat : Slot(j, q) \in Slots
    BY SlotType DEF IInv
<1>8. \A d \in Clients : search'[d] # None => d # Writer /\ search'[d] = search[d]
    BY <1>1 DEF IInv, TypeOK, Return
<1>9. TypeOK'
    <2>1. slots' \in [Slots -> Entries \cup {None}]
        BY <1>1, <1>3 DEF IInv, TypeOK
    <2>2. None \in Results
        BY DEF Results
    <2> QED
        BY <1>1, <2>1, <2>2, ReturnType DEF IInv, TypeOK
<1>10. EntriesReachable'
    <2> SUFFICES ASSUME NEW i \in Slots, Filled(i)'
                 PROVE  \E p \in 0..(Capacity - 1) :
                            /\ Slot(slots'[i].key, p) = i
                            /\ \A q \in 0..(p - 1) : slots'[Slot(slots'[i].key, q)] # None
        BY <1>1 DEF EntriesReachable, Filled, Slot
    <2>1. CASE i = s
        <3>1. slots'[i].key = k
            BY <1>5, <2>1
        <3>2. n \in 0..(Capacity - 1) /\ Slot(k, n) = i
            BY <1>1, <1>2, <1>7, <2>1, CapacityType
        <3>3. \A q \in 0..(n - 1) : slots'[Slot(k, q)] # None
            <4> SUFFICES ASSUME NEW q \in 0..(n - 1)
                         PROVE  slots'[Slot(k, q)] # None
                OBVIOUS
            <4>1. Filled(Slot(k, q))
                BY <1>1 DEF IInv, ProbesBehind
            <4>2. q \in Nat
                BY <1>2
            <4> QED
                BY <4>1, <4>2, <1>1, <1>6, <1>7
        <3> QED
            BY <3>1, <3>2, <3>3
    <2>2. CASE i # s
        <3>1. slots'[i] = slots[i] /\ Filled(i)
            BY <1>4, <2>2 DEF Filled
        <3>2. slots[i].key \in Keys
            BY <3>1 DEF IInv, TypeOK, Filled, Entries
        <3>3. PICK p \in 0..(Capacity - 1) :
                  /\ Slot(slots[i].key, p) = i
                  /\ \A q \in 0..(p - 1) : Filled(Slot(slots[i].key, q))
            BY <3>1 DEF IInv, EntriesReachable
        <3>4. Slot(slots'[i].key, p) = i
            BY <3>1, <3>2, <3>3, <1>7, CapacityType
        <3>5. \A q \in 0..(p - 1) : slots'[Slot(slots'[i].key, q)] # None
            BY <3>1, <3>2, <3>3, <1>6, <1>7, CapacityType
        <3> QED
            BY <3>4, <3>5
    <2> QED
        BY <2>1, <2>2
<1>11. ProbesBehind'
    <2> SUFFICES ASSUME NEW d \in Clients, search'[d] # None,
                        NEW q \in 0..(search'[d].probes - 1)
                 PROVE  /\ slots'[Slot(search'[d].key, q)] # None
                        /\ slots'[Slot(search'[d].key, q)].key # search'[d].key
        BY <1>1 DEF ProbesBehind, Filled, Slot
    <2>1. search'[d] = search[d] /\ search[d].key \in Keys /\ search[d].probes \in Nat
        BY <1>8, SearchType DEF IInv
    <2>2. /\ Filled(Slot(search[d].key, q))
          /\ slots[Slot(search[d].key, q)].key # search[d].key
        BY <2>1, <1>8 DEF IInv, ProbesBehind
    <2>3. q \in Nat
        BY <2>1
    <2> QED
        BY <2>1, <2>2, <2>3, <1>6, <1>7
<1>12. KeysUnique'
    <2>1. \A i \in Slots : Filled(i) => slots[i].key # k
        BY <1>1, <1>2, EmptyMeansAbsent DEF Probed
    <2>2. \A i \in Slots : i # s /\ Filled(i)' => Filled(i) /\ slots'[i] = slots[i]
        BY <1>4 DEF Filled
    <2> QED
        BY <2>1, <2>2, <1>5 DEF IInv, KeysUnique, Filled
<1> QED
    BY <1>9, <1>10, <1>11, <1>12 DEF IInv

\* Every step keeps the invariant.
LEMMA NextIInv == IInv /\ [Next]_vars => IInv'
<1> SUFFICES ASSUME IInv, [Next]_vars PROVE IInv'
    OBVIOUS
<1>1. ASSUME InsertStart PROVE IInv'
    BY <1>1, StartIInv, DistinctAssumption DEF InsertStart, Clients
<1>2. CASE Set
    BY <1>2, SetIInv
<1>3. ASSUME NEW c \in Clients, GetStart(c) PROVE IInv'
    BY <1>3, StartIInv DEF GetStart
<1>4. ASSUME NEW c \in Clients, Collide(c) PROVE IInv'
    BY <1>4, CollideIInv
<1>5. ASSUME NEW c \in Clients, Found(c) PROVE IInv'
    <2>1. Probed(c).value \in Results
        BY <1>5, ProbedType DEF Found, IInv, Results
    <2> QED
        BY <1>5, <2>1, ReturnIInv DEF Found, Probing
<1>6. ASSUME NEW c \in Clients, NotFound(c) PROVE IInv'
    BY <1>6, ReturnIInv DEF NotFound, Probing, Results
<1>7. ASSUME NEW c \in Clients, Exhausted(c) PROVE IInv'
    BY <1>7, ReturnIInv DEF Exhausted, Results
<1>8. CASE UNCHANGED vars
    BY <1>8 DEF vars, IInv, TypeOK, EntriesReachable, ProbesBehind, KeysUnique,
       Filled, Slot
<1> QED
    BY <1>1, <1>2, <1>3, <1>4, <1>5, <1>6, <1>7, <1>8 DEF Next

\* The invariant holds in every reachable state.
LEMMA AlwaysIInv == Spec => []IInv
<1> QED
    BY InitIInv, NextIInv, PTL DEF Spec

\* Every variable of the map keeps its type.
THEOREM TypeCorrect == Spec => []TypeOK
<1>1. IInv => TypeOK
    BY DEF IInv
<1> QED
    BY <1>1, AlwaysIInv, PTL

\* No entry is ever hidden behind an empty slot.
THEOREM ReachableAlways == Spec => []EntriesReachable
<1>1. IInv => EntriesReachable
    BY DEF IInv
<1> QED
    BY <1>1, AlwaysIInv, PTL

\* The writer never makes a slot that a search has left behind interesting.
THEOREM BehindAlways == Spec => []ProbesBehind
<1>1. IInv => ProbesBehind
    BY DEF IInv
<1> QED
    BY <1>1, AlwaysIInv, PTL

\* A key is stored once at most (insert of appendonly.rs).
THEOREM UniqueAlways == Spec => []KeysUnique
<1>1. IInv => KeysUnique
    BY DEF IInv
<1> QED
    BY <1>1, AlwaysIInv, PTL

-----------------------------------------------------------------------------

\* The only entry of a key decides what slots hold for it, ...
LEMMA HeldByEntry ==
    ASSUME NEW f, NEW i \in Slots, f[i] # None,
           \A j \in Slots : f[j] # None /\ f[j].key = f[i].key => j = i
    PROVE  HeldIn(f, f[i].key) = f[i].value
<1> DEFINE j == CHOOSE x \in Slots : f[x] # None /\ f[x].key = f[i].key
<1>1. j \in Slots /\ f[j] # None /\ f[j].key = f[i].key
    OBVIOUS
<1>2. j = i
    BY <1>1
<1> HIDE DEF j
<1>3. HeldIn(f, f[i].key) = f[j].value
    BY DEF HeldIn, j
<1> QED
    BY <1>2, <1>3

\* ... which is what the map holds for it, ...
LEMMA StoredFilled ==
    ASSUME IInv, NEW i \in Slots, Filled(i)
    PROVE  Stored[slots[i].key] = slots[i].value
<1>1. slots[i].key \in Keys
    BY DEF IInv, TypeOK, Filled, Entries
<1>2. HeldIn(slots, slots[i].key) = slots[i].value
    BY HeldByEntry DEF IInv, KeysUnique, Filled
<1> QED
    BY <1>1, <1>2 DEF Stored

\* ... and a key without an entry has no value.
LEMMA StoredAbsent ==
    ASSUME NEW k \in Keys, \A i \in Slots : Filled(i) => slots[i].key # k
    PROVE  Stored[k] = None
BY DEF Stored, HeldIn, Filled

\* A search that went through all its probes has met every entry that its
\* key could be in.
LEMMA ExhaustedMeansAbsent ==
    ASSUME IInv, NEW c \in Clients, Exhausted(c)
    PROVE  \A i \in Slots : Filled(i) => slots[i].key # search[c].key
<1> SUFFICES ASSUME NEW i \in Slots, Filled(i), slots[i].key = search[c].key
             PROVE  FALSE
    OBVIOUS
<1>1. PICK p \in 0..(Capacity - 1) : Slot(search[c].key, p) = i
    BY DEF IInv, EntriesReachable
<1>2. p \in 0..(search[c].probes - 1) /\ search[c] # None
    BY DEF Exhausted
<1> QED
    BY <1>1, <1>2 DEF IInv, ProbesBehind

\* The empty map of new is the empty map of OnceMap.
LEMMA InitRefines == Init => Once!Init
<1> SUFFICES ASSUME Init PROVE Once!Init
    OBVIOUS
<1>1. \A i \in Slots : ~ Filled(i)
    BY DEF Init, Filled
<1>2. Stored = [k \in Keys |-> None]
    BY <1>1, StoredAbsent DEF Stored
<1> QED
    BY <1>2 DEF Init, Once!Init

\* What the map holds depends on the slots only.
LEMMA StoredUnchanged == slots' = slots => Stored' = Stored
BY DEF Stored

\* The insertion of a key that is absent changes its value and no other.
LEMMA SetRefines ==
    ASSUME IInv, Set
    PROVE  Once!Insert(Writer, search[Writer].key, search[Writer].value)
<1> DEFINE k == search[Writer].key
           v == search[Writer].value
           s == Slot(k, search[Writer].probes)
           e == [key |-> k, value |-> v]
<1>1. /\ Return(Writer, None)
      /\ slots' = [slots EXCEPT ![s] = e]
      /\ k \in Keys /\ v \in Values /\ s \in Slots
      /\ Writer \in Clients
    BY SetSets
<1>2. \A i \in Slots : Filled(i) => slots[i].key # k
    BY <1>1, EmptyMeansAbsent DEF Set
<1>3. Stored[k] = None
    BY <1>1, <1>2, StoredAbsent
<1>4. IInv'
    BY SetIInv
<1>5. slots'[s] = e /\ \A i \in Slots : i # s => slots'[i] = slots[i]
    BY <1>1 DEF IInv, TypeOK
<1>6. slots[s] = None
    BY DEF Set, Probed
<1>7. slots'[s] # None
    <2>1. e \in Entries
        BY <1>1 DEF Entries
    <2> QED
        BY <2>1, <1>5, DistinctAssumption
<1>8. \A i \in Slots : slots'[i] # None =>
          Stored'[slots'[i].key] = slots'[i].value
    <2> SUFFICES ASSUME NEW i \in Slots, slots'[i] # None
                 PROVE  Stored'[slots'[i].key] = slots'[i].value
        OBVIOUS
    <2>1. \A j \in Slots : slots'[j] # None /\ slots'[j].key = slots'[i].key => j = i
        BY <1>4 DEF IInv, KeysUnique, Filled
    <2>2. HeldIn(slots', slots'[i].key) = slots'[i].value
        BY <2>1, HeldByEntry
    <2>3. slots'[i].key \in Keys
        BY <1>4 DEF IInv, TypeOK, Entries
    <2> QED
        BY <2>2, <2>3 DEF Stored
<1>9. \A j \in Keys : j # k => Stored'[j] = Stored[j]
    <2> SUFFICES ASSUME NEW j \in Keys, j # k PROVE Stored'[j] = Stored[j]
        OBVIOUS
    <2>1. \A i \in Slots :
              (Filled(i) /\ slots[i].key = j) <=> (slots'[i] # None /\ slots'[i].key = j)
        BY <1>5, <1>6 DEF Filled
    <2>2. CASE \E i \in Slots : Filled(i) /\ slots[i].key = j
        <3>1. PICK i \in Slots : Filled(i) /\ slots[i].key = j
            BY <2>2
        <3>2. slots'[i] # None /\ slots'[i] = slots[i]
            BY <3>1, <1>5, <1>6 DEF Filled
        <3>3. Stored[j] = slots[i].value
            BY <3>1, StoredFilled
        <3>4. Stored'[j] = slots'[i].value
            BY <3>1, <3>2, <1>8
        <3> QED
            BY <3>2, <3>3, <3>4
    <2>3. CASE ~ \E i \in Slots : Filled(i) /\ slots[i].key = j
        <3>1. Stored[j] = None
            BY <2>3, StoredAbsent
        <3>2. Stored'[j] = None
            BY <2>1, <2>3 DEF Stored, HeldIn
        <3> QED
            BY <3>1, <3>2
    <2> QED
        BY <2>2, <2>3
<1>10. Stored' = [Stored EXCEPT ![k] = v]
    <2>1. Stored' = [j \in Keys |-> Stored'[j]] /\ Stored = [j \in Keys |-> Stored[j]]
        BY DEF Stored
    <2> QED
        BY <2>1, <1>1, <1>5, <1>7, <1>8, <1>9
<1> QED
    BY <1>1, <1>3, <1>10 DEF Once!Insert, Return, Answer, Once!Answer

\* Every step of the map is a step of OnceMap or leaves it alone.
LEMMA NextRefines == IInv /\ [Next]_vars => [Once!Next]_(Once!vars)
<1> SUFFICES ASSUME IInv, [Next]_vars PROVE [Once!Next]_(Once!vars)
    OBVIOUS
<1>1. ASSUME NEW c \in Clients, NEW k \in Keys, NEW v, Start(c, k, v)
      PROVE  Once!Next
    <2>1. Once!Call(c)
        BY <1>1, StoredUnchanged DEF Start, Once!Call
    <2> QED
        BY <2>1 DEF Once!Next
<1>2. CASE InsertStart
    BY <1>1, <1>2 DEF InsertStart, Clients
<1>3. CASE Set
    <2>1. /\ Writer \in Clients
          /\ search[Writer].key \in Keys
          /\ search[Writer].value \in Values
        BY <1>3, SetSets
    <2> QED
        BY <2>1, <1>3, SetRefines DEF Once!Next
<1>4. ASSUME NEW c \in Clients, GetStart(c) PROVE Once!Next
    BY <1>1, <1>4 DEF GetStart
<1>5. ASSUME NEW c \in Clients, Collide(c) PROVE UNCHANGED Once!vars
    BY <1>5, StoredUnchanged DEF Collide, Once!vars
<1>6. ASSUME NEW c \in Clients, Found(c) PROVE Once!Next
    <2>1. /\ search[c].key \in Keys
          /\ Slot(search[c].key, search[c].probes) \in Slots
        BY <1>6, SearchType, ProbedType DEF Found, Probing, IInv
    <2>2. Stored[search[c].key] = Probed(c).value
        BY <2>1, <1>6, StoredFilled DEF Found, Probed, Filled
    <2>3. Once!Get(c, search[c].key)
        BY <2>2, <1>6, StoredUnchanged DEF Found, Return, Answer, Once!Get, Once!Answer
    <2> QED
        BY <2>1, <2>3 DEF Once!Next
<1>7. ASSUME NEW c \in Clients, NotFound(c) PROVE Once!Next
    <2>1. search[c].key \in Keys
        BY <1>7, SearchType DEF NotFound, Probing, IInv
    <2>2. Stored[search[c].key] = None
        BY <2>1, <1>7, EmptyMeansAbsent, StoredAbsent DEF NotFound
    <2>3. Once!Get(c, search[c].key)
        BY <2>2, <1>7, StoredUnchanged
           DEF NotFound, Return, Answer, Once!Get, Once!Answer
    <2> QED
        BY <2>1, <2>3 DEF Once!Next
<1>8. ASSUME NEW c \in Clients, Exhausted(c) PROVE Once!Next
    <2>1. search[c].key \in Keys
        BY <1>8, SearchType DEF Exhausted, IInv
    <2>2. Stored[search[c].key] = None
        BY <2>1, <1>8, ExhaustedMeansAbsent, StoredAbsent
    <2>3. Once!GiveUp(c, search[c].key)
        BY <2>2, <1>8, StoredUnchanged
           DEF Exhausted, Return, Answer, Once!GiveUp, Once!Answer
    <2> QED
        BY <2>1, <2>3 DEF Once!Next
<1>9. CASE UNCHANGED vars
    BY <1>9, StoredUnchanged DEF vars, Once!vars
<1> QED
    BY <1>2, <1>3, <1>4, <1>5, <1>6, <1>7, <1>8, <1>9 DEF Next

\* The map of slots, probed without a lock while it is filled, implements the
\* map in which every operation takes effect at one moment.
THEOREM ImplementsOnceMap == Spec => IsOnceMap
<1> QED
    BY InitRefines, AlwaysIInv, NextRefines, PTL DEF Spec, IsOnceMap, Once!Spec

-----------------------------------------------------------------------------
(***************************************************************************)
(* A search gives up only when the map is full                             *)
(***************************************************************************)

\* No client was told that the map panicked, when no search has.
LEMMA InitGivesUp == Init => GivesUpOnlyWhenFull
<1> SUFFICES ASSUME Init, NEW c \in Clients, NEW k \in Keys,
                    answer[c] = Answer(k, Panic)
             PROVE  FALSE
    BY DEF GivesUpOnlyWhenFull
<1>1. Answer(k, Panic) \in [key : Keys, result : {Panic}]
    BY DEF Answer
<1> QED
    BY <1>1, DistinctAssumption DEF Init

\* A slot that holds an entry holds it for good.
LEMMA FilledStays ==
    ASSUME IInv, [Next]_vars, NEW i \in Slots, Filled(i)
    PROVE  Filled(i)'
<1>1. CASE Set
    <2> DEFINE s == Slot(search[Writer].key, search[Writer].probes)
    <2>1. /\ slots' = [slots EXCEPT ![s] = [key |-> search[Writer].key,
                                            value |-> search[Writer].value]]
          /\ s \in Slots
        BY <1>1, SetSets
    <2>2. slots[s] = None
        BY <1>1 DEF Set, Probed
    <2>3. slots'[i] = slots[i]
        BY <2>1, <2>2 DEF IInv, TypeOK, Filled
    <2> QED
        BY <2>3 DEF Filled
<1>2. CASE slots' = slots
    BY <1>2 DEF Filled
<1> QED
    BY <1>1, <1>2 DEF Next, vars, InsertStart, GetStart, Start, Collide, Found,
                      NotFound, Exhausted

\* A search that has done all its probes found every slot taken.
LEMMA ExhaustedMeansFull ==
    ASSUME IInv, NEW c \in Clients, Exhausted(c)
    PROVE  \A i \in Slots : Filled(i)
<1> SUFFICES ASSUME NEW i \in Slots PROVE Filled(i)
    OBVIOUS
<1>1. search[c] # None /\ search[c].probes = Capacity /\ search[c].key \in Keys
    BY SearchType DEF Exhausted, IInv
<1>2. PICK p \in Slots : Slot(search[c].key, p) = i
    BY <1>1, ProbesVisitAll DEF IInv
<1>3. p \in 0..(search[c].probes - 1)
    BY <1>1 DEF Slots
<1> QED
    BY <1>1, <1>2, <1>3 DEF IInv, ProbesBehind

\* What a step that is not Exhausted answers is not a panic.
LEMMA OthersDoNotPanic ==
    ASSUME IInv, [Next]_vars, NEW c \in Clients, NEW k \in Keys,
           answer'[c] = Answer(k, Panic), answer[c] # Answer(k, Panic)
    PROVE  \E d \in Clients : Exhausted(d)
<1>1. Answer(k, Panic) # None
    BY DistinctAssumption DEF Answer
<1>2. ASSUME NEW d \in Clients, NEW j \in Keys, NEW v, Start(d, j, v)
      PROVE  FALSE
    BY <1>1, <1>2 DEF Start, IInv, TypeOK
<1>3. ASSUME NEW d \in Clients, NEW result, Return(d, result), result # Panic
      PROVE  FALSE
    BY <1>3 DEF Return, Answer, IInv, TypeOK
<1>4. ASSUME Set PROVE FALSE
    BY <1>3, <1>4, SetSets, DistinctAssumption
<1>5. ASSUME NEW d \in Clients, Found(d) PROVE FALSE
    <2>1. Return(d, Probed(d).value) /\ Probed(d).value \in Values
        BY <1>5, ProbedType DEF Found, IInv
    <2> QED
        BY <1>3, <2>1, DistinctAssumption
<1>6. ASSUME NEW d \in Clients, NotFound(d) PROVE FALSE
    BY <1>3, <1>6, DistinctAssumption DEF NotFound
<1>7. ASSUME NEW d \in Clients, Collide(d) PROVE FALSE
    BY <1>7 DEF Collide
<1>8. ASSUME NEW d \in Clients, GetStart(d) PROVE FALSE
    BY <1>2, <1>8 DEF GetStart
<1>9. ASSUME InsertStart PROVE FALSE
    BY <1>2, <1>9 DEF InsertStart, Clients
<1>10. ~ UNCHANGED vars
    BY DEF vars
<1> QED
    BY <1>4, <1>5, <1>6, <1>7, <1>8, <1>9, <1>10 DEF Next

LEMMA NextGivesUp ==
    IInv /\ GivesUpOnlyWhenFull /\ [Next]_vars => GivesUpOnlyWhenFull'
<1> SUFFICES ASSUME IInv, GivesUpOnlyWhenFull, [Next]_vars,
                    NEW c \in Clients, NEW k \in Keys,
                    answer'[c] = Answer(k, Panic), NEW i \in Slots
             PROVE  Filled(i)'
    BY DEF GivesUpOnlyWhenFull, Answer
<1>1. CASE answer[c] = Answer(k, Panic)
    BY <1>1, FilledStays DEF GivesUpOnlyWhenFull
<1>2. CASE answer[c] # Answer(k, Panic)
    <2>1. PICK d \in Clients : Exhausted(d)
        BY <1>2, OthersDoNotPanic
    <2>2. Filled(i)
        BY <2>1, ExhaustedMeansFull
    <2> QED
        BY <2>2, FilledStays
<1> QED
    BY <1>1, <1>2

\* The panic of search, "Should have found key or null key after full
\* iteration!", is reached only by a search of a full map: the capacity is a
\* power of two, so the triangular probes visit every slot.
THEOREM GivesUpAlways == Spec => []GivesUpOnlyWhenFull
<1> QED
    BY InitGivesUp, AlwaysIInv, NextGivesUp, PTL DEF Spec

=============================================================================
