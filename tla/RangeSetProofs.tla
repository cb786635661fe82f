--------------------------- MODULE RangeSetProofs ---------------------------
(***************************************************************************)
(* What the operators of RangeSet return, for every list and every N.      *)
(***************************************************************************)
EXTENDS RangeSet, FiniteSetTheorems, WellFoundedInduction, TLAPS

\* A non-empty set of naturals has a least element: what stands in for
\* induction here.
LEMMA LeastElement ==
    ASSUME NEW T \in SUBSET Nat, T # {}
    PROVE  \E m \in T : \A y \in T : m <= y
<1> DEFINE R == OpToRel(<, Nat)
<1>1. IsWellFoundedOn(R, Nat)
    BY NatLessThanWellFounded
<1>2. PICK m \in T : \A y \in T : ~ (<<y, m>> \in R)
    <2> HIDE DEF R
    <2> QED BY <1>1, WFMin
<1>3. ASSUME NEW y \in T PROVE m <= y
    <2>1. y < m => <<y, m>> \in R
        BY DEF OpToRel
    <2>2. ~ (y < m)
        <3> HIDE DEF R
        <3> QED BY <1>2, <2>1
    <2> QED BY <2>2
<1> QED
    BY <1>3

\* A non-empty bounded set of naturals has a maximum, and Max picks it.
LEMMA MaxOfBounded ==
    ASSUME NEW L \in Nat, NEW S, S \subseteq 0 .. L, S # {}
    PROVE  /\ Max(S) \in S
           /\ \A x \in S : x <= Max(S)
<1> DEFINE T == {L - x : x \in S}
<1>1. T \in SUBSET Nat /\ T # {}
    <2>1. \A x \in S : L - x \in Nat
        OBVIOUS
    <2> QED BY <2>1
<1>2. PICK m \in T : \A y \in T : m <= y
    <2> HIDE DEF T
    <2> QED BY <1>1, LeastElement
<1>3. PICK x \in S : m = L - x
    OBVIOUS
<1>4. ASSUME NEW y \in S PROVE y <= x
    <2>1. L - y \in T /\ x \in Int /\ y \in Int
        OBVIOUS
    <2>2. m <= L - y
        BY <1>2, <2>1
    <2> QED BY <1>3, <2>1, <2>2
<1>5. \A y \in S : x >= y
    BY <1>4
<1> QED
    BY <1>5 DEF Max

\* A function on 1..n into S is a sequence over S.
LEMMA FunctionIsSequence ==
    ASSUME NEW S, NEW m \in Nat, NEW f \in [1 .. m -> S]
    PROVE  f \in Seq(S) /\ Len(f) = m
OBVIOUS

-----------------------------------------------------------------------------
(* One range.                                                              *)

\* Range::new gives a well-formed range.
LEMMA NewRangeWellFormed ==
    ASSUME NEW min \in Nat, min >= 1
    PROVE  /\ NewRange(min) \in RangeType
           /\ WellFormed(NewRange(min))
<1>1. N \in Nat /\ N >= 2
    BY WidthAssumption
<1>2. Cardinality({}) = 0
    BY FS_EmptySet
<1> QED
    BY <1>1, <1>2 DEF NewRange, RangeType, WellFormed, Unknown

\* Range::full gives a well-formed range if its assertion holds.
LEMMA FullRangeWellFormed ==
    ASSUME NEW min \in Nat, NEW max \in Nat, NEW expires \in SUBSET Nat,
           min >= 1, max >= min + N - 1
    PROVE  /\ FullRange(min, max, expires) \in RangeType
           /\ WellFormed(FullRange(min, max, expires))
BY WidthAssumption DEF FullRange, RangeType, WellFormed

\* A number that is new to a range is stored, or makes it full; the range
\* stays well formed and covers what it covered.
LEMMA InsertWellFormed ==
    ASSUME NEW r \in RangeType, WellFormed(r), ~r.full,
           NEW n \in r.min .. r.max, n \notin r.members
    PROVE  /\ Insert(r, n) \in RangeType
           /\ WellFormed(Insert(r, n))
           /\ Insert(r, n).min = r.min
           /\ Insert(r, n).max = r.max
           /\ Insert(r, n).expires = r.expires
<1>1. N \in Nat /\ N >= 2 /\ r.min \in Nat /\ r.max \in Nat /\ n \in Nat
    BY WidthAssumption DEF RangeType
<1>2. IsFiniteSet(r.members)
    <2>1. r.min \in Int /\ r.max \in Int
        BY <1>1
    <2>2. IsFiniteSet(r.min .. r.max)
        BY ONLY <2>1, FS_Interval
    <2> QED BY <2>2, FS_Subset DEF WellFormed
<1>3. /\ Cardinality(r.members) \in Nat
      /\ Cardinality(r.members \cup {n}) = Cardinality(r.members) + 1
    BY <1>2, FS_CardinalityType, FS_AddElement
<1>4. CASE Cardinality(r.members) = N - 1
    BY <1>1, <1>4 DEF Insert, WellFormed, RangeType
<1>5. CASE Cardinality(r.members) # N - 1
    <2>1. Cardinality(r.members \cup {n}) < N
        BY <1>1, <1>3, <1>5 DEF WellFormed
    <2>2. r.members \cup {n} \subseteq r.min .. r.max
        BY DEF WellFormed
    <2>3. Insert(r, n) = [r EXCEPT !.members = @ \cup {n}]
        BY <1>5 DEF Insert
    <2> QED
        BY <1>1, <2>1, <2>2, <2>3 DEF WellFormed, RangeType
<1> QED
    BY <1>4, <1>5

-----------------------------------------------------------------------------
(* The list.                                                               *)

\* What the functions keep of a list.
ListOK(rs) == rs \in Seq(RangeType) /\ Chained(rs)

\* What is known of each range of a well-shaped list.
LEMMA ListElements ==
    ASSUME NEW rs, ListOK(rs)
    PROVE  /\ Len(rs) \in Nat /\ Len(rs) >= 1
           /\ DOMAIN rs = 1 .. Len(rs)
           /\ \A i \in DOMAIN rs : /\ rs[i] \in RangeType
                                   /\ rs[i].min \in Nat
                                   /\ rs[i].max \in Nat
                                   /\ rs[i].expires \in SUBSET Nat
<1>1. /\ Len(rs) \in Nat /\ Len(rs) >= 1
      /\ DOMAIN rs = 1 .. Len(rs)
    BY DEF ListOK, Chained
<1>2. \A i \in DOMAIN rs : rs[i] \in RangeType
    BY <1>1 DEF ListOK
<1> QED
    BY <1>1, <1>2 DEF RangeType

\* The target is the last range that starts at or before the number.
LEMMA TargetIsLast ==
    ASSUME NEW rs, ListOK(rs), NEW n \in Nat, n >= 1
    PROVE  /\ Target(rs, n) \in DOMAIN rs
           /\ rs[Target(rs, n)].min <= n
           /\ \A i \in DOMAIN rs : rs[i].min <= n => i <= Target(rs, n)
<1> DEFINE S == {i \in DOMAIN rs : rs[i].min <= n}
<1>1. Len(rs) \in Nat /\ DOMAIN rs = 1 .. Len(rs) /\ 1 \in DOMAIN rs
    BY DEF ListOK, Chained
<1>2. S # {} /\ S \subseteq 0 .. Len(rs)
    BY <1>1 DEF ListOK, Chained
<1>3. Max(S) \in S /\ \A x \in S : x <= Max(S)
    <2> HIDE DEF S
    <2> QED BY <1>1, <1>2, MaxOfBounded
<1> QED
    BY <1>3 DEF Target

\* A number the list reaches lies inside its target.
LEMMA TargetCovers ==
    ASSUME NEW rs, ListOK(rs), NEW n \in Nat, n >= 1, ~Beyond(rs, n)
    PROVE  n \in rs[Target(rs, n)].min .. rs[Target(rs, n)].max
<1> DEFINE i == Target(rs, n)
<1>1. /\ i \in DOMAIN rs
      /\ rs[i].min <= n
      /\ \A j \in DOMAIN rs : rs[j].min <= n => j <= i
    BY TargetIsLast
<1>2. /\ Len(rs) \in Nat /\ DOMAIN rs = 1 .. Len(rs)
      /\ \A j \in DOMAIN rs : rs[j].min \in Nat /\ rs[j].max \in Nat
    BY ListElements
<1> HIDE DEF i
<1>3. CASE i = Len(rs)
    BY <1>1, <1>2, <1>3 DEF Beyond, i
<1>4. CASE i # Len(rs)
    <2>1. i + 1 \in DOMAIN rs /\ i + 1 > 1 /\ (i + 1) - 1 = i
        BY <1>1, <1>2, <1>4
    <2>2. rs[i + 1].min = rs[i].max
        BY <2>1 DEF ListOK, Chained
    <2>3. ~ (rs[i + 1].min <= n)
        BY <1>1, <1>2, <2>1
    <2>4. n <= rs[i].max
        BY <1>1, <1>2, <2>1, <2>2, <2>3
    <2> QED
        BY <1>1, <1>2, <2>4 DEF i
<1> QED
    BY <1>3, <1>4

\* Storing a range with the bounds of the one it replaces.
LEMMA ReplaceChained ==
    ASSUME NEW rs, ListOK(rs), NEW i \in DOMAIN rs,
           NEW r \in RangeType, WellFormed(r),
           r.min = rs[i].min, r.max = rs[i].max
    PROVE  ListOK([rs EXCEPT ![i] = r])
<1> DEFINE new == [rs EXCEPT ![i] = r]
<1>1. /\ Len(rs) \in Nat /\ Len(rs) >= 1
      /\ DOMAIN rs = 1 .. Len(rs)
      /\ rs \in Seq(RangeType)
    BY ListElements DEF ListOK
<1>2. /\ new \in Seq(RangeType)
      /\ Len(new) = Len(rs)
      /\ DOMAIN new = DOMAIN rs
    BY <1>1
<1>3. \A k \in DOMAIN rs : new[k] = IF k = i THEN r ELSE rs[k]
    BY <1>1
<1>4. \A k \in DOMAIN new : new[k].min = rs[k].min /\ new[k].max = rs[k].max
    BY <1>2, <1>3
<1>5. \A k \in DOMAIN new : WellFormed(new[k])
    BY <1>2, <1>3 DEF ListOK, Chained
<1> HIDE DEF new
<1>6. ASSUME NEW k \in DOMAIN new, k > 1
      PROVE  new[k].min = new[k - 1].max
    BY <1>1, <1>2, <1>4, <1>6 DEF ListOK, Chained
<1>7. new # <<>> /\ new[1].min = 1
    BY <1>1, <1>2, <1>4 DEF ListOK, Chained
<1> QED
    BY <1>2, <1>5, <1>6, <1>7 DEF ListOK, Chained, new

\* Replacing elements i..j by one well-formed range with their bounds.
LEMMA SpliceChained ==
    ASSUME NEW rs, ListOK(rs), NEW i \in DOMAIN rs, NEW j \in DOMAIN rs,
           i <= j, NEW r \in RangeType, WellFormed(r),
           r.min = rs[i].min, r.max = rs[j].max
    PROVE  ListOK(Splice(rs, i, j, r))
<1> DEFINE new == Splice(rs, i, j, r)
           d == j - i
<1>1. /\ Len(rs) \in Nat /\ Len(rs) >= 1
      /\ DOMAIN rs = 1 .. Len(rs)
      /\ rs \in Seq(RangeType)
      /\ \A k \in DOMAIN rs : rs[k] \in RangeType
    BY ListElements DEF ListOK
<1>2. d \in Nat /\ Len(rs) - d \in Nat /\ Len(rs) - d >= i
    BY <1>1
<1>3. /\ new = [k \in 1 .. Len(rs) - d |->
                   IF k < i THEN rs[k] ELSE IF k = i THEN r ELSE rs[k + d]]
      /\ \A k \in 1 .. Len(rs) - d : k > i => k + d \in DOMAIN rs
      /\ \A k \in 1 .. Len(rs) - d : k \in DOMAIN rs
    BY <1>1, <1>2 DEF Splice
<1> HIDE DEF new
<1>4. new \in Seq(RangeType) /\ Len(new) = Len(rs) - d
      /\ DOMAIN new = 1 .. Len(rs) - d
    <2>1. \A k \in 1 .. Len(rs) - d :
             (IF k < i THEN rs[k] ELSE IF k = i THEN r ELSE rs[k + d])
                \in RangeType
        BY <1>1, <1>3
    <2>2. new \in [1 .. Len(rs) - d -> RangeType]
        BY <1>3, <2>1
    <2> QED BY <1>2, <2>2, FunctionIsSequence
<1>5. \A k \in DOMAIN new :
         new[k] = IF k < i THEN rs[k] ELSE IF k = i THEN r ELSE rs[k + d]
    BY <1>3, <1>4
<1>6. new # <<>> /\ new[1].min = 1
    BY <1>1, <1>2, <1>4, <1>5 DEF ListOK, Chained
<1>7. \A k \in DOMAIN new : WellFormed(new[k])
    BY <1>3, <1>4, <1>5 DEF ListOK, Chained
<1>8. ASSUME NEW k \in DOMAIN new, k > 1
      PROVE  new[k].min = new[k - 1].max
    <2>1. /\ k \in Nat /\ k - 1 \in DOMAIN new
          /\ k \in DOMAIN rs /\ (k > i => k + d \in DOMAIN rs)
        BY <1>2, <1>3, <1>4, <1>8
    <2>2. \A m \in DOMAIN rs : m > 1 => rs[m].min = rs[m - 1].max
        BY DEF ListOK, Chained
    <2>3. CASE k < i
        BY <1>1, <1>5, <1>8, <2>1, <2>2, <2>3
    <2>4. CASE k = i
        BY <1>1, <1>5, <1>8, <2>1, <2>2, <2>4
    <2>5. CASE k = i + 1
        <3>1. new[k] = rs[j + 1] /\ new[k - 1] = r /\ j + 1 \in DOMAIN rs
            BY <1>1, <1>5, <2>1, <2>5
        <3>2. rs[j + 1].min = rs[j].max
            BY <1>1, <2>2, <3>1
        <3> QED BY <3>1, <3>2
    <2>6. CASE k > i + 1
        <3>1. /\ new[k] = rs[k + d] /\ new[k - 1] = rs[(k + d) - 1]
              /\ k + d \in DOMAIN rs /\ k + d > 1
            <4>1. d \in Nat /\ i \in Nat /\ k \in Nat
                BY <1>1, <1>2, <2>1
            <4>2. (k - 1) + d = (k + d) - 1 /\ k - 1 > i /\ k > i /\ k + d > 1
                BY <4>1, <2>6
            <4>3. new[k] = rs[k + d] /\ new[k - 1] = rs[(k - 1) + d]
                BY <1>5, <2>1, <4>1, <4>2
            <4> QED BY <2>1, <4>2, <4>3
        <3> QED BY <2>2, <3>1
    <2> QED
        BY <1>1, <2>1, <2>3, <2>4, <2>5, <2>6
<1> QED
    BY <1>4, <1>6, <1>7, <1>8 DEF ListOK, Chained, new

\* How many ranges Grow pushes, for a number beyond the top.
LEMMA GrowthCount ==
    ASSUME NEW n \in Nat, NEW top \in Nat, n > top
    PROVE  (n - top + N - 2) \div (N - 1) \in Nat
<1>1. n - top + N - 2 \in Nat /\ N - 1 \in Nat \ {0}
    BY WidthAssumption
<1>2. \A a \in Nat, b \in Nat \ {0} : a \div b \in Nat
    OBVIOUS
<1> QED
    BY <1>1, <1>2

\* Growth keeps the list and appends empty ranges that chain on to it.
LEMMA GrowChained ==
    ASSUME NEW rs, ListOK(rs), NEW n \in Nat, Beyond(rs, n)
    PROVE  ListOK(Grow(rs, n))
<1> DEFINE top == rs[Len(rs)].max
           count == (n - top + N - 2) \div (N - 1)
           start(k) == top + (k - 1) * (N - 1)
           added == [k \in 1 .. count |-> NewRange(start(k))]
           new == rs \o added
<1>1. /\ Len(rs) \in Nat /\ Len(rs) >= 1
      /\ DOMAIN rs = 1 .. Len(rs)
      /\ rs \in Seq(RangeType)
    BY ListElements DEF ListOK
<1>2. top \in Nat /\ top >= 1 /\ N \in Nat /\ N >= 2
    <2>1. Len(rs) \in DOMAIN rs
        BY <1>1
    <2>2. rs[Len(rs)].max \in Nat /\ rs[Len(rs)].min \in Nat
        BY <2>1, ListElements
    <2>3. WellFormed(rs[Len(rs)])
        BY <2>1 DEF ListOK, Chained
    <2> QED BY <2>2, <2>3, WidthAssumption DEF WellFormed
<1>3. count \in Nat
    BY <1>2, GrowthCount DEF Beyond
<1> HIDE DEF top, count
<1>4. \A k \in Nat \ {0} : start(k) \in Nat /\ start(k) >= 1
    <2>1. \A a, b \in Nat : a * b \in Nat
        OBVIOUS
    <2>2. \A k \in Nat \ {0} : k - 1 \in Nat /\ N - 1 \in Nat
        BY <1>2
    <2>3. \A k \in Nat \ {0} : (k - 1) * (N - 1) \in Nat
        BY <2>1, <2>2
    <2> QED BY <1>2, <2>3
<1>5. \A k \in Nat \ {0} : k > 1 => start(k) = start(k - 1) + (N - 1)
    BY <1>2
<1> HIDE DEF start
<1>6. \A k \in 1 .. count : /\ NewRange(start(k)) \in RangeType
                            /\ WellFormed(NewRange(start(k)))
    BY <1>3, <1>4, NewRangeWellFormed
<1>7. added \in Seq(RangeType) /\ Len(added) = count
    <2>1. added \in [1 .. count -> RangeType]
        BY <1>6
    <2> QED BY <1>3, <2>1, FunctionIsSequence
<1>8. /\ new \in Seq(RangeType) /\ Len(new) = Len(rs) + count
      /\ DOMAIN new = 1 .. Len(rs) + count
    BY <1>1, <1>3, <1>7
<1>9. /\ \A k \in 1 .. Len(rs) : new[k] = rs[k]
      /\ \A k \in DOMAIN new : k > Len(rs) =>
            /\ k - Len(rs) \in 1 .. count
            /\ new[k] = NewRange(start(k - Len(rs)))
    BY <1>1, <1>3, <1>7, <1>8
<1> HIDE DEF new, added
<1>10. new # <<>> /\ new[1].min = 1
    BY <1>1, <1>3, <1>8, <1>9 DEF ListOK, Chained
<1>11. \A k \in DOMAIN new : WellFormed(new[k])
    BY <1>1, <1>3, <1>6, <1>8, <1>9 DEF ListOK, Chained
<1>12. ASSUME NEW k \in DOMAIN new, k > 1
       PROVE  new[k].min = new[k - 1].max
    <2>1. /\ k \in Nat /\ k - 1 \in DOMAIN new /\ k - 1 \in Nat
        BY <1>1, <1>3, <1>8, <1>12
    <2>2. CASE k <= Len(rs)
        BY <1>1, <1>9, <1>12, <2>1, <2>2 DEF ListOK, Chained
    <2>3. CASE k = Len(rs) + 1
        <3>1. new[k - 1].max = top
            BY <1>1, <1>9, <2>3 DEF top
        <3>2. new[k].min = start(1)
            <4>1. k - Len(rs) = 1 /\ k > Len(rs)
                BY <1>1, <2>3
            <4> QED BY <1>9, <4>1 DEF NewRange
        <3>3. start(1) = top
            BY <1>2 DEF start
        <3> QED BY <3>1, <3>2, <3>3
    <2>4. CASE k > Len(rs) + 1
        <3> DEFINE m == k - Len(rs)
        <3>1. /\ k > Len(rs) /\ k - 1 > Len(rs)
              /\ m \in Nat \ {0} /\ m - 1 \in Nat \ {0}
              /\ (k - 1) - Len(rs) = m - 1 /\ m > 1
            BY <1>1, <2>1, <2>4
        <3>2. new[k] = NewRange(start(m)) /\ new[k - 1] = NewRange(start(m - 1))
            BY <1>9, <2>1, <3>1
        <3> HIDE DEF m
        <3>3. /\ NewRange(start(m)).min = start(m)
              /\ NewRange(start(m - 1)).max = start(m - 1) + N - 1
            BY DEF NewRange
        <3>4. start(m) = start(m - 1) + N - 1
            BY <1>2, <1>4, <1>5, <3>1
        <3> QED BY <3>2, <3>3, <3>4
    <2> QED
        BY <1>1, <2>1, <2>2, <2>3, <2>4
<1>13. Grow(rs, n) = new
    BY DEF Grow, new, added, start, count, top
<1> QED
    BY <1>8, <1>10, <1>11, <1>12, <1>13 DEF ListOK, Chained

\* Joining a range that became full with its full neighbours.
LEMMA JoinChained ==
    ASSUME NEW rs, ListOK(rs), NEW i \in DOMAIN rs
    PROVE  ListOK(Join(rs, i))
<1> DEFINE lo == Lo(rs, i)
           hi == Hi(rs, i)
           r  == FullRange(rs[lo].min, rs[hi].max, rs[lo].expires)
<1>1. /\ Len(rs) \in Nat /\ Len(rs) >= 1
      /\ DOMAIN rs = 1 .. Len(rs)
      /\ \A k \in DOMAIN rs : /\ rs[k].min \in Nat
                              /\ rs[k].max \in Nat
                              /\ rs[k].expires \in SUBSET Nat
    BY ListElements
<1>2. /\ lo \in DOMAIN rs /\ hi \in DOMAIN rs
      /\ lo \in {i - 1, i} /\ hi \in {i, i + 1}
    BY <1>1 DEF Lo, Hi
<1> HIDE DEF lo, hi
<1>3. \A k \in DOMAIN rs : /\ rs[k].min >= 1
                           /\ rs[k].max >= rs[k].min + N - 1
                           /\ k > 1 => rs[k].min = rs[k - 1].max
    BY DEF ListOK, Chained, WellFormed
<1>4. rs[i].min >= rs[lo].min /\ rs[hi].max >= rs[i].max
    <2>1. rs[i].min >= rs[lo].min
        <3>1. CASE lo = i - 1
            <4>1. i > 1 /\ i - 1 \in DOMAIN rs
                BY <1>1, <1>2, <3>1
            <4>2. /\ rs[i].min = rs[i - 1].max
                  /\ rs[i - 1].max >= rs[i - 1].min + N - 1
                BY <1>3, <4>1
            <4> QED BY <1>1, <3>1, <4>1, <4>2, WidthAssumption
        <3> QED BY <1>1, <1>2, <3>1
    <2>2. rs[hi].max >= rs[i].max
        <3>1. CASE hi = i + 1
            <4>1. hi > 1 /\ hi - 1 = i
                BY <1>1, <1>2, <3>1
            <4>2. rs[hi].min = rs[i].max /\ rs[hi].max >= rs[hi].min + N - 1
                BY <1>2, <1>3, <4>1
            <4> QED BY <1>1, <1>2, <4>2, WidthAssumption
        <3> QED BY <1>1, <1>2, <3>1
    <2> QED BY <2>1, <2>2
<1>5. rs[hi].max >= rs[lo].min + N - 1 /\ rs[lo].min >= 1
    BY <1>1, <1>2, <1>3, <1>4, WidthAssumption
<1>6. /\ r \in RangeType /\ WellFormed(r)
      /\ r.min = rs[lo].min /\ r.max = rs[hi].max
    BY <1>1, <1>2, <1>5, FullRangeWellFormed DEF FullRange
<1>7. lo <= hi
    BY <1>1, <1>2
<1> HIDE DEF r
<1>8. ListOK(Splice(rs, lo, hi, r))
    BY <1>2, <1>6, <1>7, SpliceChained
<1> QED
    BY <1>8 DEF Join, lo, hi, r

\* add_num_ranges keeps the list well formed and never runs out of room in a
\* range: the panic "Should be space for number!" cannot happen.
LEMMA AddNumRangesChained ==
    ASSUME NEW rs, ListOK(rs), NEW n \in Nat, n >= 1
    PROVE  ListOK(AddNumRanges(rs, n).ranges)
<1> DEFINE i == Target(rs, n)
           placed == Insert(rs[i], n)
           new == [rs EXCEPT ![i] = placed]
<1>1. i \in DOMAIN rs
    BY TargetIsLast
<1>2. CASE Beyond(rs, n)
    BY <1>2, GrowChained DEF AddNumRanges
<1>3. CASE ~Beyond(rs, n) /\ Holds(rs[i], n)
    BY <1>3 DEF AddNumRanges
<1>4. CASE ~Beyond(rs, n) /\ ~Holds(rs[i], n)
    <2>1. n \in rs[i].min .. rs[i].max
        BY <1>4, TargetCovers
    <2>2. rs[i] \in RangeType /\ WellFormed(rs[i])
        BY <1>1, ListElements DEF ListOK, Chained
    <2>3. /\ placed \in RangeType /\ WellFormed(placed)
          /\ placed.min = rs[i].min /\ placed.max = rs[i].max
        BY <1>4, <2>1, <2>2, InsertWellFormed DEF Holds
    <2> HIDE DEF placed, i
    <2>4. ListOK(new)
        BY <1>1, <2>3, ReplaceChained
    <2>5. i \in DOMAIN new
        BY <1>1
    <2>6. ListOK(Join(new, i))
        <3> HIDE DEF new
        <3> QED BY <2>4, <2>5, JoinChained
    <2> QED
        BY <1>4, <2>4, <2>6 DEF AddNumRanges, placed, i
<1> QED
    BY <1>2, <1>3, <1>4

\* Marking touches expiries only.
LEMMA MarkExpiryChained ==
    ASSUME NEW rs, ListOK(rs), NEW target, NEW expires \in Nat
    PROVE  ListOK(MarkExpiry(rs, target, expires))
<1> DEFINE new == MarkExpiry(rs, target, expires)
<1>1. /\ Len(rs) \in Nat /\ Len(rs) >= 1
      /\ DOMAIN rs = 1 .. Len(rs)
      /\ \A k \in DOMAIN rs : rs[k] \in RangeType
    BY ListElements
<1>2. /\ DOMAIN new = DOMAIN rs
      /\ \A k \in DOMAIN rs :
            \/ new[k] = rs[k]
            \/ new[k] = [rs[k] EXCEPT !.expires = At(expires)]
    BY DEF MarkExpiry
<1>3. \A k \in DOMAIN rs : /\ new[k] \in RangeType
                           /\ new[k].min = rs[k].min
                           /\ new[k].max = rs[k].max
                           /\ new[k].full = rs[k].full
                           /\ new[k].members = rs[k].members
    BY <1>1, <1>2 DEF RangeType, At
<1>4. new \in Seq(RangeType) /\ Len(new) = Len(rs)
    <2>1. new \in [1 .. Len(rs) -> RangeType]
        BY <1>1, <1>3 DEF MarkExpiry
    <2> QED BY <1>1, <2>1, FunctionIsSequence
<1> HIDE DEF new
<1>5. \A k \in DOMAIN new : WellFormed(new[k])
    BY <1>2, <1>3 DEF ListOK, Chained, WellFormed
<1>6. \A k \in DOMAIN new : k > 1 => new[k].min = new[k - 1].max
    <2>1. \A k \in DOMAIN rs : k > 1 => k - 1 \in DOMAIN rs
        BY <1>1
    <2> QED BY <1>2, <1>3, <2>1 DEF ListOK, Chained
<1>7. new # <<>> /\ new[1].min = 1
    BY <1>1, <1>3, <1>4 DEF ListOK, Chained
<1> QED
    BY <1>4, <1>5, <1>6, <1>7 DEF ListOK, Chained, new

\* The last expired range, if there is one.
LEMMA LastExpiredIsLast ==
    ASSUME NEW rs, ListOK(rs), NEW time \in Nat
    PROVE  /\ LastExpired(rs, time) \in {0} \cup DOMAIN rs
           /\ LastExpired(rs, time) # 0 =>
                 Expired(rs[LastExpired(rs, time)], time)
           /\ \A i \in DOMAIN rs :
                 Expired(rs[i], time) => i <= LastExpired(rs, time)
<1> DEFINE S == {0} \cup {i \in DOMAIN rs : Expired(rs[i], time)}
<1>1. Len(rs) \in Nat /\ DOMAIN rs = 1 .. Len(rs)
    BY ListElements
<1>2. S # {} /\ S \subseteq 0 .. Len(rs)
    BY <1>1
<1>3. Max(S) \in S /\ \A x \in S : x <= Max(S)
    <2> HIDE DEF S
    <2> QED BY <1>1, <1>2, MaxOfBounded
<1> QED
    BY <1>3 DEF LastExpired

\* Every range of a list reaches at least as far as the first.
LEMMA ReachesPastFirst ==
    ASSUME NEW rs, ListOK(rs), NEW k \in DOMAIN rs
    PROVE  /\ rs[1].min = 1
           /\ rs[k].max >= rs[1].min + N - 1
<1>1. rs[1].min = 1 /\ WellFormed(rs[k])
    BY DEF ListOK, Chained
<1>2. rs[k].min \in Nat /\ rs[k].max \in Nat
    BY ListElements
<1> QED
    BY <1>1, <1>2, WidthAssumption DEF WellFormed

\* Collapsing the expired front keeps the list well formed; the assertion in
\* Range::full cannot fail.
LEMMA CheckExpiredChained ==
    ASSUME NEW rs, ListOK(rs), NEW time \in Nat
    PROVE  ListOK(CheckExpired(rs, time))
<1> DEFINE k == LastExpired(rs, time)
           r == FullRange(rs[1].min, rs[k].max, At(0))
<1>1. k \in {0} \cup DOMAIN rs
    BY LastExpiredIsLast
<1>2. CASE k = 0
    BY <1>2 DEF CheckExpired
<1>3. CASE k # 0
    <2>1. k \in DOMAIN rs /\ 1 \in DOMAIN rs /\ 1 <= k
        BY <1>1, <1>3, ListElements
    <2> HIDE DEF k
    <2>2. /\ rs[1].min = 1 /\ rs[k].max >= rs[1].min + N - 1
          /\ rs[1].min \in Nat /\ rs[k].max \in Nat
        BY <2>1, ReachesPastFirst, ListElements
    <2>3. /\ r \in RangeType /\ WellFormed(r)
          /\ r.min = rs[1].min /\ r.max = rs[k].max
        <3>1. At(0) \in SUBSET Nat
            BY DEF At
        <3> QED BY <2>2, <3>1, FullRangeWellFormed DEF FullRange
    <2> HIDE DEF r
    <2>4. ListOK(Splice(rs, 1, k, r))
        BY <2>1, <2>3, SpliceChained
    <2> QED
        BY <1>3, <2>4 DEF CheckExpired, k, r
<1> QED
    BY <1>2, <1>3

\* The whole call keeps the list well formed.
THEOREM NumExistsChained ==
    ASSUME NEW rs, ListOK(rs), NEW n \in Nat, n >= 1,
           NEW expires \in Nat, NEW time \in Nat
    PROVE  ListOK(NumExists(rs, n, expires, time).ranges)
<1>1. ListOK(AddNumRanges(rs, n).ranges)
    BY AddNumRangesChained
<1>2. ListOK(AddNum(rs, n, expires).ranges)
    BY <1>1, MarkExpiryChained DEF AddNum
<1>3. ListOK(CheckExpired(AddNum(rs, n, expires).ranges, time))
    BY <1>2, CheckExpiredChained
<1> QED
    BY <1>2, <1>3 DEF NumExists

\* The list of a new CompactSetRange is well-shaped.
THEOREM EmptyRangesChained == ListOK(EmptyRanges)
<1> DEFINE r == NewRange(1)
<1>1. r \in RangeType /\ WellFormed(r) /\ r.min = 1
    BY NewRangeWellFormed DEF NewRange
<1> HIDE DEF r
<1>2. /\ <<r>> \in Seq(RangeType) /\ <<r>> # <<>>
      /\ DOMAIN <<r>> = {1} /\ <<r>>[1] = r
    BY <1>1
<1>3. EmptyRanges = <<r>>
    BY DEF EmptyRanges, r
<1> HIDE DEF r
<1>4. Chained(<<r>>)
    BY <1>1, <1>2 DEF Chained
<1> QED
    BY <1>2, <1>3, <1>4 DEF ListOK

-----------------------------------------------------------------------------
(* The expiries stay sorted.                                               *)

\* Growth keeps the expiries sorted: new ranges have none.
LEMMA GrowSorted ==
    ASSUME NEW rs, ListOK(rs), SortedByExpiry(rs),
           NEW n \in Nat, Beyond(rs, n)
    PROVE  SortedByExpiry(Grow(rs, n))
<1> DEFINE top == rs[Len(rs)].max
           count == (n - top + N - 2) \div (N - 1)
           added == [k \in 1 .. count |-> NewRange(top + (k - 1) * (N - 1))]
           new == rs \o added
<1>1. Len(rs) \in Nat /\ Len(rs) >= 1 /\ DOMAIN rs = 1 .. Len(rs)
    BY ListElements
<1>2. new \in Seq(RangeType)
    BY GrowChained DEF Grow, ListOK
<1>3. \A k \in DOMAIN added : added[k].expires = {}
    BY DEF NewRange, Unknown
<1>4. /\ DOMAIN new \subseteq Nat
      /\ \A k \in DOMAIN new : k <= Len(rs) => new[k] = rs[k]
      /\ \A k \in DOMAIN new : k > Len(rs) => new[k].expires = {}
    <2>1. count \in Nat
        <3>1. top \in Nat
            BY <1>1, ListElements
        <3> QED BY <3>1, GrowthCount DEF Beyond
    <2> HIDE DEF count
    <2>2. Len(added) = count /\ DOMAIN added = 1 .. count
        BY <2>1
    <2>3. \A k \in DOMAIN new : k > Len(rs) =>
             new[k] = added[k - Len(rs)] /\ k - Len(rs) \in DOMAIN added
        <3> HIDE DEF added
        <3>1. rs \in Seq(RangeType) /\ added = [k \in 1 .. count |-> added[k]]
            BY <2>2 DEF ListOK, added
        <3> QED BY <1>1, <2>1, <2>2, <3>1
    <2> QED
        BY <1>1, <1>2, <1>3, <2>1, <2>2, <2>3
<1> HIDE DEF new
<1>5. \A k \in DOMAIN new : k > 1 =>
         \A e \in new[k].expires : \E d \in new[k - 1].expires : d <= e
    <2> TAKE k \in DOMAIN new
    <2> HAVE k > 1
    <2>1. CASE k > Len(rs)
        BY <1>4, <2>1
    <2>2. CASE k <= Len(rs)
        <3>1. k \in DOMAIN rs /\ k - 1 \in DOMAIN new /\ k - 1 <= Len(rs)
            BY <1>1, <1>2, <1>4, <2>2
        <3> QED BY <1>4, <2>2, <3>1 DEF SortedByExpiry
    <2> QED BY <1>1, <1>4, <2>1, <2>2
<1> QED
    BY <1>5 DEF SortedByExpiry, Grow, new, added, count, top

\* Storing a range with the expiry of the one it replaces.
LEMMA ReplaceSorted ==
    ASSUME NEW rs, ListOK(rs), SortedByExpiry(rs), NEW i \in DOMAIN rs,
           NEW r, r.expires = rs[i].expires
    PROVE  SortedByExpiry([rs EXCEPT ![i] = r])
<1>1. Len(rs) \in Nat /\ DOMAIN rs = 1 .. Len(rs)
    BY ListElements
<1>2. \A k \in DOMAIN rs : [rs EXCEPT ![i] = r][k].expires = rs[k].expires
    OBVIOUS
<1>3. \A k \in DOMAIN rs : k > 1 => k - 1 \in DOMAIN rs
    BY <1>1
<1> QED
    BY <1>2, <1>3 DEF SortedByExpiry

\* Replacing elements i..j by one whose expiry fits between its neighbours'.
LEMMA SpliceSorted ==
    ASSUME NEW rs, ListOK(rs), SortedByExpiry(rs),
           NEW i \in DOMAIN rs, NEW j \in DOMAIN rs, i <= j, NEW r,
           i > 1 => \A e \in r.expires :
                       \E d \in rs[i - 1].expires : d <= e,
           j < Len(rs) => \A e \in rs[j + 1].expires :
                             \E d \in r.expires : d <= e
    PROVE  SortedByExpiry(Splice(rs, i, j, r))
<1> DEFINE new == Splice(rs, i, j, r)
           d == j - i
<1>1. Len(rs) \in Nat /\ DOMAIN rs = 1 .. Len(rs)
    BY ListElements
<1>2. d \in Nat /\ Len(rs) - d \in Nat /\ i \in Nat /\ j \in Nat /\ j = i + d
    BY <1>1
<1>3. /\ DOMAIN new = 1 .. Len(rs) - d
      /\ \A k \in DOMAIN new :
            new[k] = IF k < i THEN rs[k] ELSE IF k = i THEN r ELSE rs[k + d]
    BY DEF Splice
<1> HIDE DEF new, d
<1>4. ASSUME NEW k \in DOMAIN new, k > 1
      PROVE  \A e \in new[k].expires : \E b \in new[k - 1].expires : b <= e
    <2>1. k \in Nat /\ k - 1 \in DOMAIN new /\ k <= Len(rs) - d
        BY <1>1, <1>2, <1>3, <1>4
    <2>2. \A m \in DOMAIN rs : m > 1 =>
             \A e \in rs[m].expires : \E b \in rs[m - 1].expires : b <= e
        BY DEF SortedByExpiry
    <2>3. CASE k < i
        <3>1. k \in DOMAIN rs /\ new[k] = rs[k] /\ new[k - 1] = rs[k - 1]
            BY <1>1, <1>2, <1>3, <2>1, <2>3
        <3> QED BY <1>4, <2>2, <3>1
    <2>4. CASE k = i
        <3>1. ~(k < i) /\ k - 1 < i
            <4>1. k \in Nat /\ i \in Nat
                BY <1>2, <2>1
            <4> QED BY ONLY <2>4, <4>1
        <3>2. new[k] = r /\ new[k - 1] = rs[i - 1] /\ i > 1
            BY <1>3, <1>4, <2>1, <2>4, <3>1
        <3> QED BY <3>2
    <2>5. CASE k = i + 1
        <3>1. k > i /\ ~(k < i) /\ k # i /\ ~(k - 1 < i) /\ k - 1 = i
              /\ k + d = j + 1 /\ j < Len(rs)
            BY <1>1, <1>2, <2>1, <2>5
        <3>2. new[k] = rs[j + 1] /\ new[k - 1] = r
            BY <1>3, <2>1, <3>1
        <3> QED BY <3>1, <3>2
    <2>6. CASE k > i + 1
        <3>1. /\ k > i /\ k - 1 > i /\ (k - 1) + d = (k + d) - 1
              /\ k + d > 1 /\ k + d \in DOMAIN rs
            <4>1. k \in Nat /\ i \in Nat /\ d \in Nat /\ Len(rs) \in Nat
                BY <1>1, <1>2, <2>1
            <4>2. /\ k > i /\ k - 1 > i /\ (k - 1) + d = (k + d) - 1
                  /\ k + d > 1 /\ k + d \in 1..Len(rs)
                BY ONLY <4>1, <2>1, <2>6
            <4> QED
                BY <1>1, <1>2, <4>2
        <3>2. new[k] = rs[k + d] /\ new[k - 1] = rs[(k + d) - 1]
            BY <1>2, <1>3, <2>1, <3>1
        <3> QED BY <2>2, <3>1, <3>2
    <2>7. k < i \/ k = i \/ k = i + 1 \/ k > i + 1
        BY <1>2, <2>1
    <2> QED
        BY <2>3, <2>4, <2>5, <2>6, <2>7
<1> QED
    BY <1>4 DEF SortedByExpiry, new

\* A joined range keeps the expiry of its first part.
LEMMA JoinSorted ==
    ASSUME NEW rs, ListOK(rs), SortedByExpiry(rs), NEW i \in DOMAIN rs
    PROVE  SortedByExpiry(Join(rs, i))
<1> DEFINE lo == Lo(rs, i)
           hi == Hi(rs, i)
           r  == FullRange(rs[lo].min, rs[hi].max, rs[lo].expires)
<1>1. /\ Len(rs) \in Nat /\ DOMAIN rs = 1 .. Len(rs)
      /\ \A k \in DOMAIN rs : rs[k].expires \in SUBSET Nat
    BY ListElements
<1>2. /\ lo \in DOMAIN rs /\ hi \in DOMAIN rs /\ lo <= hi
      /\ lo \in {i - 1, i} /\ hi \in {i, i + 1}
    BY <1>1 DEF Lo, Hi
<1>3. r.expires = rs[lo].expires
    BY DEF FullRange
<1> HIDE DEF lo, hi, r
<1>4. \A k \in DOMAIN rs : k > 1 =>
         \A e \in rs[k].expires : \E d \in rs[k - 1].expires : d <= e
    BY DEF SortedByExpiry
<1>5. lo > 1 => \A e \in r.expires : \E d \in rs[lo - 1].expires : d <= e
    BY <1>2, <1>3, <1>4
<1>6. ASSUME NEW k \in DOMAIN rs, lo <= k, k <= hi, k < Len(rs),
             NEW e \in rs[k + 1].expires
      PROVE  \E d \in rs[k].expires : d <= e
    <2>1. k + 1 \in DOMAIN rs /\ k + 1 > 1 /\ (k + 1) - 1 = k
        BY <1>1, <1>6
    <2> QED BY <1>4, <1>6, <2>1
<1>7. ASSUME hi < Len(rs), NEW e \in rs[hi + 1].expires
      PROVE  \E d \in r.expires : d <= e
    <2>1. hi \in Nat /\ lo \in Nat /\ lo \in {hi, hi - 1, hi - 2} /\ e \in Nat
        <3>1. hi + 1 \in DOMAIN rs
            BY <1>1, <1>2, <1>7
        <3> QED BY <1>1, <1>2, <1>7, <3>1
    <2>2. PICK c \in rs[hi].expires : c <= e
        BY <1>1, <1>2, <1>6, <1>7
    <2>3. c \in Nat
        BY <1>1, <1>2, <2>2
    <2>4. CASE lo = hi
        BY <1>3, <2>2, <2>4
    <2>5. CASE lo = hi - 1
        <3>1. hi > 1 /\ hi - 1 = lo
            BY <1>1, <1>2, <2>1, <2>5
        <3>2. PICK b \in rs[lo].expires : b <= c
            BY <1>2, <1>4, <2>2, <3>1
        <3> QED BY <1>1, <1>2, <1>3, <2>1, <2>2, <2>3, <3>2
    <2>6. CASE lo = hi - 2
        <3>1. /\ hi > 1 /\ hi - 1 \in DOMAIN rs /\ hi - 1 > 1
              /\ (hi - 1) - 1 = lo
            BY <1>1, <1>2, <2>1, <2>6
        <3>2. PICK b \in rs[hi - 1].expires : b <= c
            BY <1>2, <1>4, <2>2, <3>1
        <3>3. PICK a \in rs[lo].expires : a <= b
            BY <1>4, <3>1, <3>2
        <3>4. a \in Nat /\ b \in Nat
            BY <1>1, <1>2, <3>1, <3>2, <3>3
        <3> QED BY <1>3, <2>1, <2>2, <2>3, <3>2, <3>3, <3>4
    <2> QED
        BY <2>1, <2>4, <2>5, <2>6
<1>8. SortedByExpiry(Splice(rs, lo, hi, r))
    BY <1>2, <1>5, <1>7, SpliceSorted
<1> QED
    BY <1>8 DEF Join, lo, hi, r

\* Marking every range before the target not known to expire by then keeps
\* the expiries sorted.
LEMMA MarkExpirySorted ==
    ASSUME NEW rs, ListOK(rs), SortedByExpiry(rs),
           NEW target \in Nat, NEW expires \in Nat
    PROVE  SortedByExpiry(MarkExpiry(rs, target, expires))
<1> DEFINE new == MarkExpiry(rs, target, expires)
<1>1. /\ Len(rs) \in Nat /\ DOMAIN rs = 1 .. Len(rs)
      /\ \A k \in DOMAIN rs : /\ rs[k] \in RangeType
                              /\ rs[k].expires \in SUBSET Nat
    BY ListElements
<1>2. \A k \in DOMAIN rs :
         new[k].expires = IF k < target /\ ~Expired(rs[k], expires)
                          THEN {expires} ELSE rs[k].expires
    BY <1>1 DEF MarkExpiry, At, RangeType
<1>3. DOMAIN new = DOMAIN rs
    BY DEF MarkExpiry
<1> HIDE DEF new
<1>4. ASSUME NEW k \in DOMAIN rs, k > 1, NEW e \in new[k].expires
      PROVE  \E d \in new[k - 1].expires : d <= e
    <2>1. k - 1 \in DOMAIN rs /\ k \in Nat
        BY <1>1, <1>4
    <2>2. \A b \in rs[k].expires : \E d \in rs[k - 1].expires : d <= b
        BY <1>4 DEF SortedByExpiry
    <2>3. CASE Expired(rs[k - 1], expires)
        <3>1. new[k - 1].expires = rs[k - 1].expires
            BY <1>2, <2>1, <2>3
        <3>2. CASE e \in rs[k].expires
            BY <2>2, <3>1, <3>2
        <3>3. CASE e = expires
            BY <2>3, <3>1, <3>3 DEF Expired
        <3> QED BY <1>2, <1>4, <3>2, <3>3
    <2>4. CASE ~Expired(rs[k - 1], expires) /\ k - 1 < target
        <3>1. new[k - 1].expires = {expires}
            BY <1>2, <2>1, <2>4
        <3>2. CASE e \in rs[k].expires
            <4>1. PICK d \in rs[k - 1].expires : d <= e
                BY <2>2, <3>2
            <4>2. ~(d <= expires) /\ d \in Nat /\ e \in Nat
                BY <1>1, <1>4, <2>1, <2>4, <3>2, <4>1 DEF Expired
            <4> QED BY <3>1, <4>1, <4>2
        <3>3. CASE e = expires
            BY <3>1, <3>3
        <3> QED BY <1>2, <1>4, <3>2, <3>3
    <2>5. CASE ~(k - 1 < target)
        <3>1. ~(k < target)
            BY <2>1, <2>5
        <3>2. /\ new[k - 1].expires = rs[k - 1].expires
              /\ new[k].expires = rs[k].expires
            BY <1>2, <1>4, <2>1, <2>5, <3>1
        <3> QED BY <1>4, <2>2, <3>2
    <2> QED
        BY <2>3, <2>4, <2>5
<1> QED
    BY <1>3, <1>4 DEF SortedByExpiry, new

\* The collapsed range has expiry 0, before everything else.
LEMMA CheckExpiredSorted ==
    ASSUME NEW rs, ListOK(rs), SortedByExpiry(rs), NEW time \in Nat
    PROVE  SortedByExpiry(CheckExpired(rs, time))
<1> DEFINE k == LastExpired(rs, time)
           r == FullRange(rs[1].min, rs[k].max, At(0))
<1>1. k \in {0} \cup DOMAIN rs /\ DOMAIN rs = 1 .. Len(rs) /\ Len(rs) \in Nat
    BY LastExpiredIsLast, ListElements
<1>2. CASE k = 0
    BY <1>2 DEF CheckExpired
<1>3. CASE k # 0
    <2>1. k \in DOMAIN rs /\ 1 \in DOMAIN rs /\ 1 <= k /\ ~(1 > 1)
        BY <1>1, <1>3
    <2>2. r.expires = {0}
        BY DEF FullRange, At
    <2> HIDE DEF k, r
    <2>3. ASSUME k < Len(rs), NEW e \in rs[k + 1].expires
          PROVE  \E d \in r.expires : d <= e
        <3>1. k + 1 \in DOMAIN rs
            BY <1>1, <2>1, <2>3
        <3>2. e \in Nat
            BY <2>3, <3>1, ListElements
        <3> QED BY <2>2, <3>2
    <2>4. SortedByExpiry(Splice(rs, 1, k, r))
        BY <2>1, <2>3, SpliceSorted
    <2> QED
        BY <1>3, <2>4 DEF CheckExpired, k, r
<1> QED
    BY <1>2, <1>3

\* add_num_ranges keeps the expiries sorted.
LEMMA AddNumRangesSorted ==
    ASSUME NEW rs, ListOK(rs), SortedByExpiry(rs), NEW n \in Nat, n >= 1
    PROVE  /\ SortedByExpiry(AddNumRanges(rs, n).ranges)
           /\ AddNumRanges(rs, n).target \in Nat
<1> DEFINE i == Target(rs, n)
           placed == Insert(rs[i], n)
           new == [rs EXCEPT ![i] = placed]
<1>1. /\ i \in DOMAIN rs /\ i \in Nat /\ i >= 1
      /\ Len(rs) \in Nat /\ DOMAIN rs = 1 .. Len(rs)
    BY TargetIsLast, ListElements
<1>2. CASE Beyond(rs, n)
    <2>1. ListOK(Grow(rs, n)) /\ SortedByExpiry(Grow(rs, n))
        BY <1>2, GrowChained, GrowSorted
    <2>2. Len(Grow(rs, n)) \in Nat
        BY <2>1, ListElements
    <2> QED BY <1>2, <2>1, <2>2 DEF AddNumRanges
<1>3. CASE ~Beyond(rs, n) /\ Holds(rs[i], n)
    BY <1>1, <1>3 DEF AddNumRanges
<1>4. CASE ~Beyond(rs, n) /\ ~Holds(rs[i], n)
    <2>1. n \in rs[i].min .. rs[i].max
        BY <1>4, TargetCovers
    <2>2. rs[i] \in RangeType /\ WellFormed(rs[i])
        BY <1>1, ListElements DEF ListOK, Chained
    <2>3. /\ placed \in RangeType /\ WellFormed(placed)
          /\ placed.min = rs[i].min /\ placed.max = rs[i].max
          /\ placed.expires = rs[i].expires
        BY <1>4, <2>1, <2>2, InsertWellFormed DEF Holds
    <2>4. Lo(rs, i) \in Nat
        BY <1>1 DEF Lo
    <2> HIDE DEF placed, i
    <2>5. ListOK(new) /\ SortedByExpiry(new) /\ i \in DOMAIN new
        BY <1>1, <2>3, ReplaceChained, ReplaceSorted
    <2>6. SortedByExpiry(Join(new, i))
        <3> HIDE DEF new
        <3> QED BY <2>5, JoinSorted
    <2> QED
        BY <1>1, <1>4, <2>4, <2>5, <2>6 DEF AddNumRanges, placed, i
<1> QED
    BY <1>2, <1>3, <1>4

\* The whole call keeps the expiries sorted, whatever expiries it is given.
THEOREM NumExistsSorted ==
    ASSUME NEW rs, ListOK(rs), SortedByExpiry(rs), NEW n \in Nat, n >= 1,
           NEW expires \in Nat, NEW time \in Nat
    PROVE  SortedByExpiry(NumExists(rs, n, expires, time).ranges)
<1>1. /\ ListOK(AddNumRanges(rs, n).ranges)
      /\ SortedByExpiry(AddNumRanges(rs, n).ranges)
      /\ AddNumRanges(rs, n).target \in Nat
    BY AddNumRangesChained, AddNumRangesSorted
<1>2. /\ ListOK(AddNum(rs, n, expires).ranges)
      /\ SortedByExpiry(AddNum(rs, n, expires).ranges)
    BY <1>1, MarkExpiryChained, MarkExpirySorted DEF AddNum
<1>3. SortedByExpiry(CheckExpired(AddNum(rs, n, expires).ranges, time))
    BY <1>2, CheckExpiredSorted
<1> QED
    BY <1>2, <1>3 DEF NumExists

-----------------------------------------------------------------------------
(* What the list records.                                                  *)

\* A later range starts no earlier than an earlier one ends.
LEMMA ChainedFar ==
    ASSUME NEW rs, ListOK(rs), NEW i \in DOMAIN rs, NEW j \in DOMAIN rs, i < j
    PROVE  rs[i].max <= rs[j].min
<1> DEFINE T == {m \in DOMAIN rs : i < m /\ ~(rs[i].max <= rs[m].min)}
<1>1. /\ Len(rs) \in Nat /\ DOMAIN rs = 1 .. Len(rs)
      /\ \A k \in DOMAIN rs : rs[k].min \in Nat /\ rs[k].max \in Nat
    BY ListElements
<1>2. \A k \in DOMAIN rs : /\ rs[k].max >= rs[k].min + N - 1
                           /\ k > 1 => rs[k].min = rs[k - 1].max
    BY DEF ListOK, Chained, WellFormed
<1>3. SUFFICES ASSUME T # {} PROVE FALSE
    BY <1>3
<1>4. PICK m \in T : \A y \in T : m <= y
    <2>1. T \in SUBSET Nat
        BY <1>1
    <2> HIDE DEF T
    <2> QED BY <1>3, <2>1, LeastElement
<1>5. m \in DOMAIN rs /\ m > 1 /\ m - 1 \in DOMAIN rs /\ i < m
    BY <1>1, <1>4
<1>6. rs[m].min = rs[m - 1].max /\ rs[m - 1].max >= rs[m - 1].min
    BY <1>1, <1>2, <1>5, WidthAssumption
<1>7. CASE m - 1 = i
    BY <1>1, <1>4, <1>6, <1>7
<1>8. CASE m - 1 # i
    <2>1. m - 1 \notin T
        BY <1>1, <1>4, <1>5
    <2>2. rs[i].max <= rs[m - 1].min
        BY <1>1, <1>5, <1>8, <2>1
    <2> QED BY <1>1, <1>4, <1>5, <1>6, <2>2
<1> QED
    BY <1>7, <1>8

\* A range before one that has expired has expired.
LEMMA SortedFar ==
    ASSUME NEW rs, ListOK(rs), SortedByExpiry(rs), NEW time \in Nat,
           NEW i \in DOMAIN rs, NEW j \in DOMAIN rs, i <= j,
           Expired(rs[j], time)
    PROVE  Expired(rs[i], time)
<1> DEFINE T == {m \in Nat : j - m \in DOMAIN rs /\ ~Expired(rs[j - m], time)}
<1>1. /\ Len(rs) \in Nat /\ DOMAIN rs = 1 .. Len(rs)
      /\ \A k \in DOMAIN rs : rs[k].expires \in SUBSET Nat
    BY ListElements
<1>2. SUFFICES ASSUME T # {} PROVE FALSE
    <2>1. j - i \in Nat /\ j - (j - i) = i
        BY <1>1
    <2> QED BY <1>2, <2>1
<1>3. PICK m \in T : \A y \in T : m <= y
    <2>1. T \in SUBSET Nat
        OBVIOUS
    <2> HIDE DEF T
    <2> QED BY <1>2, <2>1, LeastElement
<1>4. m # 0
    BY <1>1, <1>3
<1>5. m - 1 \in Nat /\ j - m \in DOMAIN rs /\ j - (m - 1) \in DOMAIN rs
      /\ j - (m - 1) > 1 /\ (j - (m - 1)) - 1 = j - m
    BY <1>1, <1>3, <1>4
<1>6. Expired(rs[j - (m - 1)], time)
    BY <1>3, <1>5
<1>7. PICK e \in rs[j - (m - 1)].expires : e <= time
    BY <1>6 DEF Expired
<1>8. PICK d \in rs[j - m].expires : d <= e
    BY <1>5, <1>7 DEF SortedByExpiry
<1>9. d <= time
    BY <1>1, <1>5, <1>7, <1>8
<1> QED
    BY <1>3, <1>8, <1>9 DEF Expired

\* The ranges i..j leave no gap.
LEMMA RangesCover ==
    ASSUME NEW rs, ListOK(rs), NEW i \in DOMAIN rs, NEW j \in DOMAIN rs,
           i <= j, NEW n \in rs[i].min .. rs[j].max
    PROVE  \E k \in i .. j : n \in rs[k].min .. rs[k].max
<1> DEFINE S == {k \in i .. j : rs[k].min <= n}
<1>1. /\ Len(rs) \in Nat /\ DOMAIN rs = 1 .. Len(rs)
      /\ \A k \in DOMAIN rs : rs[k].min \in Nat /\ rs[k].max \in Nat
    BY ListElements
<1>2. i \in Nat /\ j \in Nat /\ n \in Nat /\ i .. j \subseteq DOMAIN rs
    BY <1>1
<1>3. S # {} /\ S \subseteq 0 .. j
    <2>1. i \in S
        BY <1>1, <1>2
    <2> QED BY <1>2, <2>1
<1>4. PICK k \in S : \A x \in S : x <= k
    <2> HIDE DEF S
    <2> QED BY <1>2, <1>3, MaxOfBounded
<1>5. k \in DOMAIN rs /\ k \in i .. j /\ rs[k].min <= n
    BY <1>2, <1>4
<1>6. n <= rs[k].max
    <2>1. CASE k = j
        BY <1>1, <1>2, <2>1
    <2>2. CASE k # j
        <3>1. /\ k + 1 \in i .. j /\ k + 1 \in DOMAIN rs
              /\ k + 1 > 1 /\ (k + 1) - 1 = k /\ ~(k + 1 <= k)
            BY <1>1, <1>2, <1>5, <2>2
        <3>2. rs[k + 1].min = rs[k].max
            BY <3>1 DEF ListOK, Chained
        <3>3. ~(rs[k + 1].min <= n)
            BY <1>4, <3>1
        <3> QED BY <1>1, <1>2, <1>5, <3>1, <3>2, <3>3
    <2> QED BY <2>1, <2>2
<1> QED
    BY <1>1, <1>2, <1>5, <1>6

\* What the list says of the numbers is accounted for by a set J of numbers:
\* every number a range records is in J, and every number of a range with a
\* known expiry is in J or has expired by then.
Dates(r, J, x, n) ==
    n \in J \/ \A e \in r.expires : n \in DOMAIN x /\ x[n] <= e

RangeSound(r, J, x) ==
    /\ r.full => r.min .. r.max \subseteq J
    /\ ~r.full => r.members \subseteq J
    /\ r.expires # {} => \A n \in r.min .. r.max : Dates(r, J, x, n)

Sound(rs, J, x) == \A i \in DOMAIN rs : RangeSound(rs[i], J, x)

\* Replacing ranges by one that is accounted for keeps the list sound.
LEMMA SpliceSound ==
    ASSUME NEW rs, ListOK(rs), NEW J, NEW x, Sound(rs, J, x),
           NEW i \in DOMAIN rs, NEW j \in DOMAIN rs, i <= j,
           NEW r, RangeSound(r, J, x)
    PROVE  Sound(Splice(rs, i, j, r), J, x)
<1> DEFINE new == Splice(rs, i, j, r)
           d == j - i
<1>1. /\ Len(rs) \in Nat /\ DOMAIN rs = 1 .. Len(rs)
      /\ d \in Nat /\ i \in Nat /\ j = i + d
    BY ListElements
<1>2. /\ DOMAIN new = 1 .. Len(rs) - d
      /\ \A k \in DOMAIN new :
            new[k] = IF k < i THEN rs[k] ELSE IF k = i THEN r ELSE rs[k + d]
    BY DEF Splice
<1> HIDE DEF new, d
<1>3. \A k \in DOMAIN new : new[k] = r \/ \E m \in DOMAIN rs : new[k] = rs[m]
    <2> TAKE k \in DOMAIN new
    <2>1. k \in Nat /\ k \in DOMAIN rs /\ (k > i => k + d \in DOMAIN rs)
        BY <1>1, <1>2
    <2> QED BY <1>1, <1>2, <2>1
<1> QED
    BY <1>3 DEF Sound, new

\* A full range made of full ranges.
LEMMA FullSpliceSound ==
    ASSUME NEW rs, ListOK(rs), NEW J, NEW x, Sound(rs, J, x),
           NEW i \in DOMAIN rs, NEW j \in DOMAIN rs, i <= j,
           \A k \in i .. j : rs[k].min .. rs[k].max \subseteq J,
           NEW expires
    PROVE  Sound(Splice(rs, i, j, FullRange(rs[i].min, rs[j].max, expires)),
                 J, x)
<1> DEFINE r == FullRange(rs[i].min, rs[j].max, expires)
<1>1. /\ r.full /\ r.min = rs[i].min /\ r.max = rs[j].max
    BY DEF FullRange
<1> HIDE DEF r
<1>2. r.min .. r.max \subseteq J
    BY <1>1, RangesCover
<1>3. RangeSound(r, J, x)
    BY <1>1, <1>2 DEF RangeSound, Dates
<1> QED
    BY <1>3, SpliceSound DEF r

\* New ranges record nothing.
LEMMA GrowSound ==
    ASSUME NEW rs, ListOK(rs), NEW J, NEW x, Sound(rs, J, x),
           NEW n \in Nat, Beyond(rs, n)
    PROVE  Sound(Grow(rs, n), J, x)
<1> DEFINE top == rs[Len(rs)].max
           count == (n - top + N - 2) \div (N - 1)
           added == [k \in 1 .. count |-> NewRange(top + (k - 1) * (N - 1))]
<1>1. Len(rs) \in Nat /\ Len(rs) >= 1 /\ DOMAIN rs = 1 .. Len(rs)
    BY ListElements
<1>2. count \in Nat
    <2>1. top \in Nat
        BY <1>1, ListElements
    <2> QED BY <2>1, GrowthCount DEF Beyond
<1> HIDE DEF count
<1>3. Len(added) = count /\ DOMAIN added = 1 .. count
    BY <1>2
<1>4. \A k \in DOMAIN added : RangeSound(added[k], J, x)
    BY DEF RangeSound, NewRange, Unknown
<1> HIDE DEF added
<1>5. rs \in Seq(RangeType) /\ added = [k \in 1 .. count |-> added[k]]
    BY <1>3 DEF ListOK, added
<1>6. \A k \in DOMAIN (rs \o added) :
          \/ k \in DOMAIN rs /\ (rs \o added)[k] = rs[k]
          \/ /\ k - Len(rs) \in DOMAIN added
             /\ (rs \o added)[k] = added[k - Len(rs)]
    BY <1>1, <1>2, <1>3, <1>5
<1> QED
    BY <1>4, <1>6 DEF Sound, Grow, added, count, top

\* A range takes in a number of J.
LEMMA InsertSound ==
    ASSUME NEW r \in RangeType, WellFormed(r), ~r.full,
           NEW n \in r.min .. r.max, n \notin r.members,
           NEW J, NEW x, RangeSound(r, J, x), n \in J
    PROVE  RangeSound(Insert(r, n), J, x)
<1>1. /\ Insert(r, n).min = r.min /\ Insert(r, n).max = r.max
      /\ Insert(r, n).expires = r.expires
    BY InsertWellFormed
<1>2. N \in Nat /\ N >= 2 /\ r.min \in Nat /\ r.max \in Nat /\ n \in Nat
    BY WidthAssumption DEF RangeType
<1>3. r.members \cup {n} \subseteq J
    BY DEF RangeSound
<1>4. CASE Cardinality(r.members) = N - 1
    <2>1. Insert(r, n).full
        BY <1>4 DEF Insert, RangeType
    <2>2. r.min \in Int /\ r.max \in Int /\ r.max - r.min + 1 = N
        BY <1>2 DEF WellFormed
    <2>3. IsFiniteSet(r.min .. r.max) /\ Cardinality(r.min .. r.max) = N
        <3>1. /\ IsFiniteSet(r.min .. r.max)
              /\ Cardinality(r.min .. r.max) =
                    IF r.min > r.max THEN 0 ELSE r.max - r.min + 1
            BY ONLY <2>2, FS_Interval
        <3> QED BY <1>2, <2>2, <3>1
    <2>4. r.members \cup {n} \in SUBSET (r.min .. r.max)
        BY DEF WellFormed
    <2>5. IsFiniteSet(r.members)
        BY <2>3, <2>4, FS_Subset
    <2>6. Cardinality(r.members \cup {n}) = N
        <3>1. Cardinality(r.members \cup {n}) = Cardinality(r.members) + 1
            BY <2>5, FS_AddElement
        <3> QED BY <1>2, <1>4, <3>1
    <2>7. r.min .. r.max = r.members \cup {n}
        BY <2>3, <2>4, <2>6, FS_Subset
    <2> QED
        BY <1>1, <1>3, <2>1, <2>7 DEF RangeSound, Dates
<1>5. CASE Cardinality(r.members) # N - 1
    <2>1. ~Insert(r, n).full /\ Insert(r, n).members = r.members \cup {n}
        BY <1>5 DEF Insert, RangeType
    <2> QED
        BY <1>1, <1>3, <2>1 DEF RangeSound, Dates
<1> QED
    BY <1>4, <1>5

\* Joining full ranges records nothing that was not recorded.
LEMMA JoinSound ==
    ASSUME NEW rs, ListOK(rs), NEW J, NEW x, Sound(rs, J, x),
           NEW i \in DOMAIN rs, rs[i].full
    PROVE  Sound(Join(rs, i), J, x)
<1> DEFINE lo == Lo(rs, i)
           hi == Hi(rs, i)
<1>1. Len(rs) \in Nat /\ DOMAIN rs = 1 .. Len(rs)
    BY ListElements
<1>2. /\ lo \in DOMAIN rs /\ hi \in DOMAIN rs /\ lo <= hi
      /\ lo \in {i - 1, i} /\ hi \in {i, i + 1}
      /\ rs[lo].full /\ rs[hi].full
    BY <1>1 DEF Lo, Hi
<1> HIDE DEF lo, hi
<1>3. \A k \in lo .. hi : k \in DOMAIN rs /\ rs[k].full
    <2> TAKE k \in lo .. hi
    <2>1. k = lo \/ k = i \/ k = hi
        BY <1>1, <1>2
    <2> QED BY <1>2, <2>1
<1>4. \A k \in lo .. hi : rs[k].min .. rs[k].max \subseteq J
    BY <1>3 DEF Sound, RangeSound
<1> QED
    BY <1>2, <1>4, FullSpliceSound DEF Join, lo, hi

\* Marking: every number below the target is in J or expires in time.
LEMMA MarkExpirySound ==
    ASSUME NEW rs, ListOK(rs), NEW J, NEW x, Sound(rs, J, x),
           NEW target \in DOMAIN rs, NEW expires \in Nat, NEW n \in Nat,
           rs[target].min <= n,
           \A m \in 1 .. n : m \in J \/ (m \in DOMAIN x /\ x[m] <= expires)
    PROVE  Sound(MarkExpiry(rs, target, expires), J, x)
<1> DEFINE new == MarkExpiry(rs, target, expires)
<1>1. /\ Len(rs) \in Nat /\ DOMAIN rs = 1 .. Len(rs)
      /\ \A k \in DOMAIN rs : /\ rs[k] \in RangeType
                              /\ rs[k].min \in Nat /\ rs[k].max \in Nat
    BY ListElements
<1>2. ASSUME NEW k \in DOMAIN rs, k < target
      PROVE  rs[k].min .. rs[k].max \subseteq 1 .. n
    <2>1. rs[k].max <= rs[target].min
        BY <1>2, ChainedFar
    <2>2. rs[k].min >= 1
        BY DEF ListOK, Chained, WellFormed
    <2> QED BY <1>1, <2>1, <2>2
<1>3. ASSUME NEW k \in DOMAIN rs PROVE RangeSound(new[k], J, x)
    <2>1. CASE k < target /\ ~Expired(rs[k], expires)
        <3>1. new[k] = [rs[k] EXCEPT !.expires = {expires}]
            BY <2>1 DEF MarkExpiry, At
        <3>2. /\ new[k].full = rs[k].full
              /\ new[k].members = rs[k].members
              /\ new[k].min = rs[k].min /\ new[k].max = rs[k].max
              /\ new[k].expires = {expires}
            BY <1>1, <3>1 DEF RangeType
        <3> HIDE DEF new
        <3>3. \A m \in rs[k].min .. rs[k].max : Dates(new[k], J, x, m)
            BY <1>2, <2>1, <3>2 DEF Dates
        <3>4. RangeSound(rs[k], J, x)
            BY DEF Sound
        <3> QED BY <3>2, <3>3, <3>4 DEF RangeSound
    <2>2. CASE ~(k < target /\ ~Expired(rs[k], expires))
        <3>1. new[k] = rs[k]
            BY <2>2 DEF MarkExpiry
        <3> QED BY <3>1 DEF Sound
    <2> QED BY <2>1, <2>2
<1>4. DOMAIN new = DOMAIN rs
    BY DEF MarkExpiry
<1> QED
    BY <1>3, <1>4 DEF Sound

\* Collapsing the front: every number that expired by then is in J.
LEMMA CheckExpiredSound ==
    ASSUME NEW rs, ListOK(rs), SortedByExpiry(rs),
           NEW J, NEW x, Sound(rs, J, x), NEW time \in Nat,
           \A m \in DOMAIN x : x[m] \in Nat,
           \A m \in DOMAIN x : x[m] <= time => m \in J
    PROVE  Sound(CheckExpired(rs, time), J, x)
<1> DEFINE k == LastExpired(rs, time)
<1>1. /\ k \in {0} \cup DOMAIN rs
      /\ k # 0 => Expired(rs[k], time)
    BY LastExpiredIsLast
<1>2. Len(rs) \in Nat /\ DOMAIN rs = 1 .. Len(rs)
      /\ \A i \in DOMAIN rs : rs[i].expires \in SUBSET Nat
    BY ListElements
<1>3. CASE k = 0
    BY <1>3 DEF CheckExpired
<1>4. CASE k # 0
    <2>1. k \in DOMAIN rs /\ 1 \in DOMAIN rs /\ 1 <= k /\ Expired(rs[k], time)
        BY <1>1, <1>2, <1>4
    <2> HIDE DEF k
    <2>2. ASSUME NEW i \in 1 .. k
          PROVE  rs[i].min .. rs[i].max \subseteq J
        <3>1. i \in DOMAIN rs /\ i <= k
            BY <1>2, <2>1
        <3>2. PICK e \in rs[i].expires : e <= time
            BY <2>1, <3>1, SortedFar DEF Expired
        <3>3. \A n \in rs[i].min .. rs[i].max : Dates(rs[i], J, x, n)
            BY <3>1, <3>2 DEF Sound, RangeSound
        <3>4. ASSUME NEW n \in rs[i].min .. rs[i].max, n \notin J
              PROVE  FALSE
            <4>1. n \in DOMAIN x /\ x[n] <= e
                BY <3>2, <3>3, <3>4 DEF Dates
            <4>2. x[n] \in Nat /\ e \in Nat
                BY <1>2, <3>1, <3>2, <4>1
            <4> QED BY <3>2, <3>4, <4>1, <4>2
        <3> QED BY <3>4
    <2>3. Sound(Splice(rs, 1, k, FullRange(rs[1].min, rs[k].max, At(0))),
                J, x)
        BY <2>1, <2>2, FullSpliceSound
    <2> QED BY <1>4, <2>3 DEF CheckExpired, k
<1> QED
    BY <1>3, <1>4

\* The last range that growth pushes starts below the number.
LEMMA GrowthReach ==
    ASSUME NEW rs, ListOK(rs), NEW n \in Nat, Beyond(rs, n)
    PROVE  /\ Len(Grow(rs, n)) \in DOMAIN Grow(rs, n)
           /\ Grow(rs, n)[Len(Grow(rs, n))].min <= n
<1> DEFINE top == rs[Len(rs)].max
           w == N - 1
           a == n - top + N - 2
           count == a \div w
           added == [k \in 1 .. count |-> NewRange(top + (k - 1) * (N - 1))]
<1>1. Len(rs) \in Nat /\ Len(rs) >= 1 /\ DOMAIN rs = 1 .. Len(rs)
    BY ListElements
<1>2. top \in Nat /\ n > top
    BY <1>1, ListElements DEF Beyond
<1> HIDE DEF top
<1>3. w \in Nat \ {0} /\ a \in Nat /\ a = (n - top - 1) + w /\ a >= w
    BY <1>2, WidthAssumption
<1>4. count \in Nat /\ count * w <= a /\ count >= 1
    <2> HIDE DEF a, w
    <2>1. \A p \in Nat, q \in Nat \ {0} :
             p \div q \in Nat /\ (p \div q) * q <= p /\ p < (p \div q + 1) * q
        OBVIOUS
    <2>2. count \in Nat /\ count * w <= a /\ a < (count + 1) * w
        BY <1>3, <2>1
    <2> HIDE DEF count
    <2>3. count # 0
        <3>1. SUFFICES ASSUME count = 0 PROVE FALSE
            OBVIOUS
        <3>2. (count + 1) * w = w
            BY <1>3, <3>1
        <3> QED BY <1>3, <2>2, <3>2
    <2> QED BY <2>2, <2>3
<1>5. top + (count - 1) * w <= n
    <2> HIDE DEF count, w, a
    <2>1. (count - 1) * w = count * w - w /\ count * w \in Nat
        BY <1>3, <1>4
    <2> QED BY <1>2, <1>3, <1>4, <2>1
<1> HIDE DEF count
<1>6. Len(added) = count /\ DOMAIN added = 1 .. count
    BY <1>4
<1>7. added[count].min = top + (count - 1) * w
    BY <1>4 DEF NewRange
<1> HIDE DEF added, w
<1>8. rs \in Seq(RangeType) /\ added = [k \in 1 .. count |-> added[k]]
    BY <1>6 DEF ListOK, added
<1>9. /\ Len(rs \o added) = Len(rs) + count
      /\ Len(rs \o added) \in DOMAIN (rs \o added)
      /\ (rs \o added)[Len(rs) + count] = added[count]
    BY <1>1, <1>4, <1>6, <1>8
<1>10. Grow(rs, n) = rs \o added
    BY DEF Grow, added, count, a, w, top
<1> QED
    BY <1>5, <1>7, <1>9, <1>10

\* The target add_num_ranges reports starts at or below the number.
LEMMA AddNumRangesTarget ==
    ASSUME NEW rs, ListOK(rs), NEW n \in Nat, n >= 1
    PROVE  LET a == AddNumRanges(rs, n)
           IN  a.target \in DOMAIN a.ranges /\ a.ranges[a.target].min <= n
<1> DEFINE i == Target(rs, n)
           placed == Insert(rs[i], n)
           new == [rs EXCEPT ![i] = placed]
<1>1. /\ i \in DOMAIN rs /\ rs[i].min <= n
      /\ Len(rs) \in Nat /\ DOMAIN rs = 1 .. Len(rs)
      /\ \A k \in DOMAIN rs : rs[k].min \in Nat /\ rs[k].max \in Nat
    BY TargetIsLast, ListElements
<1>2. CASE Beyond(rs, n)
    BY <1>2, GrowthReach DEF AddNumRanges
<1>3. CASE ~Beyond(rs, n) /\ Holds(rs[i], n)
    BY <1>1, <1>3 DEF AddNumRanges
<1>4. CASE ~Beyond(rs, n) /\ ~Holds(rs[i], n)
    <2>1. n \in rs[i].min .. rs[i].max
        BY <1>4, TargetCovers
    <2>2. rs[i] \in RangeType /\ WellFormed(rs[i])
        BY <1>1, ListElements DEF ListOK, Chained
    <2>3. placed.min = rs[i].min
        BY <1>4, <2>1, <2>2, InsertWellFormed DEF Holds
    <2> DEFINE lo == Lo(rs, i)
    <2>4. lo \in DOMAIN rs /\ lo \in {i - 1, i}
        BY <1>1 DEF Lo
    <2>5. Lo(new, i) = lo
        BY <1>1 DEF Lo
    <2>6. rs[lo].min <= n
        <3>1. CASE lo = i
            BY <1>1, <3>1
        <3>2. CASE lo # i
            <4>1. lo < i
                BY <1>1, <2>4, <3>2
            <4>2. rs[lo].max <= rs[i].min
                BY <1>1, <2>4, <4>1, ChainedFar
            <4>3. rs[lo].max >= rs[lo].min + N - 1
                BY <2>4 DEF ListOK, Chained, WellFormed
            <4> QED BY <1>1, <2>4, <4>2, <4>3, WidthAssumption
        <3> QED BY <3>1, <3>2
    <2> HIDE DEF i, placed
    <2>7. CASE ~placed.full
        BY <1>1, <1>4, <2>3, <2>7 DEF AddNumRanges, i, placed
    <2>8. CASE placed.full
        <3>1. /\ AddNumRanges(rs, n).ranges = Join(new, i)
              /\ AddNumRanges(rs, n).target = lo
            BY <1>4, <2>8 DEF AddNumRanges, i, placed
        <3>2. new[lo].min = rs[lo].min
            BY <1>1, <2>3, <2>4
        <3>3. /\ Hi(new, i) \in {i, i + 1} /\ Hi(new, i) <= Len(rs)
              /\ Len(new) = Len(rs)
            <4>1. Len(new) = Len(rs)
                BY <1>1 DEF ListOK
            <4> QED BY <1>1, <4>1 DEF Hi
        <3> HIDE DEF lo, new
        <3>4. lo \in 1 .. Len(new) - (Hi(new, i) - lo)
            BY <1>1, <2>4, <3>3
        <3>5. /\ lo \in DOMAIN Join(new, i)
              /\ Join(new, i)[lo].min = new[lo].min
            BY <2>4, <2>5, <3>4 DEF Join, Splice, FullRange
        <3> QED BY <2>6, <3>1, <3>2, <3>5
    <2> QED BY <2>7, <2>8
<1> QED
    BY <1>2, <1>3, <1>4

\* add_num_ranges records only the number it is given.
LEMMA AddNumRangesSound ==
    ASSUME NEW rs, ListOK(rs), NEW n \in Nat, n >= 1,
           NEW J, NEW x, Sound(rs, J, x),
           AddNumRanges(rs, n).exists \/ n \in J
    PROVE  Sound(AddNumRanges(rs, n).ranges, J, x)
<1> DEFINE i == Target(rs, n)
           placed == Insert(rs[i], n)
           new == [rs EXCEPT ![i] = placed]
<1>1. i \in DOMAIN rs
    BY TargetIsLast
<1>2. CASE Beyond(rs, n)
    BY <1>2, GrowSound DEF AddNumRanges
<1>3. CASE ~Beyond(rs, n) /\ Holds(rs[i], n)
    BY <1>3 DEF AddNumRanges
<1>4. CASE ~Beyond(rs, n) /\ ~Holds(rs[i], n)
    <2>1. n \in rs[i].min .. rs[i].max
        BY <1>4, TargetCovers
    <2>2. rs[i] \in RangeType /\ WellFormed(rs[i]) /\ RangeSound(rs[i], J, x)
        BY <1>1, ListElements DEF ListOK, Chained, Sound
    <2>3. n \in J
        BY <1>4 DEF AddNumRanges
    <2>4. /\ placed \in RangeType /\ WellFormed(placed)
          /\ placed.min = rs[i].min /\ placed.max = rs[i].max
          /\ RangeSound(placed, J, x)
        BY <1>4, <2>1, <2>2, <2>3, InsertWellFormed, InsertSound DEF Holds
    <2> HIDE DEF placed, i
    <2>5. ListOK(new) /\ i \in DOMAIN new /\ new[i] = placed
        BY <1>1, <2>4, ReplaceChained
    <2>6. Sound(new, J, x)
        BY <1>1, <2>4 DEF Sound
    <2>7. placed.full => Sound(Join(new, i), J, x)
        <3> HIDE DEF new
        <3> QED BY <2>5, <2>6, JoinSound
    <2> QED
        BY <1>4, <2>6, <2>7 DEF AddNumRanges, placed, i
<1> QED
    BY <1>2, <1>3, <1>4

\* A whole call accounts for what it records.  J holds what had been accepted
\* or had expired, and n if this call accepts it; x gives the expiries.
THEOREM NumExistsSound ==
    ASSUME NEW rs, ListOK(rs), SortedByExpiry(rs), NEW n \in Nat, n >= 1,
           NEW expires \in Nat, NEW time \in Nat,
           NEW J, NEW x, Sound(rs, J, x),
           NumExists(rs, n, expires, time).exists \/ n \in J,
           \A m \in 1 .. n : m \in J \/ (m \in DOMAIN x /\ x[m] <= expires),
           \A m \in DOMAIN x : x[m] \in Nat,
           \A m \in DOMAIN x : x[m] <= time => m \in J
    PROVE  Sound(NumExists(rs, n, expires, time).ranges, J, x)
<1> DEFINE a == AddNumRanges(rs, n)
           b == AddNum(rs, n, expires)
<1>1. /\ ListOK(a.ranges) /\ SortedByExpiry(a.ranges)
      /\ a.target \in Nat /\ a.target \in DOMAIN a.ranges
      /\ a.ranges[a.target].min <= n
    BY AddNumRangesChained, AddNumRangesSorted, AddNumRangesTarget
<1>2. Sound(a.ranges, J, x)
    BY AddNumRangesSound DEF NumExists, AddNum
<1>3. b.ranges = MarkExpiry(a.ranges, a.target, expires)
    BY DEF AddNum
<1> HIDE DEF a
<1>4. /\ ListOK(b.ranges) /\ SortedByExpiry(b.ranges)
      /\ Sound(b.ranges, J, x)
    BY <1>1, <1>2, <1>3, MarkExpiryChained, MarkExpirySorted, MarkExpirySound
<1>5. Sound(CheckExpired(b.ranges, time), J, x)
    <2> HIDE DEF b
    <2> QED BY <1>4, CheckExpiredSound
<1> QED
    BY <1>4, <1>5 DEF NumExists

\* A sound list records only numbers of J.
THEOREM RecordedIsAccounted ==
    ASSUME NEW rs, ListOK(rs), NEW J, NEW x, Sound(rs, J, x),
           NEW n \in Nat, n >= 1, Recorded(rs, n)
    PROVE  n \in J
<1> DEFINE i == Target(rs, n)
<1>1. i \in DOMAIN rs /\ n \in rs[i].min .. rs[i].max /\ Holds(rs[i], n)
    BY TargetIsLast, TargetCovers DEF Recorded
<1> QED
    BY <1>1 DEF Sound, RangeSound, Holds

\* More numbers and more expiries may be accounted for.
LEMMA SoundGrows ==
    ASSUME NEW rs, NEW J, NEW J2, J \subseteq J2, NEW x, NEW x2,
           \A n \in DOMAIN x : n \in DOMAIN x2 /\ x2[n] = x[n],
           Sound(rs, J, x)
    PROVE  Sound(rs, J2, x2)
BY DEF Sound, RangeSound, Dates

-----------------------------------------------------------------------------
(* What is recorded stays recorded.                                        *)

\* The last number the list reaches.  The next range pushed starts there.
Top(rs) == rs[Len(rs)].max

\* A number belongs to the range that covers it; the one two ranges share
\* belongs to the later.
Owns(rs, i, n) ==
    /\ rs[i].min <= n
    /\ n <= rs[i].max
    /\ i # Len(rs) => n < rs[i].max

\* The target of a number owns it.
LEMMA TargetOwns ==
    ASSUME NEW rs, ListOK(rs), NEW n \in Nat, n >= 1, ~Beyond(rs, n)
    PROVE  Target(rs, n) \in DOMAIN rs /\ Owns(rs, Target(rs, n), n)
<1> DEFINE i == Target(rs, n)
<1>1. /\ i \in DOMAIN rs
      /\ \A j \in DOMAIN rs : rs[j].min <= n => j <= i
    BY TargetIsLast
<1>2. n \in rs[i].min .. rs[i].max
    BY TargetCovers
<1>3. /\ Len(rs) \in Nat /\ DOMAIN rs = 1 .. Len(rs)
      /\ \A j \in DOMAIN rs : rs[j].min \in Nat /\ rs[j].max \in Nat
    BY ListElements
<1> HIDE DEF i
<1>4. ASSUME i # Len(rs) PROVE n < rs[i].max
    <2>1. i + 1 \in DOMAIN rs /\ i + 1 > 1 /\ (i + 1) - 1 = i
        BY <1>1, <1>3, <1>4
    <2>2. rs[i + 1].min = rs[i].max
        BY <2>1 DEF ListOK, Chained
    <2>3. ~ (rs[i + 1].min <= n)
        BY <1>1, <1>3, <2>1
    <2> QED
        BY <1>1, <1>3, <2>2, <2>3
<1> QED
    BY <1>1, <1>2, <1>3, <1>4 DEF Owns, i

\* No other range owns it.
LEMMA OwnerIsTarget ==
    ASSUME NEW rs, ListOK(rs), NEW n \in Nat, NEW i \in DOMAIN rs, Owns(rs, i, n)
    PROVE  n >= 1 /\ ~Beyond(rs, n) /\ Target(rs, n) = i
<1> DEFINE t == Target(rs, n)
<1>1. /\ Len(rs) \in Nat /\ Len(rs) >= 1 /\ DOMAIN rs = 1 .. Len(rs)
      /\ \A j \in DOMAIN rs : rs[j].min \in Nat /\ rs[j].max \in Nat
    BY ListElements
<1>2. \A j \in DOMAIN rs : rs[j].min >= 1 /\ rs[j].min <= rs[j].max
    BY <1>1, WidthAssumption DEF ListOK, Chained, WellFormed
<1>3. n >= 1
    BY <1>1, <1>2 DEF Owns
<1>4. t \in DOMAIN rs /\ rs[t].min <= n /\ i <= t
    BY <1>3, TargetIsLast DEF Owns
<1> HIDE DEF t
<1>5. \A j \in DOMAIN rs : i < j => n < rs[j].min
    <2> SUFFICES ASSUME NEW j \in DOMAIN rs, i < j PROVE n < rs[j].min
        OBVIOUS
    <2>1. rs[i].max <= rs[j].min
        BY ChainedFar
    <2>2. n < rs[i].max
        BY <1>1 DEF Owns
    <2> QED BY <1>1, <2>1, <2>2
<1>6. t = i
    BY <1>1, <1>4, <1>5
<1>7. n <= rs[Len(rs)].max
    BY <1>1, <1>2, <1>5 DEF Owns
<1> QED
    BY <1>1, <1>3, <1>6, <1>7 DEF t, Beyond

\* So a number is recorded when the range that owns it holds it.
LEMMA OwnerRecords ==
    ASSUME NEW rs, ListOK(rs), NEW n \in Nat, NEW i \in DOMAIN rs, Owns(rs, i, n)
    PROVE  Recorded(rs, n) <=> Holds(rs[i], n)
BY OwnerIsTarget DEF Recorded

\* A recorded number has an owner, which holds it.
LEMMA RecordedOwner ==
    ASSUME NEW rs, ListOK(rs), NEW n \in Nat, n >= 1, Recorded(rs, n)
    PROVE  \E i \in DOMAIN rs : Owns(rs, i, n) /\ Holds(rs[i], n)
BY TargetOwns DEF Recorded

\* Storing a range that holds no less keeps what is recorded.
LEMMA ReplaceRecords ==
    ASSUME NEW rs, ListOK(rs), NEW i \in DOMAIN rs,
           NEW r \in RangeType, WellFormed(r),
           r.min = rs[i].min, r.max = rs[i].max,
           \A m \in Nat : Holds(rs[i], m) => Holds(r, m)
    PROVE  LET new == [rs EXCEPT ![i] = r]
           IN  /\ Top(new) = Top(rs)
               /\ \A m \in Nat \ {0} : Recorded(rs, m) => Recorded(new, m)
<1> DEFINE new == [rs EXCEPT ![i] = r]
<1>1. /\ Len(rs) \in Nat /\ Len(rs) >= 1 /\ DOMAIN rs = 1 .. Len(rs)
      /\ rs \in Seq(RangeType)
    BY ListElements DEF ListOK
<1>2. ListOK(new) /\ DOMAIN new = DOMAIN rs /\ Len(new) = Len(rs)
    <2>1. ListOK(new)
        BY ReplaceChained
    <2>2. DOMAIN new = DOMAIN rs /\ Len(new) = Len(rs)
        BY <1>1
    <2> QED BY <2>1, <2>2
<1>3. \A k \in DOMAIN rs : new[k] = IF k = i THEN r ELSE rs[k]
    BY <1>1
<1> HIDE DEF new
<1>4. ASSUME NEW m \in Nat \ {0}, Recorded(rs, m) PROVE Recorded(new, m)
    <2>1. PICK k \in DOMAIN rs : Owns(rs, k, m) /\ Holds(rs[k], m)
        BY <1>4, RecordedOwner
    <2>2. Owns(new, k, m) /\ Holds(new[k], m)
        BY <1>2, <1>3, <2>1 DEF Owns
    <2> QED BY <1>2, <2>2, OwnerRecords
<1>5. Top(new) = Top(rs)
    <2>1. Len(rs) \in DOMAIN rs
        BY <1>1
    <2> QED BY <1>2, <1>3, <2>1 DEF Top
<1> QED
    BY <1>4, <1>5 DEF new

\* Putting a full range in the place of those whose numbers it covers keeps
\* what is recorded.
LEMMA SpliceRecords ==
    ASSUME NEW rs, ListOK(rs), NEW i \in DOMAIN rs, NEW j \in DOMAIN rs,
           i <= j, NEW r \in RangeType, WellFormed(r), r.full,
           r.min = rs[i].min, r.max = rs[j].max
    PROVE  LET new == Splice(rs, i, j, r)
           IN  /\ Top(new) = Top(rs)
               /\ \A m \in Nat \ {0} : Recorded(rs, m) => Recorded(new, m)
<1> DEFINE new == Splice(rs, i, j, r)
           d == j - i
<1>1. /\ Len(rs) \in Nat /\ Len(rs) >= 1 /\ DOMAIN rs = 1 .. Len(rs)
      /\ \A k \in DOMAIN rs : rs[k].min \in Nat /\ rs[k].max \in Nat
      /\ i \in Nat /\ j \in Nat /\ d \in Nat /\ j = i + d
    BY ListElements
<1>2. ListOK(new)
    BY SpliceChained
<1>3. /\ DOMAIN new = 1 .. Len(rs) - d
      /\ Len(rs) - d \in Nat
      /\ \A k \in DOMAIN new :
            new[k] = IF k < i THEN rs[k] ELSE IF k = i THEN r ELSE rs[k + d]
    BY <1>1 DEF Splice
<1> HIDE DEF new, d
<1>4. Len(new) = Len(rs) - d
    <2>1. DOMAIN new = 1 .. Len(new) /\ Len(new) \in Nat
        BY <1>2, ListElements
    <2> QED BY <1>3, <2>1
<1>5. ASSUME NEW m \in Nat \ {0}, Recorded(rs, m) PROVE Recorded(new, m)
    <2>1. PICK k \in DOMAIN rs : Owns(rs, k, m) /\ Holds(rs[k], m)
        BY <1>5, RecordedOwner
    <2>2. rs[k].min <= m /\ m <= rs[k].max /\ (k # Len(rs) => m < rs[k].max)
        BY <2>1 DEF Owns
    <2>3. CASE k < i
        <3>1. k \in DOMAIN new /\ new[k] = rs[k] /\ k # Len(rs)
            BY <1>1, <1>3, <2>3
        <3> QED BY <1>2, <2>1, <2>2, <3>1, OwnerRecords DEF Owns
    <2>4. CASE k > j
        <3>1. k - d \in DOMAIN new /\ k - d > i /\ (k - d) + d = k
            BY <1>1, <1>3, <2>4
        <3>2. new[k - d] = rs[k] /\ (k - d # Len(new) => k # Len(rs))
            <4> DEFINE x == k - d
            <4>1. x \in DOMAIN new /\ ~(x < i) /\ x # i /\ x + d = k
                BY <1>1, <1>3, <3>1
            <4> HIDE DEF x
            <4>2. new[x] = rs[k]
                BY <1>3, <4>1
            <4>3. x # Len(new) => k # Len(rs)
                BY <1>1, <1>3, <1>4, <4>1
            <4> QED BY <4>2, <4>3 DEF x
        <3>3. Owns(new, k - d, m) /\ Holds(new[k - d], m)
            BY <2>1, <2>2, <3>2 DEF Owns
        <3> QED BY <1>2, <3>1, <3>3, OwnerRecords
    <2>5. CASE i <= k /\ k <= j
        <3>1. rs[i].min <= m
            <4>1. CASE k = i
                BY <2>2, <4>1
            <4>2. CASE i < k
                <5>1. rs[i].max <= rs[k].min
                    BY <4>2, ChainedFar
                <5>2. rs[i].min <= rs[i].max
                    BY <1>1, WidthAssumption DEF ListOK, Chained, WellFormed
                <5> QED BY <1>1, <2>2, <5>1, <5>2
            <4>3. k \in Nat /\ i <= k
                BY <1>1, <2>5
            <4> QED BY <1>1, <4>1, <4>2, <4>3
        <3>2. m <= rs[j].max /\ (j # Len(rs) => m < rs[j].max)
            <4>1. CASE k = j
                BY <2>2, <4>1
            <4>2. CASE k < j
                <5>1. rs[k].max <= rs[j].min
                    BY <4>2, ChainedFar
                <5>2. rs[j].min <= rs[j].max
                    BY <1>1, WidthAssumption DEF ListOK, Chained, WellFormed
                <5>3. k # Len(rs)
                    BY <1>1, <4>2
                <5> QED BY <1>1, <2>2, <5>1, <5>2, <5>3
            <4>3. k \in Nat /\ k <= j
                BY <1>1, <2>5
            <4> QED BY <1>1, <4>1, <4>2, <4>3
        <3>3. i \in DOMAIN new /\ new[i] = r /\ (i # Len(new) => j # Len(rs))
            BY <1>1, <1>3, <1>4
        <3>4. Owns(new, i, m) /\ Holds(new[i], m)
            BY <3>1, <3>2, <3>3 DEF Owns, Holds
        <3> QED BY <1>2, <3>3, <3>4, OwnerRecords
    <2> QED BY <1>1, <2>3, <2>4, <2>5
<1>6. Top(new) = Top(rs)
    <2>1. Len(new) \in DOMAIN new
        BY <1>1, <1>3, <1>4
    <2>2. CASE j = Len(rs)
        BY <1>1, <1>3, <1>4, <2>1, <2>2 DEF Top
    <2>3. CASE j # Len(rs)
        <3>1. Len(new) > i /\ Len(new) + d = Len(rs)
            BY <1>1, <1>4, <2>3
        <3> QED BY <1>1, <1>3, <2>1, <3>1 DEF Top
    <2> QED BY <2>2, <2>3
<1> QED
    BY <1>5, <1>6 DEF new

\* Growth leaves what is there as it is: only the top changes hands.
LEMMA GrowRecords ==
    ASSUME NEW rs, ListOK(rs), NEW n \in Nat, Beyond(rs, n)
    PROVE  LET new == Grow(rs, n)
           IN  /\ Top(new) \in Nat /\ Top(new) >= n /\ Top(rs) < n
               /\ \A m \in Nat \ {0} :
                     Recorded(rs, m) /\ m # Top(rs) => Recorded(new, m)
<1> DEFINE top == rs[Len(rs)].max
           count == (n - top + N - 2) \div (N - 1)
           added == [k \in 1 .. count |-> NewRange(top + (k - 1) * (N - 1))]
           new == rs \o added
<1>1. /\ Len(rs) \in Nat /\ Len(rs) >= 1 /\ DOMAIN rs = 1 .. Len(rs)
      /\ \A k \in DOMAIN rs : rs[k].min \in Nat /\ rs[k].max \in Nat
    BY ListElements
<1>2. top \in Nat /\ n > top /\ N \in Nat /\ N >= 2
    BY <1>1, WidthAssumption DEF Beyond
<1> HIDE DEF top
<1>3. count \in Nat /\ count * (N - 1) >= n - top
    <2>1. \A p \in Nat, q \in Nat \ {0} :
             p \div q \in Nat /\ p < (p \div q + 1) * q
        OBVIOUS
    <2>2. n - top + N - 2 \in Nat /\ N - 1 \in Nat \ {0}
        BY <1>2
    <2>3. count \in Nat /\ n - top + N - 2 < (count + 1) * (N - 1)
        BY <2>1, <2>2
    <2> HIDE DEF count
    <2>4. (count + 1) * (N - 1) = count * (N - 1) + (N - 1)
        BY <1>2, <2>3
    <2>5. count * (N - 1) \in Int
        BY <1>2, <2>3
    <2> QED BY <1>2, <2>3, <2>4, <2>5
<1> HIDE DEF count
<1>4. count >= 1
    <2>1. count # 0
        <3>1. SUFFICES ASSUME count = 0 PROVE FALSE
            OBVIOUS
        <3>2. count * (N - 1) = 0
            BY <1>2, <3>1
        <3> QED BY <1>2, <1>3, <3>2
    <2> QED BY <1>3, <2>1
<1>5. Len(added) = count /\ DOMAIN added = 1 .. count
    BY <1>3
<1>6. added[count].max >= n /\ added[count].max \in Nat /\ added[1].min = top
    <2>1. /\ added[count].max = top + (count - 1) * (N - 1) + N - 1
          /\ added[1].min = top + 0 * (N - 1)
        <3>1. count \in 1 .. count /\ 1 \in 1 .. count /\ 1 - 1 = 0
            BY <1>3, <1>4
        <3> QED BY <3>1 DEF NewRange
    <2>2. (count - 1) * (N - 1) = count * (N - 1) - (N - 1)
        BY <1>2, <1>3
    <2>3. count * (N - 1) \in Int /\ 0 * (N - 1) = 0
        BY <1>2, <1>3
    <2> QED BY <1>2, <1>3, <2>1, <2>2, <2>3
<1>7. rs \in Seq(RangeType) /\ added = [k \in 1 .. count |-> added[k]]
    BY <1>5 DEF ListOK, added
<1> HIDE DEF added
<1>8. /\ Len(new) = Len(rs) + count
      /\ \A k \in DOMAIN rs : new[k] = rs[k] /\ k \in DOMAIN new
      /\ \A k \in 1 .. count : new[Len(rs) + k] = added[k]
    BY <1>1, <1>3, <1>5, <1>7
<1>9. Grow(rs, n) = new
    BY DEF Grow, new, added, count, top
<1>10. ListOK(new)
    BY <1>9, GrowChained
<1> HIDE DEF new
<1>11. Top(new) \in Nat /\ Top(new) >= n
    BY <1>3, <1>4, <1>6, <1>8 DEF Top
<1>12. ASSUME NEW m \in Nat \ {0}, Recorded(rs, m), m # Top(rs)
       PROVE  Recorded(new, m)
    <2>1. PICK k \in DOMAIN rs : Owns(rs, k, m) /\ Holds(rs[k], m)
        BY <1>12, RecordedOwner
    <2>2. m < rs[k].max
        BY <1>1, <1>12, <2>1 DEF Owns, Top
    <2>3. Owns(new, k, m) /\ Holds(new[k], m) /\ k \in DOMAIN new
        BY <1>8, <2>1, <2>2 DEF Owns
    <2> QED BY <1>10, <2>3, OwnerRecords
<1> QED
    BY <1>2, <1>9, <1>11, <1>12 DEF Top, top

\* Joining a range that became full with its neighbours.
LEMMA JoinRecords ==
    ASSUME NEW rs, ListOK(rs), NEW i \in DOMAIN rs
    PROVE  LET new == Join(rs, i)
           IN  /\ Top(new) = Top(rs)
               /\ \A m \in Nat \ {0} : Recorded(rs, m) => Recorded(new, m)
<1> DEFINE lo == Lo(rs, i)
           hi == Hi(rs, i)
           r  == FullRange(rs[lo].min, rs[hi].max, rs[lo].expires)
<1>1. /\ Len(rs) \in Nat /\ DOMAIN rs = 1 .. Len(rs)
      /\ \A k \in DOMAIN rs : /\ rs[k].min \in Nat
                              /\ rs[k].max \in Nat
                              /\ rs[k].expires \in SUBSET Nat
    BY ListElements
<1>2. lo \in DOMAIN rs /\ hi \in DOMAIN rs /\ lo <= hi
    BY <1>1 DEF Lo, Hi
<1> HIDE DEF lo, hi
<1>3. rs[lo].min >= 1 /\ rs[hi].max >= rs[lo].min + N - 1
    <2>1. \A k \in DOMAIN rs : /\ rs[k].min >= 1
                               /\ rs[k].max >= rs[k].min + N - 1
        BY DEF ListOK, Chained, WellFormed
    <2>2. CASE lo = hi
        BY <1>2, <2>1, <2>2
    <2>3. CASE lo < hi
        <3>1. rs[lo].max <= rs[hi].min
            BY <1>2, <2>3, ChainedFar
        <3>2. rs[hi].max >= rs[hi].min /\ rs[lo].max >= rs[lo].min + N - 1
            BY <1>1, <1>2, <2>1, WidthAssumption
        <3> QED BY <1>1, <1>2, <2>1, <3>1, <3>2, WidthAssumption
    <2> QED BY <1>1, <1>2, <2>2, <2>3
<1>4. /\ r \in RangeType /\ WellFormed(r) /\ r.full
      /\ r.min = rs[lo].min /\ r.max = rs[hi].max
    BY <1>1, <1>2, <1>3, FullRangeWellFormed DEF FullRange
<1> HIDE DEF r
<1> QED
    BY <1>2, <1>4, SpliceRecords DEF Join, lo, hi, r

\* A range holds what it held, and the number that is inserted.
LEMMA InsertHolds ==
    ASSUME NEW r \in RangeType, NEW n
    PROVE  /\ Holds(Insert(r, n), n)
           /\ \A m : Holds(r, m) => Holds(Insert(r, n), m)
BY DEF Insert, Holds, RangeType

\* add_num_ranges answers whether the number was recorded, records it unless
\* the list had to grow for it, and drops the record of no number but the top
\* of a list that grows.
LEMMA AddNumRangesRecords ==
    ASSUME NEW rs, ListOK(rs), NEW n \in Nat, n >= 1
    PROVE  LET new == AddNumRanges(rs, n).ranges
           IN  /\ AddNumRanges(rs, n).exists <=> Recorded(rs, n)
               /\ AddNumRanges(rs, n).exists \in BOOLEAN
               /\ ~Beyond(rs, n) => Top(new) = Top(rs) /\ Recorded(new, n)
               /\ Beyond(rs, n) => Top(new) >= n /\ Top(rs) < n /\ Top(new) \in Nat
               /\ \A m \in Nat \ {0} :
                     Recorded(rs, m) /\ (m = Top(rs) => ~Beyond(rs, n))
                         => Recorded(new, m)
<1> DEFINE i == Target(rs, n)
           placed == Insert(rs[i], n)
           new == [rs EXCEPT ![i] = placed]
<1>1. i \in DOMAIN rs
    BY TargetIsLast
<1>2. CASE Beyond(rs, n)
    BY <1>2, GrowRecords DEF AddNumRanges, Recorded
<1>3. CASE ~Beyond(rs, n) /\ Holds(rs[i], n)
    BY <1>3 DEF AddNumRanges, Recorded
<1>4. CASE ~Beyond(rs, n) /\ ~Holds(rs[i], n)
    <2>1. n \in rs[i].min .. rs[i].max
        BY <1>4, TargetCovers
    <2>2. rs[i] \in RangeType /\ WellFormed(rs[i])
        BY <1>1, ListElements DEF ListOK, Chained
    <2>3. /\ placed \in RangeType /\ WellFormed(placed)
          /\ placed.min = rs[i].min /\ placed.max = rs[i].max
        BY <1>4, <2>1, <2>2, InsertWellFormed DEF Holds
    <2>4. Holds(placed, n) /\ \A m \in Nat : Holds(rs[i], m) => Holds(placed, m)
        BY <2>2, InsertHolds
    <2>5. Owns(rs, i, n)
        BY <1>4, TargetOwns
    <2> HIDE DEF placed, i
    <2>6. ListOK(new) /\ i \in DOMAIN new
        <3>1. ListOK(new)
            BY <1>1, <2>3, ReplaceChained
        <3> QED BY <1>1, <3>1
    <2>7. /\ Top(new) = Top(rs)
          /\ \A m \in Nat \ {0} : Recorded(rs, m) => Recorded(new, m)
        BY <1>1, <2>3, <2>4, ReplaceRecords
    <2>8. Recorded(new, n)
        <3>1. new[i] = placed /\ Len(new) = Len(rs)
            <4>1. Len(rs) \in Nat /\ DOMAIN rs = 1 .. Len(rs)
                BY ListElements
            <4> QED BY <1>1, <4>1 DEF ListOK
        <3>2. Owns(new, i, n)
            BY <2>3, <2>5, <3>1 DEF Owns
        <3> HIDE DEF new
        <3> QED BY <2>4, <2>6, <3>1, <3>2, OwnerRecords
    <2> HIDE DEF new
    <2>9. /\ Top(Join(new, i)) = Top(new)
          /\ \A m \in Nat \ {0} : Recorded(new, m) => Recorded(Join(new, i), m)
        BY <2>6, JoinRecords
    <2>10. /\ AddNumRanges(rs, n).ranges \in {new, Join(new, i)}
           /\ AddNumRanges(rs, n).exists = FALSE /\ ~Recorded(rs, n)
        BY <1>4 DEF AddNumRanges, placed, i, new, Recorded
    <2> DEFINE res == AddNumRanges(rs, n)
    <2>11. n \in Nat \ {0}
        OBVIOUS
    <2> HIDE DEF res
    <2>12. /\ Top(res.ranges) = Top(rs) /\ Recorded(res.ranges, n)
           /\ \A m \in Nat \ {0} : Recorded(rs, m) => Recorded(res.ranges, m)
        <3>1. CASE res.ranges = new
            BY <2>7, <2>8, <3>1
        <3>2. CASE res.ranges = Join(new, i)
            BY <2>7, <2>8, <2>9, <2>11, <3>2
        <3> QED BY <2>10, <3>1, <3>2 DEF res
    <2>13. res.exists = FALSE /\ ~Recorded(rs, n)
        BY <2>10 DEF res
    <2> QED
        BY <1>4, <2>12, <2>13 DEF res
<1> QED
    BY <1>2, <1>3, <1>4

\* Marking touches expiries only.
LEMMA MarkExpiryRecords ==
    ASSUME NEW rs, ListOK(rs), NEW target, NEW expires \in Nat
    PROVE  LET new == MarkExpiry(rs, target, expires)
           IN  /\ Top(new) = Top(rs)
               /\ \A m \in Nat \ {0} : Recorded(rs, m) => Recorded(new, m)
<1> DEFINE new == MarkExpiry(rs, target, expires)
<1>1. /\ Len(rs) \in Nat /\ Len(rs) >= 1 /\ DOMAIN rs = 1 .. Len(rs)
      /\ \A k \in DOMAIN rs : rs[k] \in RangeType
    BY ListElements
<1>2. /\ DOMAIN new = DOMAIN rs
      /\ \A k \in DOMAIN rs :
            \/ new[k] = rs[k]
            \/ new[k] = [rs[k] EXCEPT !.expires = At(expires)]
    BY DEF MarkExpiry
<1>3. \A k \in DOMAIN rs : /\ new[k].min = rs[k].min
                           /\ new[k].max = rs[k].max
                           /\ new[k].full = rs[k].full
                           /\ new[k].members = rs[k].members
    BY <1>1, <1>2 DEF RangeType, At
<1>4. ListOK(new)
    BY MarkExpiryChained
<1> HIDE DEF new
<1>5. Len(new) = Len(rs)
    <2>1. DOMAIN new = 1 .. Len(new) /\ Len(new) \in Nat
        BY <1>4, ListElements
    <2> QED BY <1>1, <1>2, <2>1
<1>6. Top(new) = Top(rs)
    <2>1. Len(rs) \in DOMAIN rs
        BY <1>1
    <2> QED BY <1>3, <1>5, <2>1 DEF Top
<1>7. ASSUME NEW m \in Nat \ {0}, Recorded(rs, m) PROVE Recorded(new, m)
    <2>1. PICK k \in DOMAIN rs : Owns(rs, k, m) /\ Holds(rs[k], m)
        BY <1>7, RecordedOwner
    <2>2. Owns(new, k, m) /\ Holds(new[k], m)
        BY <1>3, <1>5, <2>1 DEF Owns, Holds
    <2> QED BY <1>2, <1>4, <2>2, OwnerRecords
<1> QED
    BY <1>6, <1>7 DEF new

\* A collapse stands for more numbers, never for fewer.
LEMMA CheckExpiredRecords ==
    ASSUME NEW rs, ListOK(rs), NEW time \in Nat
    PROVE  LET new == CheckExpired(rs, time)
           IN  /\ Top(new) = Top(rs)
               /\ \A m \in Nat \ {0} : Recorded(rs, m) => Recorded(new, m)
<1> DEFINE k == LastExpired(rs, time)
           r == FullRange(rs[1].min, rs[k].max, At(0))
<1>1. k \in {0} \cup DOMAIN rs
    BY LastExpiredIsLast
<1>2. CASE k = 0
    BY <1>2 DEF CheckExpired
<1>3. CASE k # 0
    <2>1. k \in DOMAIN rs /\ 1 \in DOMAIN rs /\ 1 <= k
        BY <1>1, <1>3, ListElements
    <2> HIDE DEF k
    <2>2. /\ rs[1].min = 1 /\ rs[k].max >= rs[1].min + N - 1
          /\ rs[1].min \in Nat /\ rs[k].max \in Nat
        BY <2>1, ReachesPastFirst, ListElements
    <2>3. /\ r \in RangeType /\ WellFormed(r) /\ r.full
          /\ r.min = rs[1].min /\ r.max = rs[k].max
        <3>1. At(0) \in SUBSET Nat
            BY DEF At
        <3> QED BY <2>2, <3>1, FullRangeWellFormed DEF FullRange
    <2> HIDE DEF r
    <2> QED
        BY <1>3, <2>1, <2>3, SpliceRecords DEF CheckExpired, k, r
<1> QED
    BY <1>2, <1>3

\* The whole call: it answers whether the number was recorded, and what was
\* recorded stays recorded through inserts, merges, growth and expiry, but for
\* the top of a list that grows.
THEOREM NumExistsRecords ==
    ASSUME NEW rs, ListOK(rs), NEW n \in Nat, n >= 1,
           NEW expires \in Nat, NEW time \in Nat
    PROVE  LET answer == NumExists(rs, n, expires, time)
               new    == answer.ranges
           IN  /\ answer.exists <=> Recorded(rs, n)
               /\ answer.exists \in BOOLEAN
               /\ ~Beyond(rs, n) => Top(new) = Top(rs) /\ Recorded(new, n)
               /\ Beyond(rs, n) => Top(new) >= n /\ Top(rs) < n /\ Top(new) \in Nat
               /\ \A m \in Nat \ {0} :
                     Recorded(rs, m) /\ (m = Top(rs) => ~Beyond(rs, n))
                         => Recorded(new, m)
<1> DEFINE a == AddNumRanges(rs, n)
           b == MarkExpiry(a.ranges, a.target, expires)
           c == CheckExpired(b, time)
           new == NumExists(rs, n, expires, time).ranges
<1>1. ListOK(a.ranges) /\ ListOK(b)
    BY AddNumRangesChained, MarkExpiryChained
<1>2. /\ NumExists(rs, n, expires, time).exists = a.exists
      /\ new \in {b, c}
    BY DEF NumExists, AddNum
<1>3. /\ a.exists <=> Recorded(rs, n)
      /\ a.exists \in BOOLEAN
      /\ ~Beyond(rs, n) => Top(a.ranges) = Top(rs) /\ Recorded(a.ranges, n)
      /\ Beyond(rs, n) => /\ Top(a.ranges) >= n /\ Top(rs) < n
                          /\ Top(a.ranges) \in Nat
      /\ \A m \in Nat \ {0} :
            Recorded(rs, m) /\ (m = Top(rs) => ~Beyond(rs, n))
                => Recorded(a.ranges, m)
    BY AddNumRangesRecords
<1> HIDE DEF a
<1>4. /\ Top(b) = Top(a.ranges)
      /\ \A m \in Nat \ {0} : Recorded(a.ranges, m) => Recorded(b, m)
    BY <1>1, MarkExpiryRecords
<1> HIDE DEF b
<1>5. /\ Top(c) = Top(b)
      /\ \A m \in Nat \ {0} : Recorded(b, m) => Recorded(c, m)
    BY <1>1, CheckExpiredRecords
<1> HIDE DEF c, new
<1>6. /\ Top(new) = Top(a.ranges)
      /\ \A m \in Nat \ {0} : Recorded(a.ranges, m) => Recorded(new, m)
    BY <1>2, <1>4, <1>5
<1>7. n \in Nat \ {0}
    OBVIOUS
<1> QED
    BY <1>2, <1>3, <1>6, <1>7 DEF new

-----------------------------------------------------------------------------
(* Full ranges do not stay side by side.                                   *)

\* No two full ranges are neighbours behind the first range.
Apart(rs) ==
    \A k \in 2 .. Len(rs) - 1 : ~(rs[k].full /\ rs[k + 1].full)

\* Neither the number of ranges nor which of them are full changes.
LEMMA SameApart ==
    ASSUME NEW rs, NEW new, Apart(rs), Len(new) = Len(rs), Len(rs) \in Nat,
           \A k \in 1 .. Len(rs) : new[k].full = rs[k].full
    PROVE  Apart(new)
BY DEF Apart

\* A range put in the place of others is apart from its neighbours when the
\* neighbours are not full.
LEMMA SpliceApart ==
    ASSUME NEW rs, ListOK(rs), NEW i \in DOMAIN rs, NEW j \in DOMAIN rs,
           i <= j, NEW r \in RangeType, WellFormed(r),
           r.min = rs[i].min, r.max = rs[j].max,
           \A k \in 2 .. Len(rs) - 1 :
               k + 1 < i \/ k > j => ~(rs[k].full /\ rs[k + 1].full),
           i > 2 => ~rs[i - 1].full,
           i > 1 /\ j < Len(rs) => ~rs[j + 1].full
    PROVE  Apart(Splice(rs, i, j, r))
<1> DEFINE new == Splice(rs, i, j, r)
           d == j - i
<1>1. /\ Len(rs) \in Nat /\ Len(rs) >= 1 /\ DOMAIN rs = 1 .. Len(rs)
      /\ i \in Nat /\ j \in Nat /\ d \in Nat /\ j = i + d
    BY ListElements
<1>2. ListOK(new)
    BY SpliceChained
<1>3. /\ DOMAIN new = 1 .. Len(rs) - d
      /\ Len(rs) - d \in Nat
      /\ \A k \in DOMAIN new :
            new[k] = IF k < i THEN rs[k] ELSE IF k = i THEN r ELSE rs[k + d]
    BY <1>1 DEF Splice
<1> HIDE DEF new, d
<1>4. Len(new) = Len(rs) - d
    <2>1. DOMAIN new = 1 .. Len(new) /\ Len(new) \in Nat
        BY <1>2, ListElements
    <2> QED BY <1>3, <2>1
<1>5. ASSUME NEW k \in 2 .. Len(new) - 1
      PROVE  ~(new[k].full /\ new[k + 1].full)
    <2> DEFINE x == k + 1
    <2>1. /\ k \in DOMAIN new /\ x \in DOMAIN new /\ k \in Nat /\ k >= 2
          /\ x = k + 1 /\ x <= Len(rs) - d
        BY <1>1, <1>3, <1>4
    <2> HIDE DEF x
    <2>2. CASE x < i
        <3>1. new[k] = rs[k] /\ new[x] = rs[x] /\ k \in 2 .. Len(rs) - 1
            BY <1>1, <1>3, <2>1, <2>2
        <3> QED BY <1>1, <2>1, <2>2, <3>1
    <2>3. CASE x = i
        <3>1. new[k] = rs[i - 1] /\ i > 2
            BY <1>1, <1>3, <2>1, <2>3
        <3> QED BY <3>1
    <2>4. CASE k = i
        <3>1. x + d = j + 1 /\ i > 1 /\ j < Len(rs) /\ ~(x < i) /\ x # i
            BY <1>1, <2>1, <2>4
        <3>2. new[x] = rs[j + 1]
            BY <1>3, <2>1, <3>1
        <3> QED BY <2>1, <3>1, <3>2
    <2>5. CASE k > i
        <3> DEFINE y == k + d
        <3>1. /\ x + d = y + 1 /\ y = k + d
              /\ ~(k < i) /\ k # i /\ ~(x < i) /\ x # i
            BY <1>1, <2>1, <2>5
        <3>2. y \in 2 .. Len(rs) - 1 /\ y > j
            BY <1>1, <2>1, <2>5
        <3> HIDE DEF y
        <3>3. ~(rs[y].full /\ rs[y + 1].full)
            BY <3>2
        <3>4. new[k] = rs[y] /\ new[x] = rs[y + 1]
            BY <1>3, <2>1, <3>1
        <3> QED BY <2>1, <3>3, <3>4
    <2> QED
        BY <1>1, <2>1, <2>2, <2>3, <2>4, <2>5
<1> QED
    BY <1>5 DEF Apart, new

\* The ranges that growth pushes are not full.
LEMMA GrowApart ==
    ASSUME NEW rs, ListOK(rs), Apart(rs), NEW n \in Nat, Beyond(rs, n)
    PROVE  Apart(Grow(rs, n))
<1> DEFINE top == rs[Len(rs)].max
           count == (n - top + N - 2) \div (N - 1)
           added == [k \in 1 .. count |-> NewRange(top + (k - 1) * (N - 1))]
           new == rs \o added
<1>1. Len(rs) \in Nat /\ Len(rs) >= 1 /\ DOMAIN rs = 1 .. Len(rs) /\ top \in Nat
    BY ListElements
<1>2. count \in Nat
    BY <1>1, GrowthCount DEF Beyond
<1> HIDE DEF count, top
<1>3. /\ Len(added) = count /\ DOMAIN added = 1 .. count
      /\ \A k \in 1 .. count : ~added[k].full
    BY <1>2 DEF NewRange
<1>4. rs \in Seq(RangeType) /\ added = [k \in 1 .. count |-> added[k]]
    BY <1>3 DEF ListOK, added
<1> HIDE DEF added
<1>5. /\ Len(new) = Len(rs) + count
      /\ \A k \in 1 .. Len(rs) : new[k] = rs[k]
      /\ \A k \in 1 .. count : new[Len(rs) + k] = added[k]
    BY <1>1, <1>2, <1>3, <1>4
<1> HIDE DEF new
<1>6. ASSUME NEW k \in 2 .. Len(new) - 1
      PROVE  ~(new[k].full /\ new[k + 1].full)
    <2>1. CASE k + 1 <= Len(rs)
        BY <1>1, <1>5, <2>1 DEF Apart
    <2>2. CASE k + 1 > Len(rs)
        <3> DEFINE x == k + 1 - Len(rs)
        <3>1. x \in 1 .. count /\ k + 1 = Len(rs) + x
            BY <1>1, <1>2, <1>5, <2>2
        <3> HIDE DEF x
        <3>2. new[k + 1] = added[x]
            BY <1>5, <3>1
        <3> QED BY <1>3, <3>1, <3>2
    <2> QED BY <1>1, <2>1, <2>2
<1> QED
    BY <1>6 DEF Apart, Grow, new, added, count, top

\* A range that joins its full neighbours leaves none beside it.
LEMMA JoinApart ==
    ASSUME NEW rs, ListOK(rs), NEW i \in DOMAIN rs,
           \A k \in 2 .. Len(rs) - 1 :
               k + 1 < i \/ k > i => ~(rs[k].full /\ rs[k + 1].full)
    PROVE  Apart(Join(rs, i))
<1> DEFINE lo == Lo(rs, i)
           hi == Hi(rs, i)
           r  == FullRange(rs[lo].min, rs[hi].max, rs[lo].expires)
<1>1. /\ Len(rs) \in Nat /\ DOMAIN rs = 1 .. Len(rs)
      /\ \A k \in DOMAIN rs : /\ rs[k].min \in Nat
                              /\ rs[k].max \in Nat
                              /\ rs[k].expires \in SUBSET Nat
    BY ListElements
<1>2. /\ lo \in DOMAIN rs /\ hi \in DOMAIN rs /\ lo <= i /\ i <= hi
      /\ lo = i \/ (lo = i - 1 /\ rs[i - 1].full)
      /\ hi = i \/ (hi = i + 1 /\ rs[i + 1].full)
      /\ lo = i /\ i > 1 => ~rs[i - 1].full
      /\ hi = i /\ i < Len(rs) => ~rs[i + 1].full
    BY <1>1 DEF Lo, Hi
<1> HIDE DEF lo, hi
<1>3. lo \in DOMAIN rs /\ hi \in DOMAIN rs
    BY <1>2
<1>4. lo <= hi
    BY <1>1, <1>2
<1>5. rs[lo].min >= 1 /\ rs[hi].max >= rs[lo].min + N - 1
    <2>1. \A k \in DOMAIN rs : /\ rs[k].min >= 1
                               /\ rs[k].max >= rs[k].min + N - 1
        BY DEF ListOK, Chained, WellFormed
    <2>2. CASE lo = hi
        BY <1>2, <2>1, <2>2
    <2>3. CASE lo < hi
        <3>1. rs[lo].max <= rs[hi].min
            BY <1>2, <2>3, ChainedFar
        <3>2. rs[hi].max >= rs[hi].min /\ rs[lo].max >= rs[lo].min + N - 1
            BY <1>1, <1>3, <2>1, WidthAssumption
        <3> QED BY <1>1, <1>3, <2>1, <3>1, <3>2, WidthAssumption
    <2> QED BY <1>1, <1>3, <1>4, <2>2, <2>3
<1>6. /\ r \in RangeType /\ WellFormed(r)
      /\ r.min = rs[lo].min /\ r.max = rs[hi].max
    BY <1>1, <1>2, <1>5, FullRangeWellFormed DEF FullRange
<1> HIDE DEF r
<1>7. lo > 2 => ~rs[lo - 1].full
    <2>1. SUFFICES ASSUME lo > 2, lo = i - 1, rs[i - 1].full
                   PROVE  ~rs[lo - 1].full
        BY <1>1, <1>2
    <2> DEFINE k == lo - 1
    <2>2. k \in 2 .. Len(rs) - 1 /\ k + 1 < i /\ k + 1 = i - 1
        BY <1>1, <1>2, <2>1
    <2> HIDE DEF k
    <2>3. ~(rs[k].full /\ rs[k + 1].full)
        BY <2>2
    <2> QED BY <2>1, <2>2, <2>3 DEF k
<1>8. lo > 1 /\ hi < Len(rs) => ~rs[hi + 1].full
    <2>1. SUFFICES ASSUME lo > 1, hi < Len(rs), hi = i + 1, rs[i + 1].full
                   PROVE  ~rs[hi + 1].full
        BY <1>1, <1>2
    <2>2. hi \in 2 .. Len(rs) - 1 /\ hi > i
        BY <1>1, <1>2, <2>1
    <2> QED BY <2>1, <2>2
<1>9. \A k \in 2 .. Len(rs) - 1 :
          k + 1 < lo \/ k > hi => ~(rs[k].full /\ rs[k + 1].full)
    BY <1>1, <1>2
<1> QED
    BY <1>2, <1>6, <1>7, <1>8, <1>9, <1>4, SpliceApart DEF Join, lo, hi, r

\* add_num_ranges joins whatever it makes full.
LEMMA AddNumRangesApart ==
    ASSUME NEW rs, ListOK(rs), Apart(rs), NEW n \in Nat, n >= 1
    PROVE  Apart(AddNumRanges(rs, n).ranges)
<1> DEFINE i == Target(rs, n)
           placed == Insert(rs[i], n)
           new == [rs EXCEPT ![i] = placed]
<1>1. i \in DOMAIN rs
    BY TargetIsLast
<1>2. CASE Beyond(rs, n)
    BY <1>2, GrowApart DEF AddNumRanges
<1>3. CASE ~Beyond(rs, n) /\ Holds(rs[i], n)
    BY <1>3 DEF AddNumRanges
<1>4. CASE ~Beyond(rs, n) /\ ~Holds(rs[i], n)
    <2>1. n \in rs[i].min .. rs[i].max
        BY <1>4, TargetCovers
    <2>2. rs[i] \in RangeType /\ WellFormed(rs[i]) /\ rs[i].full = FALSE
        BY <1>1, <1>4, ListElements DEF ListOK, Chained, Holds, RangeType
    <2>3. /\ placed \in RangeType /\ WellFormed(placed)
          /\ placed.min = rs[i].min /\ placed.max = rs[i].max
        BY <1>4, <2>1, <2>2, InsertWellFormed DEF Holds
    <2> HIDE DEF placed, i
    <2>4. /\ Len(rs) \in Nat /\ DOMAIN rs = 1 .. Len(rs) /\ rs \in Seq(RangeType)
        BY ListElements DEF ListOK
    <2>5. /\ Len(new) = Len(rs) /\ i \in DOMAIN new
          /\ \A k \in 1 .. Len(rs) : new[k] = IF k = i THEN placed ELSE rs[k]
        BY <1>1, <2>4
    <2>6. ListOK(new)
        BY <1>1, <2>3, ReplaceChained
    <2> HIDE DEF new
    <2>7. CASE ~placed.full
        <3>1. placed.full = rs[i].full
            BY <2>2, <2>3, <2>7 DEF RangeType
        <3>2. Apart(new)
            BY <2>4, <2>5, <3>1, SameApart
        <3> QED BY <1>4, <2>7, <3>2 DEF AddNumRanges, new, placed, i
    <2>8. CASE placed.full
        <3>1. ASSUME NEW k \in 2 .. Len(new) - 1, k + 1 < i \/ k > i
              PROVE  ~(new[k].full /\ new[k + 1].full)
            <4> DEFINE x == k + 1
            <4>1. /\ k \in 1 .. Len(rs) /\ x \in 1 .. Len(rs)
                  /\ k # i /\ x # i /\ x = k + 1
                BY <1>1, <2>4, <2>5, <3>1
            <4>2. ~(rs[k].full /\ rs[k + 1].full)
                BY <2>5, <3>1 DEF Apart
            <4> HIDE DEF x
            <4>3. new[k] = rs[k] /\ new[x] = rs[x]
                BY <2>5, <4>1
            <4> QED BY <4>1, <4>2, <4>3
        <3>2. Apart(Join(new, i))
            BY <2>5, <2>6, <3>1, JoinApart
        <3> QED BY <1>4, <2>8, <3>2 DEF AddNumRanges, new, placed, i
    <2> QED BY <2>7, <2>8
<1> QED
    BY <1>2, <1>3, <1>4

\* A collapse at the front makes a first range, which may have any neighbour.
LEMMA CheckExpiredApart ==
    ASSUME NEW rs, ListOK(rs), Apart(rs), NEW time \in Nat
    PROVE  Apart(CheckExpired(rs, time))
<1> DEFINE k == LastExpired(rs, time)
           r == FullRange(rs[1].min, rs[k].max, At(0))
<1>1. k \in {0} \cup DOMAIN rs
    BY LastExpiredIsLast
<1>2. CASE k = 0
    BY <1>2 DEF CheckExpired
<1>3. CASE k # 0
    <2>1. k \in DOMAIN rs /\ 1 \in DOMAIN rs /\ 1 <= k
        BY <1>1, <1>3, ListElements
    <2> HIDE DEF k
    <2>2. /\ rs[1].min = 1 /\ rs[k].max >= rs[1].min + N - 1
          /\ rs[1].min \in Nat /\ rs[k].max \in Nat
        BY <2>1, ReachesPastFirst, ListElements
    <2>3. /\ r \in RangeType /\ WellFormed(r)
          /\ r.min = rs[1].min /\ r.max = rs[k].max
        <3>1. At(0) \in SUBSET Nat
            BY DEF At
        <3> QED BY <2>2, <3>1, FullRangeWellFormed DEF FullRange
    <2> HIDE DEF r
    <2>4. Apart(Splice(rs, 1, k, r))
        BY <2>1, <2>3, SpliceApart DEF Apart
    <2> QED
        BY <1>3, <2>4 DEF CheckExpired, k, r
<1> QED
    BY <1>2, <1>3

\* The list keeps its full ranges apart: as many as are used up in a row cost
\* one range.
THEOREM NumExistsApart ==
    ASSUME NEW rs, ListOK(rs), Apart(rs), NEW n \in Nat, n >= 1,
           NEW expires \in Nat, NEW time \in Nat
    PROVE  Apart(NumExists(rs, n, expires, time).ranges)
<1> DEFINE a == AddNumRanges(rs, n)
           b == MarkExpiry(a.ranges, a.target, expires)
<1>1. ListOK(a.ranges) /\ ListOK(b) /\ Apart(a.ranges)
    BY AddNumRangesChained, AddNumRangesApart, MarkExpiryChained
<1>2. Apart(b)
    <2> HIDE DEF a
    <2>1. /\ DOMAIN a.ranges = 1 .. Len(a.ranges) /\ Len(a.ranges) \in Nat
          /\ DOMAIN b = 1 .. Len(b) /\ Len(b) \in Nat
          /\ \A k \in DOMAIN a.ranges : a.ranges[k] \in RangeType
        BY <1>1, ListElements
    <2>2. /\ DOMAIN b = DOMAIN a.ranges
          /\ \A k \in DOMAIN a.ranges : b[k].full = a.ranges[k].full
        BY <2>1 DEF MarkExpiry, RangeType
    <2> HIDE DEF b
    <2>3. Len(b) = Len(a.ranges)
        BY <2>1, <2>2
    <2> QED BY <1>1, <2>1, <2>2, <2>3, SameApart
<1> HIDE DEF b
<1>3. Apart(CheckExpired(b, time))
    BY <1>1, <1>2, CheckExpiredApart
<1>4. NumExists(rs, n, expires, time).ranges \in {b, CheckExpired(b, time)}
    BY DEF NumExists, AddNum, a, b
<1> QED
    BY <1>2, <1>3, <1>4

=============================================================================
