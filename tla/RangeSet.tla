------------------------------ MODULE RangeSet ------------------------------
(***************************************************************************)
(* The range list of tiauth-core/src/counter.rs (CompactSetRange) as a     *)
(* library of constant operators: a list of ranges goes in, the list the   *)
(* function leaves behind and its answer come out.                         *)
(*                                                                         *)
(* A range covers the numbers min..max.  It either names the numbers it    *)
(* has seen (members) or is full, and then stands for all of them.  In the *)
(* code the members are N one-byte offsets filled from the left and a full *)
(* range drops the array; only the set of numbers matters here.  An Expiry *)
(* is a set: At(e) holds e, Unknown is empty.                              *)
(***************************************************************************)
EXTENDS Integers, Sequences, FiniteSets, FiniteSetsExt

CONSTANTS
    N,          \* numbers per fresh range (the const generic N, 64 in use)
    CheckEvery  \* expiry is checked on numbers divisible by this (4)

ASSUME WidthAssumption == N \in Nat /\ N >= 2
ASSUME CheckAssumption == CheckEvery \in Nat \ {0}

Unknown == {}
At(e) == {e}

RangeType == [full : BOOLEAN, members : SUBSET Nat, min : Nat, max : Nat,
              expires : SUBSET Nat]

NewRange(min) ==
    [full |-> FALSE, members |-> {}, min |-> min, max |-> min + N - 1,
     expires |-> Unknown]

FullRange(min, max, expires) ==
    [full |-> TRUE, members |-> {}, min |-> min, max |-> max,
     expires |-> expires]

-----------------------------------------------------------------------------
(* One range.                                                              *)

\* Mutant: a full range forgets that it stands for all its numbers.
HoldsMembers(r, n) == n \in r.members

Holds(r, n) == r.full \/ n \in r.members

\* Mutant: the number before the last one makes the range full.
InsertEarly(r, n) ==
    IF Cardinality(r.members) = N - 2
    THEN [r EXCEPT !.full = TRUE, !.members = {}]
    ELSE [r EXCEPT !.members = @ \cup {n}]

\* The N-th distinct number makes the range full instead of being stored.
Insert(r, n) ==
    IF Cardinality(r.members) = N - 1
    THEN [r EXCEPT !.full = TRUE, !.members = {}]
    ELSE [r EXCEPT !.members = @ \cup {n}]

\* Whether the range's expiry is known and not after t.
Expired(r, t) == \E e \in r.expires : e <= t

-----------------------------------------------------------------------------
(* The list.                                                               *)

\* Mutant: the last of the replaced elements stays.
SpliceExclusive(s, i, j, r) ==
    [k \in 1 .. Len(s) - (j - i) |->
        IF k < i THEN s[k] ELSE IF k = i THEN r
        ELSE s[k + (IF j > i THEN j - i - 1 ELSE 0)]]

\* s with its elements i..j replaced by the single element r.
Splice(s, i, j, r) ==
    [k \in 1 .. Len(s) - (j - i) |->
        IF k < i THEN s[k] ELSE IF k = i THEN r ELSE s[k + (j - i)]]

\* The range a number belongs to: the last one that starts at or before it.
Target(rs, n) == Max({i \in DOMAIN rs : rs[i].min <= n})

Beyond(rs, n) == n > rs[Len(rs)].max

\* Ranges are pushed until one reaches n.  Each starts at the maximum of the
\* one before it, so it adds N - 1 numbers.
Grow(rs, n) ==
    LET top   == rs[Len(rs)].max
        count == (n - top + N - 2) \div (N - 1)
    IN  rs \o [k \in 1 .. count |-> NewRange(top + (k - 1) * (N - 1))]

\* Mutant: a range that became full does not look to its left.
LoAlone(rs, i) == i

\* A range that became full joins the full ranges on its sides.
Lo(rs, i) == IF i > 1 /\ rs[i - 1].full THEN i - 1 ELSE i
Hi(rs, i) == IF i < Len(rs) /\ rs[i + 1].full THEN i + 1 ELSE i

Join(rs, i) ==
    LET lo == Lo(rs, i)
        hi == Hi(rs, i)
    IN  Splice(rs, lo, hi, FullRange(rs[lo].min, rs[hi].max, rs[lo].expires))

\* add_num_ranges: the list, the index of the range n went to, and whether n
\* was there already.  A number beyond the list only makes the list grow.
AddNumRanges(rs, n) ==
    LET i      == Target(rs, n)
        placed == Insert(rs[i], n)
    IN  IF Beyond(rs, n)
        THEN [ranges |-> Grow(rs, n), target |-> Len(Grow(rs, n)),
              exists |-> FALSE]
        ELSE IF Holds(rs[i], n)
        THEN [ranges |-> rs, target |-> i, exists |-> TRUE]
        ELSE IF placed.full
        THEN [ranges |-> Join([rs EXCEPT ![i] = placed], i),
              target |-> Lo(rs, i), exists |-> FALSE]
        ELSE [ranges |-> [rs EXCEPT ![i] = placed], target |-> i,
              exists |-> FALSE]

\* Mutant: earlier marks are overwritten.
MarkAll(rs, target, expires) ==
    [i \in DOMAIN rs |->
        IF i < target THEN [rs[i] EXCEPT !.expires = At(expires)] ELSE rs[i]]

\* add_num: every range before the target that is not known to expire by
\* then is given the expiry of the number.  (The code finds the first such
\* range by binary search on the sorted expiries and writes up to target.)
MarkExpiry(rs, target, expires) ==
    [i \in DOMAIN rs |->
        IF i < target /\ ~Expired(rs[i], expires)
        THEN [rs[i] EXCEPT !.expires = At(expires)]
        ELSE rs[i]]

AddNum(rs, n, expires) ==
    LET a == AddNumRanges(rs, n)
    IN  [ranges |-> MarkExpiry(a.ranges, a.target, expires),
         exists |-> a.exists]

\* The position of the last range that has expired, 0 if none has.
LastExpired(rs, time) == Max({0} \cup {i \in DOMAIN rs : Expired(rs[i], time)})

\* The expired ranges at the front collapse into one full range.
CheckExpired(rs, time) ==
    LET k == LastExpired(rs, time)
    IN  IF k = 0 THEN rs
        ELSE Splice(rs, 1, k, FullRange(rs[1].min, rs[k].max, At(0)))

\* Mutant: the expiry of the number and the time are swapped.
NumExistsSwapped(rs, n, expires, time) ==
    LET a == AddNum(rs, n, time)
    IN  [ranges |-> IF n % CheckEvery = 0
                    THEN CheckExpired(a.ranges, expires) ELSE a.ranges,
         exists |-> a.exists]

\* CompactSet::num_exists with the time known, as every caller passes it.
NumExists(rs, n, expires, time) ==
    LET a == AddNum(rs, n, expires)
    IN  [ranges |-> IF n % CheckEvery = 0
                    THEN CheckExpired(a.ranges, time) ELSE a.ranges,
         exists |-> a.exists]

EmptyRanges == <<NewRange(1)>>

\* Whether a number is known to the list: what num_exists would answer.
Recorded(rs, n) == ~Beyond(rs, n) /\ Holds(rs[Target(rs, n)], n)

-----------------------------------------------------------------------------
(* What the functions above take for granted about the list.               *)

\* A range covers at least N numbers; one that is not full covers exactly N,
\* names only numbers it covers and has room for one more.
WellFormed(r) ==
    /\ r.min >= 1
    /\ r.max >= r.min + N - 1
    /\ ~r.full => /\ r.max = r.min + N - 1
                  /\ r.members \subseteq r.min .. r.max
                  /\ Cardinality(r.members) < N

\* The list starts at 1 and each range starts where the one before it ends.
Chained(rs) ==
    /\ rs # <<>>
    /\ rs[1].min = 1
    /\ \A i \in DOMAIN rs : /\ WellFormed(rs[i])
                            /\ i > 1 => rs[i].min = rs[i - 1].max

\* Known expiries come first and do not decrease along the list.
SortedByExpiry(rs) ==
    \A i \in DOMAIN rs : i > 1 =>
        \A e \in rs[i].expires : \E d \in rs[i - 1].expires : d <= e

=============================================================================
