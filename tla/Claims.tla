------------------------------- MODULE Claims -------------------------------
(***************************************************************************)
(* The claims of a user (tiauth-core/src/data.rs): Claims and ClaimsView,  *)
(* a sequence of keys in ascending order with their values, the edits of   *)
(* it, and the two ways to pick a requested subset.  Keys are numbers, so  *)
(* that they have an order; a value is anything.  Keys may repeat: what    *)
(* checks the order accepts equal neighbours.  A binary search is          *)
(* described by what it finds in an ascending sequence: of equal keys, any *)
(* one.                                                                    *)
(***************************************************************************)
EXTENDS Integers, Sequences, FiniteSets, SequencesExt

\* Claims and ClaimsView: the two vectors keys and values, zipped.
Claim(key, value) == [key |-> key, value |-> value]

KeysOf(claims) == {claims[i].key : i \in DOMAIN claims}

Ascending(keys) == \A i, j \in DOMAIN keys : i < j => keys[i] <= keys[j]

\* The check of to_claims_sorted and, for the keys to remove, of remove_claims.
AscendingClaims(claims) == Ascending([i \in DOMAIN claims |-> claims[i].key])

\* The place where a binary search that does not find the key would put it.
Place(claims, key) ==
    1 + Cardinality({i \in DOMAIN claims : claims[i].key < key})

InsertAfter(claims, claim) ==     \* mutant: one place too far
    InsertAt(claims, 1 + Min({Len(claims), Place(claims, claim.key)}), claim)
Insert(claims, claim) == InsertAt(claims, Place(claims, claim.key), claim)

\* Claims::new: sorted by key; claims of one key keep their order.
New(pairs) ==
    LET after(claims, key) == 1 + Cardinality({i \in DOMAIN claims : claims[i].key <= key})
        put(claims, claim) == InsertAt(claims, after(claims, claim.key), claim)
    IN  FoldLeft(put, <<>>, pairs)

\* SessionClaims: every claim, or those of a list.
All == [all |-> TRUE, keys |-> <<>>]
Some(keys) == [all |-> FALSE, keys |-> keys]

\* SessionClaims::from_options: a flag that may be absent, a list that may be
\* absent; the answer is a set because both together are an error.
FromOptions(all_claims, requested) ==
    IF requested # {}
    THEN IF TRUE \in all_claims THEN {} ELSE {Some(keys) : keys \in requested}
    ELSE IF TRUE \in all_claims THEN {All} ELSE {Some(<<>>)}

(***************************************************************************)
(* Edits: add_claims, remove_claims                                        *)
(***************************************************************************)

\* An edit fails (ok is false) or answers with new claims.
Failed == [ok |-> FALSE, claims |-> <<>>]
Edited(claims) == [ok |-> TRUE, claims |-> claims]

\* The place of the key that a binary search finds.
Match(claims, key) == CHOOSE i \in DOMAIN claims : claims[i].key = key

\* One turn of the loop of add_claims: of claims of one key, one is overridden.
AddOne(edit, claim, exists_ok) ==
    IF ~ edit.ok THEN edit
    ELSE IF claim.key \notin KeysOf(edit.claims) THEN Edited(Insert(edit.claims, claim))
    ELSE IF exists_ok
         THEN Edited([edit.claims EXCEPT ![Match(edit.claims, claim.key)] = claim])
    ELSE Failed

AddClaims(self, claims, exists_ok) ==
    IF ~ AscendingClaims(self) THEN Failed
    ELSE FoldLeft(LAMBDA edit, claim : AddOne(edit, claim, exists_ok), Edited(self), claims)

\* One turn of the loop of remove_claims: next is the key looked for.  It moves
\* on only when it is met, and stays at the last key.
RemoveOne(scan, claim, keys) ==
    IF ~ scan.ok THEN scan
    ELSE IF claim.key # keys[scan.next] THEN [scan EXCEPT !.claims = Append(@, claim)]
    ELSE IF scan.next = Len(keys) THEN scan
    ELSE [scan EXCEPT !.next = @ + 1, !.ok = keys[scan.next] <= keys[scan.next + 1]]

RemoveClaims(self, keys) ==
    IF keys = <<>> THEN IF AscendingClaims(self) THEN Edited(self) ELSE Failed
    ELSE LET scan == FoldLeft(LAMBDA s, claim : RemoveOne(s, claim, keys),
                              [ok |-> TRUE, next |-> 1, claims |-> <<>>], self)
         IN  IF scan.ok THEN Edited(scan.claims) ELSE Failed

(***************************************************************************)
(* Subsets: what was found, in the order of the calls, and what was not    *)
(***************************************************************************)
Result(found, missing) == [found |-> found, missing |-> missing]
Nothing == Result(<<>>, <<>>)
Found(claim) == Result(<<claim>>, <<>>)
NotFound(key) == Result(<<>>, <<key>>)
Joined(r, s) == Result(r.found \o s.found, r.missing \o s.missing)

\* One turn of the loop of subset_linear over the claims: next is the requested
\* key looked for.  A key that was passed by is reported, and stays the one
\* looked for.
LinearOne(scan, claim, subset) ==
    IF scan.next > Len(subset) THEN scan
    ELSE IF claim.key = subset[scan.next]
         THEN [next |-> scan.next + 1, result |-> Joined(scan.result, Found(claim))]
    ELSE IF claim.key > subset[scan.next]
         THEN [scan EXCEPT !.result = Joined(@, NotFound(subset[scan.next]))]
    ELSE scan

SubsetLinear(claims, subset) ==
    FoldLeft(LAMBDA scan, claim : LinearOne(scan, claim, subset),
             [next |-> 1, result |-> Nothing], claims).result

\* The hit of binary_search_in_range.
HitsExclusive(claims, key, left, right) ==      \* mutant: the last one is left out
    {k \in left..(right - 1) : claims[k].key = key}
Hits(claims, key, left, right) == {k \in left..right : claims[k].key = key}

\* The queue of subset_binary_split: n requested keys, from the one at `from`
\* on, are looked for among the claims left..right.
Tasks(claims, subset) ==
    {task \in [n : 0..Len(subset), from : 1..(Len(subset) + 1),
               left : 1..(Len(claims) + 1), right : 0..Len(claims)] :
         task.from + task.n <= Len(subset) + 1}

Task(n, from, left, right) == [n |-> n, from |-> from, left |-> left, right |-> right]

\* One turn of its loop, with what is answered to the tasks it pushes: the
\* middle of the requested keys splits the claims.  The queue is a stack, so the
\* right part is answered before the left one; a middle that is missing ends
\* both parts.
SplitOne(split, task, claims, subset) ==
    LET half   == task.n \div 2
        middle == task.from + half
        hits   == Hits(claims, subset[middle], task.left, task.right)
    IN  IF task.n = 0 THEN Nothing
        ELSE IF hits = {} THEN NotFound(subset[middle])
        ELSE LET k == CHOOSE hit \in hits : TRUE
             IN  Joined(Joined(Found(claims[k]),
                               split[Task(task.n - half - 1, middle + 1, k + 1, task.right)]),
                        split[Task(half, task.from, task.left, k - 1)])

SubsetBinarySplit(claims, subset) ==
    LET split[task \in Tasks(claims, subset)] == SplitOne(split, task, claims, subset)
    IN  split[Task(Len(subset), 1, 1, Len(claims))]

\* The estimate log2(n) * k / 2 > n, without the logarithm.
PrefersLinear(claims, subset) ==
    Len(claims) > 0 /\ Len(claims)^Len(subset) > 4^Len(claims)

\* subset_vec, subset_serialize
Subset(claims, subset) ==
    IF PrefersLinear(claims, subset)
    THEN SubsetLinear(claims, subset)
    ELSE SubsetBinarySplit(claims, subset)
=============================================================================
