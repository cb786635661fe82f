------------------------------ MODULE GitRefs ------------------------------
(***************************************************************************)
(* What the sync client of borink-git-derive makes of a remote             *)
(* (borink-git/src/git_call.rs, borink-git-derive/src/client.rs).  The     *)
(* names a remote has are numbered in their alphabetical order: an even    *)
(* number is a ref, and the odd number after it the name of that ref with  *)
(* "^{}" at its end, by which `git ls-remote` gives the commit an          *)
(* annotated tag stands for.                                               *)
(***************************************************************************)
EXTENDS Integers, FiniteSets, SequencesExt

Peeled(name) == name % 2 = 1

Line(name, sha) == [name |-> name, sha |-> sha]

\* The lines `git ls-remote` prints, in any order: one for each ref, and one
\* more for each that is a tag object.
Lines(refs, peel) ==
    {Line(n, refs[n]) : n \in DOMAIN refs}
    \cup {Line(n + 1, peel[refs[n]]) :
             n \in {m \in DOMAIN refs : refs[m] \in DOMAIN peel}}

ByName(lines) == SetToSortSeq(lines, LAMBDA a, b : a.name < b.name)

\* A peeled name lends its commit to the ref before, any other follows it.
Take(acc, r) ==
    IF Peeled(r.name) /\ r.name = acc.current.name + 1
    THEN [acc EXCEPT !.current.sha = r.sha]
    ELSE [current |-> r, out |-> Append(acc.out, acc.current)]

\* ls_remote: the list is reversed to pop the first name from its end, and the
\* rest is gone through from the front, so from the last name down.
LsRemote(lines) ==
    LET refs == ByName(lines)
        last == FoldLeft(Take, [current |-> Head(refs), out |-> <<>>],
                         Reverse(Tail(refs)))
    IN  IF lines = {} THEN <<>> ELSE Append(last.out, last.current)

\* sync_reqs: each ref is sent under its name, and under the name without
\* refs/heads/ or refs/tags/ if it has such a prefix.
Requests(found, short) ==
    FlattenSeq([i \in DOMAIN found |->
        IF found[i].name \in DOMAIN short
        THEN <<found[i], Line(short[found[i].name], found[i].sha)>>
        ELSE <<found[i]>>])

=============================================================================
