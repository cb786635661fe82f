---------------------------- MODULE MCDirectory ----------------------------
(* Bounds for TLC. *)
EXTENDS Directory

\* Lists of five keys without repeats, and short ones with them.
MCKeys == 1..5
Repeating == UNION {[1..n -> MCKeys] : n \in 2..3}
MCLists == Repeating \cup {keys \in UNION {[1..n -> MCKeys] : n \in 0..5} : IsInjective(keys)}

\* Claims for all of these that ascend for the first user, few for the others.
\* The values say where a claim came from, so that claims of one key differ.
MCIds == 1..4

Keyed(keys, v) == [i \in DOMAIN keys |-> Claim(keys[i], v + i)]

MCClaimsFor ==
    [id \in MCIds |->
        IF id = 1 THEN {Keyed(keys, 10) : keys \in {k \in MCLists : Ascending(k)}}
        ELSE IF id = 2 THEN {Keyed(keys, 20) : keys \in {<<2, 3, 5>>, <<2, 2, 5>>, <<2, 1>>}}
        ELSE IF id = 3 THEN {<<>>}
        ELSE {}]

MCQueries ==
    [action : {"read_users", "set_claims"}, target : Targets,
     list : UNION {[1..n -> MCIds] : n \in 0..3}]
=============================================================================
