----------------------------- MODULE Directory -----------------------------
(***************************************************************************)
(* The tables users and claims of an application (tiauth-core/src/store.rs)*)
(* and what is read from them: the list of users for an administrator      *)
(* (ops/admin.rs) and the claims for a session.  A reader works in one     *)
(* transaction, so that it sees one pair of tables; what writers change    *)
(* between transactions is the business of the actions.                    *)
(***************************************************************************)
EXTENDS Claims, Proofs

CONSTANTS Ids,              \* user ids: numbers, ordered as strings are
          ClaimsFor,        \* the claims that are tried for each user
          NoClaims,         \* no row in the table of claims
          Hidden            \* a password file that is not included

ASSUME IdsAssumption == Ids \subseteq Nat /\ IsFiniteSet(Ids)
ASSUME ClaimsAssumption ==
    \A id \in Ids : \A new \in ClaimsFor[id] :
        /\ new # NoClaims
        /\ Len(new) \in Nat
        /\ new = [i \in 1..Len(new) |-> Claim(new[i].key, new[i].value)]
        /\ \A i \in 1..Len(new) : new[i].key \in Nat

VARIABLES users,            \* the table users: the ids that have a row
          claims            \* the table claims

directoryVars == <<users, claims>>

DirectoryTypeOK ==
    /\ users \subseteq Ids
    /\ DOMAIN claims = Ids
    /\ \A id \in Ids : claims[id] # NoClaims => AscendingClaims(claims[id])

DirectoryInit == users = {} /\ claims = [id \in Ids |-> NoClaims]

\* users::user_change_ephemeral, when the user is new.
Register(id) ==
    /\ id \notin users
    /\ users' = users \cup {id}
    /\ UNCHANGED claims

\* user_set_claims behind the check of its proof: ascending claims of one
\* target are stored, whether the user exists or not.
SetClaims(id, new) ==
    /\ AscendingClaims(new)
    /\ claims' = [claims EXCEPT ![id] = new]
    /\ UNCHANGED users

DirectoryNext == \E id \in Ids :
            \/ Register(id)
            \/ \E new \in ClaimsFor[id] : SetClaims(id, new)

DirectorySpec == DirectoryInit /\ [][DirectoryNext]_directoryVars

(***************************************************************************)
(* get_login_claims_bytes: the claims for a session                        *)
(***************************************************************************)
StoredClaims(id) == IF claims[id] = NoClaims THEN <<>> ELSE claims[id]

LoginClaims(id, request) ==
    IF claims[id] = NoClaims THEN Result(<<>>, request.keys)
    ELSE IF request.all THEN Result(claims[id], <<>>)
    ELSE Subset(claims[id], request.keys)

\* check_session on a session that was made with these claims: it refuses
\* claims that are out of order.
CheckSession(answer) == IF AscendingClaims(answer.found) THEN {answer.found} ELSE {}

(***************************************************************************)
(* select_users and select_claims, which differ in the table only.  A      *)
(* target is what a proof is about, with its list of user ids.             *)
(***************************************************************************)
Rows(ids) ==        \* ordered by their key
    CHOOSE rows \in [1..Cardinality(ids) -> ids] :
        \A i, j \in DOMAIN rows : i < j => rows[i] < rows[j]

\* The rows that the transaction iterates over.
InReachExclusive(ids, target) ==    \* mutant: an exclusive end
    IF target.target = "all" THEN Rows(ids)
    ELSE Rows({id \in ids : Head(target.list) <= id /\ id < Last(target.list)})
InReach(ids, target) ==
    IF target.target = "all" THEN Rows(ids)
    ELSE Rows({id \in ids : Head(target.list) <= id /\ id <= Last(target.list)})

\* One turn of the loop over the rows: next is sel_i.
SelectOneAdvance(scan, row, selection) ==   \* mutant: every row advances
    IF ~ scan.sorted \/ scan.next > Len(selection) THEN scan
    ELSE [scan EXCEPT !.next = @ + 1,
                      !.out = IF row = selection[scan.next] THEN Append(@, row) ELSE @]
SelectOne(scan, row, selection) ==
    IF ~ scan.sorted \/ scan.next > Len(selection) THEN scan
    ELSE IF scan.next > 1 /\ selection[scan.next - 1] > selection[scan.next]
         THEN [scan EXCEPT !.sorted = FALSE]
    ELSE IF row # selection[scan.next] THEN scan
    ELSE [scan EXCEPT !.next = @ + 1, !.out = Append(@, row)]

\* The ids in the answer, and whether the target was found to be sorted.
SelectRows(ids, target) ==
    IF target.target # "all" /\ Head(target.list) > Last(target.list)
    THEN [sorted |-> FALSE, out |-> <<>>]
    ELSE IF target.target = "select"
    THEN LET scan == FoldLeft(LAMBDA s, row : SelectOne(s, row, target.list),
                              [sorted |-> TRUE, next |-> 1, out |-> <<>>],
                              InReach(ids, target))
         IN  [sorted |-> scan.sorted, out |-> scan.out]
    ELSE [sorted |-> TRUE, out |-> InReach(ids, target)]

Holders == {id \in Ids : claims[id] # NoClaims}

\* The answer of get_users_bytes behind the check of its proof.
Invalid == [is |-> "Invalid", list |-> <<>>]
Unsorted == [is |-> "Unsorted", list |-> <<>>]
Orphan == [is |-> "Orphan", list |-> <<>>]      \* the panic on claims without a user
UserList(list) == [is |-> "UserList", list |-> list]

User(id, with, include_password) ==
    [user_id       |-> id,
     password_file |-> IF include_password THEN id ELSE Hidden,
     claims        |-> IF with THEN claims[id] ELSE NoClaims]

GetUsers(target, include_claims, include_password) ==
    LET selected == SelectRows(users, target)
        held     == SelectRows(Holders, target)
        joined   == ToSet(held.out)
    IN  IF ~ValidAny({"read_users"}, target) THEN Invalid
        ELSE IF ~ selected.sorted THEN Unsorted
        ELSE IF ~ include_claims
        THEN UserList([i \in DOMAIN selected.out |-> User(selected.out[i], FALSE, include_password)])
        ELSE IF ~ held.sorted THEN Unsorted
        ELSE IF ~ joined \subseteq ToSet(selected.out) THEN Orphan
        ELSE UserList([i \in DOMAIN selected.out |->
                          User(selected.out[i], selected.out[i] \in joined, include_password)])
-----------------------------------------------------------------------------
(***************************************************************************)
(* Properties.  The queries and edits are tried in every reachable state.  *)
(***************************************************************************)
CONSTANTS Lists,            \* lists of claim keys that a login can ask for
          Queries           \* targets of administrators

ASSUME ListsAssumption == Lists \subseteq Seq(Nat)
ASSUME QueriesAssumption ==
    Queries \subseteq [action : ActionTypes, target : Targets, list : Seq(Nat)]

\* What a login can ask for: a flag or none, a list of keys or none.
Flags == {{}, {TRUE}, {FALSE}}
Requests ==
    UNION {UNION {FromOptions(all, requested) : requested \in {{}} \cup {{keys} : keys \in Lists}} :
               all \in Flags}

Stored == {claims[id] : id \in Holders}

\* The claims of a session.  What a login finds was stored and requested, and
\* no stored claim is found twice.  When the keys are requested in ascending
\* order, each once, what is reported missing is missing (data.rs:626), and if
\* all of them are stored, each is found.  A session for all claims, or for one
\* key, gets past check_session with what was found.
SubsetsAgree ==
    \A id \in Ids, request \in Requests :
        LET stored == StoredClaims(id)
            answer == LoginClaims(id, request)
            wanted == {stored[i] : i \in {j \in DOMAIN stored :
                                             request.all \/ stored[j].key \in ToSet(request.keys)}}
        IN  /\ ToSet(answer.found) \subseteq wanted
            /\ IsInjective(stored) => IsInjective(answer.found)
            /\ request.all => answer.found = stored
            /\ Ascending(request.keys) /\ IsInjective(request.keys) =>
                   /\ ToSet(answer.missing) \cap KeysOf(stored) = {}
                   /\ ToSet(request.keys) \subseteq KeysOf(stored) =>
                          ToSet(request.keys) \subseteq KeysOf(answer.found)
            /\ (request.all \/ Len(request.keys) = 1) => CheckSession(answer) = {answer.found}

\* Edits are edits of a map, also where keys repeat.  Adding puts the last claim
\* of each key there and leaves the other keys alone; it refuses if anything is
\* there, or given twice.  Removing takes nothing but the keys given up to the
\* first that is not there.  Where each key is stored once, nothing else is left
\* of what was overridden; where each is given once as well, nothing of what was
\* removed.  The order that the searches rely on is kept (data.rs:525, data.rs:559).
EditsAgree ==
    \A stored, other \in Stored :
        LET keys   == [i \in DOMAIN other |-> other[i].key]
            once   == IsInjective([i \in DOMAIN stored |-> stored[i].key])
            added  == AddClaims(stored, other, TRUE)
            strict == AddClaims(stored, other, FALSE)
            left   == RemoveClaims(stored, keys)
            newest == {other[i] : i \in {j \in DOMAIN other :
                           \A k \in DOMAIN other : j < k => other[k].key # other[j].key}}
            alone  == {c \in ToSet(stored) : c.key \notin KeysOf(other)}
            met    == {i \in DOMAIN keys : \A j \in 1..i : keys[j] \in KeysOf(stored)}
            gone   == {keys[i] : i \in met}
            kept   == {c \in ToSet(stored) : c.key \notin gone}
        IN  /\ added.ok /\ AscendingClaims(added.claims)
            /\ newest \cup alone \subseteq ToSet(added.claims)
            /\ ToSet(added.claims) \subseteq ToSet(stored) \cup ToSet(other)
            /\ once => ToSet(added.claims) = newest \cup alone
            /\ IF KeysOf(other) \cap KeysOf(stored) = {} /\ IsInjective(keys)
               THEN strict = added ELSE ~ strict.ok
            /\ left.ok /\ AscendingClaims(left.claims)
            /\ kept \subseteq ToSet(left.claims) /\ ToSet(left.claims) \subseteq ToSet(stored)
            /\ once /\ IsInjective(keys) => ToSet(left.claims) = kept

\* A list of all users or of a range shows each user of it once and in order,
\* with the claims of that user; it panics if and only if claims of the range
\* have no user (admin.rs:151).
ListsMatchTables ==
    \A target \in Queries :
        LET answer == GetUsers(target, TRUE, TRUE)
            inside == IF target.target = "all" THEN Ids ELSE Head(target.list)..Last(target.list)
        IN  (ValidAny({"read_users"}, target) /\ target.target # "select" /\ inside # {}) =>
                /\ (answer.is = "Orphan") <=> ~ (Holders \cap inside \subseteq users)
                /\ (answer.is = "UserList") =>
                       answer.list = [i \in 1..Cardinality(users \cap inside) |->
                           LET id == Rows(users \cap inside)[i]
                           IN  [user_id |-> id, password_file |-> id, claims |-> claims[id]]]

\* A selection in ascending order answers with its users up to the first that
\* does not exist, and shows claims up to the first that has none; a selection in
\* any order answers with nobody it does not name, with nobody twice, and never
\* with the claims of another (admin.rs:99).
SelectionsArePrefixes ==
    \A target \in Queries :
        LET answer == GetUsers(target, TRUE, FALSE)
            plain  == GetUsers(target, FALSE, FALSE)
            upTo(S) == SubSeq(target.list, 1,
                           Cardinality({i \in DOMAIN target.list :
                                            \A j \in 1..i : target.list[j] \in S}))
            ids(reply) == [i \in DOMAIN reply.list |-> reply.list[i].user_id]
        IN  (ValidAny({"read_users"}, target) /\ target.target = "select") =>
                /\ ToSet(ids(plain)) \subseteq ToSet(target.list) \cap users
                /\ IsInjective(ids(plain))
                /\ answer.is = "UserList" =>
                       /\ ids(answer) = ids(plain)
                       /\ \A i \in DOMAIN answer.list :
                              answer.list[i].claims \in {NoClaims, claims[answer.list[i].user_id]}
                /\ (\A i, j \in DOMAIN target.list : i < j => target.list[i] < target.list[j]) =>
                       /\ ids(plain) = upTo(users)
                       /\ answer.is = "Orphan" <=> ~ (ToSet(upTo(Holders)) \subseteq users)
                       /\ answer.is = "UserList" =>
                              \A i \in DOMAIN answer.list :
                                  answer.list[i].claims # NoClaims
                                      <=> answer.list[i].user_id \in ToSet(upTo(Holders))
=============================================================================
