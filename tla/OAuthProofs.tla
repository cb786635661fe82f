---------------------------- MODULE OAuthProofs ----------------------------
(***************************************************************************)
(* Theorems about OAuth for every set of users, applications, flows and    *)
(* concurrent requests, every period and all bounds: who gets tokens, that *)
(* a family of refresh tokens never splits, and when it ends.              *)
(***************************************************************************)
EXTENDS OAuth, TLAPS

-----------------------------------------------------------------------------
(* The inductive invariant.                                                *)

KeyNames == {None, Token} \cup Handlers

RowSet == [family : Nat, access : [sub : Names], iat : Nat, exp : Nat,
           nonce : Nat]

\* The stages of a token request.
Families ==
    [op : {"create", "family"}, user : Names, verifier : Verifiers,
     id : {0, Token, Symmetric}, key : KeyNames, now : Nat]
Replaces == [op : {"replace"}, id : Nat, key : KeyNames, old : RowSet, now : Nat]
Reuses == [op : {"reuse"}, family : Nat]
Deletes == [op : {"delete"}, ids : SUBSET Nat]
Stages == {Idle} \cup Families \cup Replaces \cup Reuses \cup Deletes

Consented(user, verifier) == [user |-> user, verifier |-> verifier] \in consented

\* A flow is found by its verifier, and a code stands for a login for it.
KvOK ==
    /\ \A v \in DOMAIN flows : v \in Verifiers /\ GetJson(flows, v).verifier = v
    /\ \A l \in logins : l.user \in Names
    /\ \A l \in DOMAIN codes :
           /\ GetJson(codes, l).user \in Names
           /\ GetJson(codes, l).flow \in Verifiers
           /\ Consented(GetJson(codes, l).user, GetJson(codes, l).flow)

\* A row belongs to a family, whose end it has kept, and to a user who logged
\* in for the verifier of the family.
RowOK(row) ==
    /\ row \in RowSet
    /\ row.family \in DOMAIN families
    /\ row.exp = families[row.family].since + RefreshExp
    /\ Consented(row.access.sub, families[row.family].verifier)

RowsOK ==
    /\ nextId \in Nat \ {0}
    /\ \A i \in DOMAIN rows : i \in Nat /\ i < nextId /\ RowOK(rows[i])

FamiliesOK ==
    \A f \in DOMAIN families :
        /\ f \in Nat /\ f < nextId
        /\ families[f] \in [verifier : Verifiers, since : Nat, last : Nat]

\* What a request goes on with still holds: a row that is there is the one it
\* saw, for no id is ever used twice.
StageOK(r) ==
    /\ r.op \in {"create", "family"} => Consented(r.user, r.verifier)
    /\ r.op = "replace" =>
           /\ RowOK(r.old)
           /\ r.id < nextId
           /\ r.id \in DOMAIN rows => rows[r.id] = r.old
           /\ r.now <= r.old.exp + Grace

RequestsOK ==
    /\ request \in [Handlers -> Stages]
    /\ \A h \in Handlers : StageOK(request[h])

IInv ==
    /\ KvOK /\ RowsOK /\ FamiliesOK /\ RequestsOK
    /\ time \in Nat
    /\ keys \in [{Token, Symmetric} -> KeyNames]
    /\ \A sealed \in issued : sealed.token.family \in Nat
    /\ TokensEarned /\ FamilyHasOneRow /\ FamilyLapses

-----------------------------------------------------------------------------
(* What every step keeps.                                                  *)

\* What is known of logins and of families stays known, and rows come and go
\* but do not change.
Keeps ==
    /\ consented \subseteq consented'
    /\ nextId <= nextId' /\ nextId' \in Nat
    /\ \A f \in DOMAIN families :
           /\ f \in DOMAIN families'
           /\ families'[f].since = families[f].since
           /\ families'[f].verifier = families[f].verifier
    /\ \A i \in DOMAIN rows' :
           i < nextId => i \in DOMAIN rows /\ rows'[i] = rows[i]

LEMMA RowKept ==
    ASSUME Keeps, NEW row, RowOK(row)
    PROVE  RowOK(row)'
<1>1. /\ row \in RowSet /\ row.family \in DOMAIN families'
      /\ families'[row.family].since = families[row.family].since
      /\ families'[row.family].verifier = families[row.family].verifier
    BY DEF RowOK, Keeps
<1>2. consented \subseteq consented'
    BY DEF Keeps
<1> QED
    BY <1>1, <1>2 DEF RowOK, Consented

LEMMA StageKept ==
    ASSUME Keeps, nextId \in Nat, NEW r \in Stages, StageOK(r)
    PROVE  StageOK(r)'
<1>1. CASE r.op \in {"create", "family"}
    BY <1>1 DEF Keeps, StageOK, Consented
<1>2. CASE r.op = "replace"
    <2>1. /\ RowOK(r.old)' /\ r.id < nextId /\ r.now <= r.old.exp + Grace
          /\ r.id \in DOMAIN rows => rows[r.id] = r.old
        BY <1>2, RowKept DEF StageOK
    <2>2. r.id \in Nat
        BY <1>2 DEF Stages, Idle, Families, Replaces, Reuses, Deletes
    <2>3. r.id < nextId'
        BY <2>1, <2>2 DEF Keeps
    <2>4. r.id \in DOMAIN rows' => rows'[r.id] = r.old
        BY <2>1 DEF Keeps
    <2> QED BY <1>2, <2>1, <2>3, <2>4 DEF StageOK
<1> QED
    BY <1>1, <1>2 DEF StageOK

\* One request goes on, the others stay where they are.
LEMMA RequestsKept ==
    ASSUME IInv, Keeps, NEW h \in Handlers, NEW stage \in Stages,
           StageOK(stage)', Continue(h, stage)
    PROVE  RequestsOK'
<1>1. /\ request \in [Handlers -> Stages]
      /\ request' = [request EXCEPT ![h] = stage]
      /\ nextId \in Nat
    BY DEF IInv, RequestsOK, RowsOK, Continue
<1>2. ASSUME NEW g \in Handlers, NEW r, r = request'[g] PROVE StageOK(r)'
    <2>1. CASE g = h
        <3>1. r = stage
            BY <1>1, <1>2, <2>1
        <3> QED BY <3>1
    <2>2. CASE g # h
        <3>1. r = request[g] /\ r \in Stages /\ StageOK(r)
            BY <1>1, <1>2, <2>2 DEF IInv, RequestsOK
        <3> QED BY <1>1, <3>1, StageKept
    <2> QED BY <2>1, <2>2
<1>3. \A g \in Handlers : StageOK(request[g])'
    BY <1>2 DEF StageOK
<1> QED
    BY <1>1, <1>3 DEF RequestsOK

\* A step that changes requests only.
LEMMA StageStep ==
    ASSUME IInv, UNCHANGED <<kv, database, time, history>>,
           NEW h \in Handlers, NEW stage \in Stages, StageOK(stage),
           Continue(h, stage)
    PROVE  IInv'
<1>1. /\ flows' = flows /\ logins' = logins /\ codes' = codes /\ keys' = keys
      /\ rows' = rows /\ nextId' = nextId /\ time' = time /\ issued' = issued
      /\ granted' = granted /\ families' = families /\ consented' = consented
    BY DEF kv, database, history
<1>2. Keeps /\ nextId \in Nat
    BY <1>1 DEF IInv, RowsOK, Keeps
<1>3. RequestsOK'
    BY <1>2, StageKept, RequestsKept
<1>4. KvOK'
    BY <1>1 DEF IInv, KvOK, Consented
<1>5. RowsOK' /\ FamiliesOK'
    BY <1>1 DEF IInv, RowsOK, RowOK, FamiliesOK, Consented
<1> QED
    BY <1>1, <1>3, <1>4, <1>5
    DEF IInv, TokensEarned, FamilyHasOneRow, FamilyLapses

\* A step of the key-value store, after which flows and codes are as they
\* should be.
LEMMA KvStep ==
    ASSUME IInv, KvOK', consented \subseteq consented', time' \in Nat,
           UNCHANGED <<keys, rows, nextId, request, issued, granted, families>>
    PROVE  IInv'
<1>1. Keeps /\ nextId \in Nat
    BY DEF IInv, RowsOK, Keeps
<1>2. RequestsOK'
    <2>1. request' \in [Handlers -> Stages]
        BY DEF IInv, RequestsOK
    <2>2. \A h \in Handlers : \A r : r = request[h] => StageOK(r)'
        BY <1>1, StageKept DEF IInv, RequestsOK
    <2>3. \A h \in Handlers : StageOK(request[h])'
        BY <2>2 DEF StageOK
    <2> QED BY <2>1, <2>3 DEF RequestsOK
<1>3. ASSUME NEW i \in DOMAIN rows', NEW row, row = rows'[i]
      PROVE  i \in Nat /\ i < nextId' /\ RowOK(row)'
    <2>1. i \in DOMAIN rows /\ row = rows[i]
        BY <1>3
    <2>2. i \in Nat /\ i < nextId /\ RowOK(row)
        BY <2>1 DEF IInv, RowsOK
    <2> QED BY <1>1, <2>2, RowKept
<1>4. RowsOK'
    BY <1>1, <1>3 DEF IInv, RowsOK, RowOK
<1>5. FamiliesOK'
    BY DEF IInv, FamiliesOK
<1> QED
    BY <1>2, <1>4, <1>5 DEF IInv, TokensEarned, FamilyHasOneRow, FamilyLapses

-----------------------------------------------------------------------------
(* Every step keeps the invariant.                                         *)

LEMMA InitIInv == Init => IInv
<1> SUFFICES ASSUME Init PROVE IInv
    OBVIOUS
<1>1. /\ DOMAIN flows = {} /\ logins = {} /\ DOMAIN codes = {}
      /\ DOMAIN rows = {} /\ nextId = 1 /\ time = 0 /\ issued = {}
      /\ granted = {} /\ DOMAIN families = {}
      /\ request = [h \in Handlers |-> Idle]
      /\ keys = [id \in {Token, Symmetric} |-> None]
    BY DEF Init
<1>2. Idle \in Stages /\ StageOK(Idle)
    BY DEF Stages, StageOK, Idle
<1>3. RequestsOK
    <2>1. \A h \in Handlers : request[h] = Idle
        BY <1>1
    <2> QED BY <1>1, <1>2, <2>1 DEF RequestsOK
<1>4. KvOK /\ RowsOK /\ FamiliesOK
    BY <1>1 DEF KvOK, RowsOK, FamiliesOK
<1> QED
    BY <1>1, <1>3, <1>4
    DEF IInv, TokensEarned, FamilyHasOneRow, FamilyLapses, KeyNames

LEMMA TickIInv == IInv /\ Tick => IInv'
<1> SUFFICES ASSUME IInv, Tick PROVE IInv'
    OBVIOUS
<1>1. /\ flows' = flows /\ logins' = logins /\ codes' = codes
      /\ UNCHANGED <<keys, rows, nextId, request, issued, granted, families>>
      /\ consented' = consented /\ time' = time + 1
    BY DEF Tick, kv, database, history
<1>2. KvOK' /\ time' \in Nat
    BY <1>1 DEF IInv, KvOK, Consented
<1> QED
    BY <1>1, <1>2, KvStep

\* Redis drops a code.
LEMMA ExpireIInv == IInv /\ Expire => IInv'
<1> SUFFICES ASSUME IInv, Expire PROVE IInv'
    OBVIOUS
<1>1. PICK l \in DOMAIN codes : codes' = Restrict(codes, DOMAIN codes \ {l})
    BY DEF Expire
<1>2. /\ flows' = flows /\ logins' = logins /\ consented' = consented
      /\ UNCHANGED <<keys, rows, nextId, request, issued, granted, families>>
      /\ time' = time
    BY DEF Expire, database, history
<1>3. \A k \in DOMAIN codes' : k \in DOMAIN codes /\ codes'[k] = codes[k]
    BY <1>1 DEF Restrict
<1>4. KvOK' /\ time' \in Nat
    BY <1>2, <1>3 DEF IInv, KvOK, Consented, GetJson
<1> QED
    BY <1>2, <1>4, KvStep

\* A flow starts.
LEMMA OAuthEndpointIInv ==
    ASSUME IInv, NEW client, NEW v \in Verifiers, OAuthEndpoint(client, v)
    PROVE  IInv'
<1> DEFINE value == [client |-> client, verifier |-> v]
<1>1. /\ flows' = StoreJson(flows, v, value)
      /\ logins' = logins /\ codes' = codes /\ consented' = consented
      /\ UNCHANGED <<keys, rows, nextId, request, issued, granted, families>>
      /\ time' = time
    BY DEF OAuthEndpoint, database, history
<1>2. value.verifier = v
    OBVIOUS
<1> HIDE DEF value
<1>3. \A k \in DOMAIN flows' : k \in Verifiers /\ GetJson(flows', k).verifier = k
    <2>1. /\ DOMAIN flows' = DOMAIN flows \cup {v}
          /\ GetJson(flows', v) = value
          /\ \A k \in DOMAIN flows : k # v => GetJson(flows', k) = GetJson(flows, k)
        BY <1>1 DEF StoreJson, GetJson
    <2> QED BY <1>2, <2>1 DEF IInv, KvOK
<1>4. KvOK' /\ time' \in Nat
    BY <1>1, <1>3 DEF IInv, KvOK, Consented, GetJson
<1> QED
    BY <1>1, <1>4, KvStep

LEMMA StartRegisterIInv ==
    ASSUME IInv, NEW person, NEW name, StartRegister(person, name)
    PROVE  IInv'
<1>1. /\ flows' = flows /\ logins' = logins /\ codes' = codes
      /\ UNCHANGED <<keys, rows, nextId, request, issued, granted, families>>
      /\ consented' = consented /\ time' = time
    BY DEF StartRegister, database, history
<1>2. KvOK' /\ time' \in Nat
    BY <1>1 DEF IInv, KvOK, Consented
<1> QED
    BY <1>1, <1>2, KvStep

LEMMA FinishRegisterIInv ==
    ASSUME IInv, NEW saved, NEW name, FinishRegister(saved, name)
    PROVE  IInv'
<1>1. /\ flows' = flows /\ logins' = logins /\ codes' = codes
      /\ UNCHANGED <<keys, rows, nextId, request, issued, granted, families>>
      /\ consented' = consented /\ time' = time
    BY DEF FinishRegister, kv, history
<1>2. KvOK' /\ time' \in Nat
    BY <1>1 DEF IInv, KvOK, Consented
<1> QED
    BY <1>1, <1>2, KvStep

LEMMA StartLoginIInv ==
    ASSUME IInv, NEW person, NEW name \in Names, StartLogin(person, name)
    PROVE  IInv'
<1>1. /\ flows' = flows /\ codes' = codes
      /\ UNCHANGED <<keys, rows, nextId, request, issued, granted, families>>
      /\ consented' = consented /\ time' = time
      /\ \A l \in logins' : l \in logins \/ l.user = name
    BY DEF StartLogin, database, history
<1>2. KvOK' /\ time' \in Nat
    BY <1>1 DEF IInv, KvOK, Consented
<1> QED
    BY <1>1, <1>2, KvStep

\* A login that is finished gives a code for the flow it names, in which the
\* user has now logged in.
LEMMA FinishLoginIInv ==
    ASSUME IInv, NEW saved \in logins, NEW name, NEW flow \in Verifiers,
           FinishLogin(saved, name, flow)
    PROVE  IInv'
<1> DEFINE value == [user |-> name, flow |-> flow]
<1>1. /\ name = saved.user /\ codes' = StoreJson(codes, saved, value)
      /\ consented' = consented \cup {[user |-> saved.user, verifier |-> flow]}
      /\ flows' = flows /\ logins' = logins
      /\ UNCHANGED <<keys, rows, nextId, request, issued, granted, families>>
      /\ time' = time
    BY DEF FinishLogin, Login, database
<1>2. value.user = saved.user /\ value.flow = flow /\ saved.user \in Names
    BY <1>1 DEF IInv, KvOK
<1> HIDE DEF value
<1>3. ASSUME NEW l \in DOMAIN codes'
      PROVE  /\ GetJson(codes', l).user \in Names
             /\ GetJson(codes', l).flow \in Verifiers
             /\ [user |-> GetJson(codes', l).user,
                 verifier |-> GetJson(codes', l).flow] \in consented'
    <2>1. /\ DOMAIN codes' = DOMAIN codes \cup {saved}
          /\ GetJson(codes', saved) = value
          /\ \A k \in DOMAIN codes :
                 k # saved => GetJson(codes', k) = GetJson(codes, k)
        BY <1>1 DEF StoreJson, GetJson
    <2>2. CASE l = saved
        BY <1>1, <1>2, <2>1, <2>2
    <2>3. CASE l # saved
        <3>1. l \in DOMAIN codes /\ GetJson(codes', l) = GetJson(codes, l)
            BY <1>3, <2>1, <2>3
        <3> QED BY <1>1, <3>1 DEF IInv, KvOK, Consented
    <2> QED BY <2>2, <2>3
<1>4. KvOK' /\ time' \in Nat
    BY <1>1, <1>3 DEF IInv, KvOK, Consented, GetJson
<1> QED
    BY <1>1, <1>4, KvStep

\* A step of the database: what is stored before stays, and what is new is as
\* it should be.
LEMMA DatabaseStep ==
    ASSUME IInv, Keeps, RequestsOK', FamiliesOK', TokensEarned',
           FamilyHasOneRow', FamilyLapses',
           UNCHANGED <<flows, logins, codes, time, consented>>,
           keys' \in [{Token, Symmetric} -> KeyNames],
           \A sealed \in issued' : sealed.token.family \in Nat,
           \A i \in DOMAIN rows' : \A row : row = rows'[i] =>
               \/ i \in DOMAIN rows /\ rows[i] = row
               \/ i \in Nat /\ i < nextId' /\ RowOK(row)'
    PROVE  IInv'
<1>1. KvOK'
    BY DEF IInv, KvOK, Consented
<1>2. ASSUME NEW i \in DOMAIN rows', NEW row, row = rows'[i]
      PROVE  i \in Nat /\ i < nextId' /\ RowOK(row)'
    <2>1. CASE i \in DOMAIN rows /\ rows[i] = row
        <3>1. i \in Nat /\ i < nextId /\ RowOK(row) /\ nextId \in Nat
            BY <2>1 DEF IInv, RowsOK
        <3> QED BY <3>1, RowKept DEF Keeps
    <2> QED BY <1>2, <2>1
<1>3. RowsOK'
    <2>1. nextId' \in Nat \ {0}
        BY DEF Keeps, IInv, RowsOK
    <2> QED BY <1>2, <2>1 DEF RowsOK, RowOK
<1> QED
    BY <1>1, <1>3 DEF IInv

\* What new_token_family goes on with is about the same user and flow.
LEMMA WithKeysStage ==
    ASSUME NEW r \in Families, NEW ks \in [{Token, Symmetric} -> KeyNames],
           time \in Nat
    PROVE  /\ WithKeys(r, ks) \in Families
           /\ WithKeys(r, ks).user = r.user
           /\ WithKeys(r, ks).verifier = r.verifier
<1>1. ks[Token] \in KeyNames /\ ks[Symmetric] \in KeyNames
    OBVIOUS
<1> QED
    BY <1>1 DEF WithKeys, Families, Token, Symmetric

LEMMA FamilyStages ==
    ASSUME NEW r \in Families
    PROVE  r \in Stages /\ r.op \in {"create", "family"}
BY DEF Stages, Families

\* The stage a request is in, by its name.
LEMMA StageOf ==
    ASSUME NEW r \in Stages
    PROVE  /\ r.op \in {"create", "family"} => r \in Families
           /\ r.op = "replace" => r \in Replaces
           /\ r.op = "reuse" => r \in Reuses
           /\ r.op = "delete" => r \in Deletes
BY DEF Stages, Idle, Families, Replaces, Reuses, Deletes

\* A code is turned into a request for tokens of the user who logged in for
\* the flow of the verifier.
LEMMA TokenCodeIInv ==
    ASSUME IInv, NEW h \in Handlers, NEW code \in DOMAIN codes, NEW client,
           NEW v \in Verifiers, TokenCode(h, code, client, v)
    PROVE  IInv'
<1> DEFINE flowUser == GetJson(codes, code)
           r == [op |-> "family", user |-> flowUser.user, verifier |-> v,
                 id |-> 0, key |-> None, now |-> time]
           stage == WithKeys(r, keys)
<1>1. /\ flowUser.flow \in DOMAIN flows
      /\ v = GetJson(flows, flowUser.flow).verifier
      /\ Continue(h, stage)
      /\ UNCHANGED <<kv, database, time, history>>
    BY DEF TokenCode, TokenRequestChecks
<1>2. /\ flowUser.user \in Names /\ v = flowUser.flow
      /\ Consented(flowUser.user, v)
    BY <1>1 DEF IInv, KvOK
<1>3. r \in Families
    BY <1>2 DEF IInv, Families, KeyNames
<1>4. r.user = flowUser.user /\ r.verifier = v
    OBVIOUS
<1> HIDE DEF flowUser, r
<1>5. stage \in Families /\ stage.user = r.user /\ stage.verifier = v
    BY <1>3, <1>4, WithKeysStage DEF IInv
<1> HIDE DEF stage
<1>6. stage \in Stages /\ StageOK(stage)
    BY <1>2, <1>4, <1>5, FamilyStages DEF StageOK
<1> QED
    BY <1>1, <1>6, StageStep

\* A key is made, and the request goes on to the next or to its tokens.
LEMMA CreateKeyIInv ==
    ASSUME IInv, NEW h \in Handlers, CreateKey(h)
    PROVE  IInv'
<1>1. PICK r : r = request[h]
    OBVIOUS
<1>2. PICK ks : ks = keys'
    OBVIOUS
<1> DEFINE s == [r EXCEPT !.op = "family", !.id = 0]
<1>3. /\ r.op = "create"
      /\ ks = UpsertById(keys, r.id, NewKey(r.id, h))
      /\ Continue(h, WithKeys(s, ks))
      /\ UNCHANGED <<kv, users, rows, nextId, time, history>>
    BY <1>1, <1>2 DEF CreateKey
<1>4. r \in Families /\ Consented(r.user, r.verifier)
    BY <1>1, <1>3, StageOf DEF IInv, RequestsOK, StageOK
<1>5. ks \in [{Token, Symmetric} -> KeyNames]
    <2>1. NewKey(r.id, h) \in KeyNames
        BY DEF NewKey, KeyNames
    <2> QED BY <1>3, <2>1 DEF IInv, UpsertById
<1>6. s \in Families /\ s.user = r.user /\ s.verifier = r.verifier
    BY <1>4 DEF Families
<1> HIDE DEF s
<1>7. PICK stage : stage = WithKeys(s, ks)
    OBVIOUS
<1>8. stage \in Families /\ stage.user = r.user /\ stage.verifier = r.verifier
    BY <1>5, <1>6, <1>7, WithKeysStage DEF IInv
<1>9. stage \in Stages /\ StageOK(stage)
    BY <1>4, <1>8, FamilyStages DEF StageOK
<1>10. /\ UNCHANGED <<flows, logins, codes, time, consented, issued, granted,
                      families, rows, nextId>>
    BY <1>3 DEF kv, history
<1>11. Keeps /\ nextId \in Nat
    BY <1>10 DEF IInv, RowsOK, Keeps
<1>12. RequestsOK'
    BY <1>3, <1>7, <1>9, <1>11, StageKept, RequestsKept
<1>13. FamiliesOK' /\ TokensEarned' /\ FamilyHasOneRow' /\ FamilyLapses'
    BY <1>10 DEF IInv, FamiliesOK, TokensEarned, FamilyHasOneRow, FamilyLapses
<1>14. \A sealed \in issued' : sealed.token.family \in Nat
    BY <1>10 DEF IInv
<1> QED
    BY <1>2, <1>5, <1>10, <1>11, <1>12, <1>13, <1>14, DatabaseStep

\* After a step that ends a request, the others go on as they were.
LEMMA IdleRequests ==
    ASSUME IInv, Keeps, NEW h \in Handlers, Continue(h, Idle)
    PROVE  RequestsOK'
<1>1. Idle \in Stages /\ StageOK(Idle)'
    BY DEF Stages, StageOK, Idle
<1> QED
    BY <1>1, RequestsKept

\* What psql_insert_return_id does to the table and to the ids.
LEMMA Inserted ==
    ASSUME IInv, NEW table, NEW row, InsertReturnId(table, row),
           \A i \in DOMAIN table : i \in DOMAIN rows /\ rows[i] = table[i]
    PROVE  /\ nextId \in Nat /\ nextId' = nextId + 1
           /\ DOMAIN rows' = DOMAIN table \cup {nextId}
           /\ rows'[nextId] = row
           /\ \A i \in DOMAIN table : i < nextId /\ rows'[i] = rows[i]
           /\ \A i \in DOMAIN rows' :
                  i < nextId => i \in DOMAIN rows /\ rows'[i] = rows[i]
<1>1. nextId \in Nat /\ \A i \in DOMAIN rows : i \in Nat /\ i < nextId
    BY DEF IInv, RowsOK
<1>2. /\ nextId' = nextId + 1
      /\ rows' = [i \in DOMAIN table \cup {nextId} |->
                      IF i = nextId THEN row ELSE table[i]]
    BY DEF InsertReturnId
<1>3. \A i \in DOMAIN table : i < nextId /\ i # nextId
    BY <1>1
<1> QED
    BY <1>1, <1>2, <1>3

\* The first tokens of a family, which is named after the new row.
LEMMA NewTokenFamilyIInv ==
    ASSUME IInv, NEW h \in Handlers, NewTokenFamily(h)
    PROVE  IInv'
<1>1. PICK r, n, row :
          /\ r = request[h] /\ n = nextId
          /\ row = SavedRefreshToken(nextId, IdAccessToken(r.user), r.now,
                                     r.now + RefreshExp, 0)
    OBVIOUS
<1>2. /\ r.op = "family"
      /\ InsertReturnId(rows, row)
      /\ issued' = issued \cup {Sealed(r.key, RefreshToken(row))}
      /\ granted' = granted \cup {Granted(row, r.verifier)}
      /\ families' = [f \in DOMAIN families \cup {n} |->
                         IF f = n
                         THEN [verifier |-> r.verifier,
                               since |-> r.now, last |-> r.now]
                         ELSE families[f]]
      /\ Continue(h, Idle)
      /\ UNCHANGED <<flows, logins, codes, time, consented, keys>>
    BY <1>1 DEF NewTokenFamily, kv
<1>3. /\ r \in Families /\ r.user \in Names /\ r.verifier \in Verifiers
      /\ r.now \in Nat /\ Consented(r.user, r.verifier)
    <2>1. r \in Families /\ Consented(r.user, r.verifier)
        BY <1>1, <1>2, StageOf DEF IInv, RequestsOK, StageOK
    <2> QED BY <2>1 DEF Families
<1>4. /\ n \in Nat /\ nextId' = n + 1
      /\ DOMAIN rows' = DOMAIN rows \cup {n} /\ rows'[n] = row
      /\ \A i \in DOMAIN rows : i < n /\ rows'[i] = rows[i]
      /\ \A i \in DOMAIN rows' :
             i < n => i \in DOMAIN rows /\ rows'[i] = rows[i]
    BY <1>1, <1>2, Inserted
<1>5. /\ row \in RowSet /\ row.family = n /\ row.access.sub = r.user
      /\ row.exp = r.now + RefreshExp
    <2>1. r.now + RefreshExp \in Nat
        BY <1>3, OAuthPeriods
    <2> QED BY <1>1, <1>3, <1>4, <2>1 DEF SavedRefreshToken, IdAccessToken, RowSet
<1>6. /\ n \notin DOMAIN families
      /\ DOMAIN families' = DOMAIN families \cup {n}
      /\ families'[n] = [verifier |-> r.verifier, since |-> r.now,
                         last |-> r.now]
      /\ \A f \in DOMAIN families : families'[f] = families[f]
    <2>1. \A f \in DOMAIN families : f # n
        BY <1>1, <1>4 DEF IInv, FamiliesOK
    <2> QED BY <1>2, <2>1
<1>7. Keeps
    BY <1>1, <1>2, <1>4, <1>6 DEF Keeps
<1>8. RequestsOK'
    BY <1>2, <1>7, IdleRequests
<1>9. FamiliesOK'
    <2>1. \A f \in DOMAIN families :
             /\ f \in Nat /\ f < n
             /\ families[f] \in [verifier : Verifiers, since : Nat, last : Nat]
        BY <1>1 DEF IInv, FamiliesOK
    <2>2. families'[n] \in [verifier : Verifiers, since : Nat, last : Nat]
        BY <1>3, <1>6
    <2> QED BY <1>4, <1>6, <2>1, <2>2 DEF FamiliesOK
<1>10. TokensEarned'
    BY <1>2, <1>3, <1>5 DEF IInv, TokensEarned, Granted, Consented
<1>11. FamilyHasOneRow'
    <2>1. \A i \in DOMAIN rows : rows[i].family # n
        BY <1>6 DEF IInv, RowsOK, RowOK
    <2> QED BY <1>4, <1>5, <2>1 DEF IInv, FamilyHasOneRow
<1>12. FamilyLapses'
    <2>1. r.now <= r.now + RefreshExp + Grace
        BY <1>3, OAuthPeriods
    <2>2. families'[n].since = r.now /\ families'[n].last = r.now
        BY <1>6
    <2> QED BY <1>6, <2>1, <2>2 DEF IInv, FamilyLapses
<1>13. \A sealed \in issued' : sealed.token.family \in Nat
    BY <1>2, <1>4, <1>5 DEF IInv, Sealed, RefreshToken
<1>14. RowOK(row)'
    BY <1>2, <1>3, <1>5, <1>6 DEF RowOK, Consented
<1>15. \A i \in DOMAIN rows' : \A x : x = rows'[i] =>
           \/ i \in DOMAIN rows /\ rows[i] = x
           \/ i \in Nat /\ i < nextId' /\ RowOK(x)'
    BY <1>4, <1>14
<1> QED
    BY <1>2, <1>7, <1>8, <1>9, <1>10, <1>11, <1>12, <1>13, <1>15, DatabaseStep
    DEF IInv

\* A refresh token is looked up: its row is there, and in time, or it was used.
LEMMA RefreshIInv ==
    ASSUME IInv, NEW h \in Handlers, NEW sealed \in issued, Refresh(h, sealed)
    PROVE  IInv'
<1> DEFINE tok == sealed.token
           reuse == [op |-> "reuse", family |-> tok.family]
           old == rows[tok.id]
           replace == [op |-> "replace", id |-> tok.id, key |-> keys[Symmetric],
                       old |-> old, now |-> time]
<1>1. /\ UNCHANGED <<kv, database, time, history>>
      /\ \/ Continue(h, reuse)
         \/ /\ tok.id \in DOMAIN rows /\ time <= old.exp + Grace
            /\ Continue(h, replace)
    BY DEF Refresh
<1>2. CASE Continue(h, reuse)
    <2>1. reuse \in Stages /\ StageOK(reuse)
        BY DEF IInv, Stages, Reuses, StageOK
    <2> QED BY <1>1, <1>2, <2>1, StageStep
<1>3. CASE /\ tok.id \in DOMAIN rows /\ time <= old.exp + Grace
           /\ Continue(h, replace)
    <2>1. /\ tok.id \in Nat /\ tok.id < nextId /\ RowOK(old)
          /\ old \in RowSet /\ time \in Nat /\ keys[Symmetric] \in KeyNames
        BY <1>3 DEF IInv, RowsOK, RowOK
    <2>2. replace \in Replaces
        BY <2>1 DEF Replaces
    <2>3. replace \in Stages /\ StageOK(replace)
        BY <1>3, <2>1, <2>2 DEF Stages, StageOK
    <2> QED BY <1>1, <1>3, <2>3, StageStep
<1> QED
    BY <1>1, <1>2, <1>3

\* The transaction that replaced the row gives the next tokens of its family;
\* one that finds it gone gives none.
LEMMA RefreshTransactionIInv ==
    ASSUME IInv, NEW h \in Handlers, RefreshTransaction(h)
    PROVE  IInv'
<1>1. PICK r, n, row, g :
          /\ r = request[h] /\ n = nextId /\ row = NewRefresh(r.old, r.now)
          /\ g = families[row.family]
    OBVIOUS
<1>2. /\ r.op = "replace" /\ Continue(h, Idle)
      /\ UNCHANGED <<flows, logins, codes, time, consented, keys>>
      /\ \/ /\ DeleteInsertReturnId(r.id, row)
            /\ issued' = issued \cup {Sealed(r.key, RefreshToken(row))}
            /\ granted' = granted \cup {Granted(row, g.verifier)}
            /\ families' = [families EXCEPT ![row.family].last = r.now]
         \/ UNCHANGED <<rows, nextId, issued, granted, families>>
    BY <1>1 DEF RefreshTransaction, kv
<1>3. /\ r \in Replaces /\ RowOK(r.old)
      /\ r.id \in DOMAIN rows => rows[r.id] = r.old
      /\ r.now <= r.old.exp + Grace
    BY <1>1, <1>2, StageOf DEF IInv, RequestsOK, StageOK
<1>4. r.now \in Nat /\ r.old \in RowSet /\ n \in Nat
    BY <1>1, <1>3 DEF Replaces, IInv, RowsOK
<1>5. CASE UNCHANGED <<rows, nextId, issued, granted, families>>
    <2>1. Keeps
        BY <1>2, <1>4, <1>1, <1>5 DEF Keeps
    <2>2. RequestsOK'
        BY <1>2, <2>1, IdleRequests
    <2>3. FamiliesOK' /\ TokensEarned' /\ FamilyHasOneRow' /\ FamilyLapses'
        BY <1>2, <1>5
        DEF IInv, FamiliesOK, TokensEarned, FamilyHasOneRow, FamilyLapses
    <2> QED BY <1>2, <1>5, <2>1, <2>2, <2>3, DatabaseStep DEF IInv
<1>6. ASSUME DeleteInsertReturnId(r.id, row),
             issued' = issued \cup {Sealed(r.key, RefreshToken(row))},
             granted' = granted \cup {Granted(row, g.verifier)},
             families' = [families EXCEPT ![row.family].last = r.now]
      PROVE  IInv'
    <2> DEFINE table == Restrict(rows, DOMAIN rows \ {r.id})
    <2>1. /\ r.id \in DOMAIN rows /\ InsertReturnId(table, row)
          /\ rows[r.id] = r.old
        BY <1>3, <1>6 DEF DeleteInsertReturnId, Deleted
    <2>2. /\ DOMAIN table = DOMAIN rows \ {r.id}
          /\ \A i \in DOMAIN table : i \in DOMAIN rows /\ rows[i] = table[i]
        BY DEF Restrict
    <2> HIDE DEF table
    <2>3. /\ nextId' = n + 1
          /\ DOMAIN rows' = (DOMAIN rows \ {r.id}) \cup {n} /\ rows'[n] = row
          /\ \A i \in DOMAIN rows \ {r.id} : i < n /\ rows'[i] = rows[i]
          /\ \A i \in DOMAIN rows' :
                 i < n => i \in DOMAIN rows /\ rows'[i] = rows[i]
        <3>1. /\ nextId' = nextId + 1
              /\ DOMAIN rows' = DOMAIN table \cup {nextId}
              /\ rows'[nextId] = row
              /\ \A i \in DOMAIN table : i < nextId /\ rows'[i] = rows[i]
              /\ \A i \in DOMAIN rows' :
                     i < nextId => i \in DOMAIN rows /\ rows'[i] = rows[i]
            BY <2>1, <2>2, Inserted
        <3> QED BY <1>1, <2>2, <3>1
    <2>4. /\ row \in RowSet /\ row.family = r.old.family
          /\ row.exp = r.old.exp /\ row.access = r.old.access
        BY <1>1, <1>4 DEF NewRefresh, RowSet
    <2>5. /\ row.family \in DOMAIN families /\ row.exp = g.since + RefreshExp
          /\ Consented(row.access.sub, g.verifier)
          /\ g \in [verifier : Verifiers, since : Nat, last : Nat]
        BY <1>1, <1>3, <2>4 DEF RowOK, IInv, FamiliesOK
    <2>6. /\ DOMAIN families' = DOMAIN families
          /\ families'[row.family] = [g EXCEPT !.last = r.now]
          /\ \A f \in DOMAIN families :
                 f # row.family => families'[f] = families[f]
        BY <1>1, <1>6, <2>5
    <2>7. /\ families'[row.family].since = g.since
          /\ families'[row.family].verifier = g.verifier
          /\ families'[row.family].last = r.now
          /\ families'[row.family] \in [verifier : Verifiers, since : Nat,
                                        last : Nat]
        BY <1>4, <2>5, <2>6
    <2>8. Keeps
        <3>1. ASSUME NEW f \in DOMAIN families
              PROVE  /\ f \in DOMAIN families'
                     /\ families'[f].since = families[f].since
                     /\ families'[f].verifier = families[f].verifier
            <4>1. CASE f = row.family
                BY <1>1, <2>6, <2>7, <4>1
            <4>2. CASE f # row.family
                BY <2>6, <4>2
            <4> QED BY <4>1, <4>2
        <3>2. nextId <= nextId' /\ nextId' \in Nat
            BY <1>1, <1>4, <2>3
        <3> QED BY <1>1, <1>2, <2>3, <3>1, <3>2 DEF Keeps
    <2>9. RequestsOK'
        BY <1>2, <2>8, IdleRequests
    <2>10. FamiliesOK'
        <3>1. \A f \in DOMAIN families :
                 /\ f \in Nat /\ f < n
                 /\ families[f] \in [verifier : Verifiers, since : Nat,
                                     last : Nat]
            BY <1>1 DEF IInv, FamiliesOK
        <3> QED BY <1>4, <2>3, <2>6, <2>7, <3>1 DEF FamiliesOK
    <2>11. TokensEarned'
        BY <1>2, <1>6, <2>5 DEF IInv, TokensEarned, Granted, Consented
    <2>12. FamilyHasOneRow'
        <3>1. \A i \in DOMAIN rows \ {r.id} : rows[i].family # row.family
            BY <2>1, <2>4 DEF IInv, FamilyHasOneRow
        <3> QED BY <2>3, <3>1 DEF IInv, FamilyHasOneRow
    <2>13. FamilyLapses'
        <3>1. r.now <= g.since + RefreshExp + Grace
            BY <1>3, <2>4, <2>5
        <3> QED BY <2>6, <2>7, <3>1 DEF IInv, FamilyLapses
    <2>14. \A sealed \in issued' : sealed.token.family \in Nat
        BY <1>6, <2>4 DEF IInv, Sealed, RefreshToken, RowSet
    <2>15. RowOK(row)'
        BY <1>2, <2>4, <2>5, <2>6, <2>7 DEF RowOK, Consented
    <2>16. \A i \in DOMAIN rows' : \A x : x = rows'[i] =>
               \/ i \in DOMAIN rows /\ rows[i] = x
               \/ i \in Nat /\ i < nextId' /\ RowOK(x)'
        BY <1>4, <2>3, <2>15
    <2> QED
        BY <1>2, <2>8, <2>9, <2>10, <2>11, <2>12, <2>13, <2>14, <2>16,
           DatabaseStep DEF IInv
<1> QED
    BY <1>2, <1>5, <1>6

\* A used token has the rows of its family deleted, those seen at first.
LEMMA DeleteFamilyIInv ==
    ASSUME IInv, NEW h \in Handlers, DeleteFamily(h)
    PROVE  IInv'
<1> DEFINE ids == {i \in DOMAIN rows : rows[i].family = request[h].family}
           stage == [op |-> "delete", ids |-> ids]
<1>1. UNCHANGED <<kv, database, time, history>> /\ Continue(h, stage)
    BY DEF DeleteFamily
<1>2. ids \in SUBSET Nat
    BY DEF IInv, RowsOK
<1> HIDE DEF ids
<1>3. stage \in Stages /\ StageOK(stage)
    BY <1>2 DEF Stages, Deletes, StageOK
<1> QED
    BY <1>1, <1>3, StageStep

LEMMA DeleteRowsIInv ==
    ASSUME IInv, NEW h \in Handlers, DeleteRows(h)
    PROVE  IInv'
<1>1. /\ \A i \in DOMAIN rows' : i \in DOMAIN rows /\ rows'[i] = rows[i]
      /\ Continue(h, Idle)
      /\ UNCHANGED <<flows, logins, codes, keys, nextId, time, issued, granted,
                     families, consented>>
    BY DEF DeleteRows, kv, history, Restrict
<1>2. Keeps
    BY <1>1 DEF Keeps, IInv, RowsOK
<1>3. RequestsOK'
    BY <1>1, <1>2, IdleRequests
<1>4. FamiliesOK' /\ TokensEarned' /\ FamilyHasOneRow' /\ FamilyLapses'
    BY <1>1 DEF IInv, FamiliesOK, TokensEarned, FamilyHasOneRow, FamilyLapses
<1> QED
    BY <1>1, <1>2, <1>3, <1>4, DatabaseStep DEF IInv

LEMMA StutterIInv == IInv /\ UNCHANGED vars => IInv'
<1> SUFFICES ASSUME IInv, UNCHANGED vars PROVE IInv'
    OBVIOUS
<1>1. /\ flows' = flows /\ logins' = logins /\ codes' = codes
      /\ UNCHANGED <<keys, rows, nextId, request, issued, granted, families>>
      /\ consented' = consented /\ time' = time
    BY DEF vars, kv, database, history
<1>2. KvOK' /\ time' \in Nat
    BY <1>1 DEF IInv, KvOK, Consented
<1> QED
    BY <1>1, <1>2, KvStep

LEMMA NextIInv == IInv /\ [Next]_vars => IInv'
<1> SUFFICES ASSUME IInv, [Next]_vars PROVE IInv'
    OBVIOUS
<1>1. CASE UNCHANGED vars
    BY <1>1, StutterIInv
<1>2. CASE Tick \/ Expire
    BY <1>2, TickIInv, ExpireIInv
<1>3. ASSUME NEW client \in Clients, NEW v \in Verifiers,
             OAuthEndpoint(client, v)
      PROVE  IInv'
    BY <1>3, OAuthEndpointIInv
<1>4. ASSUME NEW person \in Persons, NEW name \in Names,
             StartRegister(person, name) \/ StartLogin(person, name)
      PROVE  IInv'
    BY <1>4, StartRegisterIInv, StartLoginIInv
<1>5. ASSUME NEW name \in Names,
             \/ \E saved \in uploads : FinishRegister(saved, name)
             \/ \E saved \in logins, flow \in Verifiers :
                    FinishLogin(saved, name, flow)
      PROVE  IInv'
    BY <1>5, FinishRegisterIInv, FinishLoginIInv
<1>6. ASSUME NEW h \in Handlers,
             \/ CreateKey(h)
             \/ \E code \in DOMAIN codes, client \in Clients, v \in Verifiers :
                    TokenCode(h, code, client, v)
             \/ NewTokenFamily(h)
             \/ \E sealed \in issued : Refresh(h, sealed)
             \/ RefreshTransaction(h)
             \/ DeleteFamily(h)
             \/ DeleteRows(h)
      PROVE  IInv'
    BY <1>6, CreateKeyIInv, TokenCodeIInv, NewTokenFamilyIInv, RefreshIInv,
       RefreshTransactionIInv, DeleteFamilyIInv, DeleteRowsIInv
<1> QED
    BY <1>1, <1>2, <1>3, <1>4, <1>5, <1>6 DEF Next

-----------------------------------------------------------------------------
(* What follows of every reachable state.                                  *)

\* The invariant holds in every reachable state.
THEOREM IInvHolds == Spec => []IInv
<1> QED
    BY InitIInv, NextIInv, PTL DEF Spec

\* Access tokens go only to whoever holds the verifier of a flow for which the
\* user logged in, by a code and by every refresh after it.
THEOREM TokensEarnedAlways == Spec => []TokensEarned
<1>1. IInv => TokensEarned
    BY DEF IInv
<1> QED
    BY <1>1, IInvHolds, PTL

\* Of concurrent requests with one refresh token at most one is answered with
\* the next: a family has one row at most.
THEOREM OneRowAlways == Spec => []FamilyHasOneRow
<1>1. IInv => FamilyHasOneRow
    BY DEF IInv
<1> QED
    BY <1>1, IInvHolds, PTL

\* The last tokens of a family are handed out within REFRESH_EXP and the
\* period of grace of its first.
THEOREM LapsesAlways == Spec => []FamilyLapses
<1>1. IInv => FamilyLapses
    BY DEF IInv
<1> QED
    BY <1>1, IInvHolds, PTL

=============================================================================
