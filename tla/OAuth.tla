-------------------------------- MODULE OAuth --------------------------------
(***************************************************************************)
(* The OAuth server tiauth2: an application starts a flow, a person logs   *)
(* in with a password (OPAQUE) and gets a code for the flow, the           *)
(* application turns the code into tokens, and then each refresh token     *)
(* into the next.  Flows, half-done logins and codes are in a key-value    *)
(* store (Redis), users and refresh tokens in a database (Postgres).       *)
(*                                                                         *)
(* What a handler reads from the key-value store is read again by nobody   *)
(* in between, so it is cut only where it goes on to the database, and     *)
(* where a statement or transaction there may be overtaken.  A password    *)
(* file is the person whose password it is of; a client that knows the     *)
(* password finishes the login, any other fails.  The verifier of a flow   *)
(* is drawn at random, so it names the flow, and its hash stands for it.   *)
(* The keys for signing tokens and for sealing refresh tokens are drawn by *)
(* the first request that finds none: a handler finds none once for each   *)
(* key, so the key is named after it.  The OPAQUE key, which is got the    *)
(* same way, is in the database from the start.                            *)
(***************************************************************************)
EXTENDS Integers, FiniteSets, Functions

CONSTANTS
    Names,       \* user names
    Persons,     \* people who log in, each with a password
    Clients,     \* client_id and redirect_uri of an application
    Verifiers,   \* code verifiers, one for each flow
    Handlers,    \* concurrent requests to /oauth/token/
    None,        \* no user of this name: start_login takes the fake record
    RefreshExp,  \* REFRESH_EXP and GRACE_PERIOD of tokens.rs, in ticks
    Grace,
    MaxLogins,   \* bound: logins started
    MaxFamilies, \* bound: families of refresh tokens
    MaxRows,     \* bound: refresh tokens
    MaxTime      \* bound: ticks

ASSUME PersonsAssumption == None \notin Persons
ASSUME OAuthPeriods == RefreshExp \in Nat /\ Grace \in Nat
ASSUME OAuthBounds == /\ MaxLogins \in Nat /\ MaxFamilies \in Nat
                      /\ MaxRows \in Nat /\ MaxTime \in Nat

VARIABLES
    flows,      \* key-value store: flow id to AuthRequest
    logins,     \* key-value store: the logins started
    uploads,    \* key-value store: the registrations started
    codes,      \* key-value store: session key to FlowUser
    keys,       \* database: id to key
    users,      \* database: name to password file
    rows,       \* database: id to SavedRefreshToken
    nextId,     \* database: the sequence of row ids
    time,       \* the clock
    request,    \* per handler, the token request it is in the middle of
    issued,     \* history: the refresh tokens handed out
    granted,    \* history: the access tokens handed out, and the verifier
                \* they were first asked for with
    families,   \* history: what each family of tokens was given for
    consented   \* history: users that logged in, for which verifier

kv == <<flows, logins, uploads, codes>>
database == <<keys, users, rows, nextId>>
history == <<issued, granted, families, consented>>
vars == <<kv, database, time, request, history>>

Idle == [op |-> "idle"]
Continue(h, stage) == request' = [request EXCEPT ![h] = stage]

\* The ids of the keys for signing tokens and for sealing refresh tokens.
Token == 1
Symmetric == 2

Init ==
    /\ flows = [v \in {} |-> None]
    /\ logins = {}
    /\ uploads = {}
    /\ codes = [l \in {} |-> None]
    /\ keys = [id \in {Token, Symmetric} |-> None]
    /\ users = [n \in Names |-> None]
    /\ rows = [i \in {} |-> None]
    /\ nextId = 1
    /\ time = 0
    /\ request = [h \in Handlers |-> Idle]
    /\ issued = {}
    /\ granted = {}
    /\ families = [f \in {} |-> None]
    /\ consented = {}

Tick ==
    /\ time < MaxTime
    /\ time' = time + 1
    /\ UNCHANGED <<kv, database, request, history>>

-----------------------------------------------------------------------------
(* Flows and passwords.                                                    *)

\* store_json: EXPIRE comes before JSON.SET, so only a key that is there
\* already gets a time to live.
StoreJson(store, key, value) ==
    [k \in DOMAIN store \cup {key} |->
        IF k = key THEN [json |-> value, expires |-> key \in DOMAIN store]
        ELSE store[k]]

GetJson(store, key) == store[key].json

\* oauth_endpoint.
OAuthEndpoint(client, v) ==
    /\ v \notin DOMAIN flows
    /\ flows' = StoreJson(flows, v, [client |-> client, verifier |-> v])
    /\ UNCHANGED <<logins, uploads, codes, database, time, request, history>>

StartRegister(person, name) ==
    /\ uploads' = uploads \cup {[user |-> name, file |-> person]}
    /\ UNCHANGED <<flows, logins, codes, database, time, request, history>>

\* get_user_by_usph, and new_user_return_id.  The tables are made elsewhere;
\* that names are unique is what retrieve_by_unique counts on.
GetUser(name) == users[name]
NewUser(name, file) ==
    /\ users[name] = None
    /\ users' = [users EXCEPT ![name] = file]

\* finish_register: another name than the saved one is refused.
FinishRegister(saved, name) ==
    /\ name = saved.user
    /\ NewUser(name, saved.file)
    /\ UNCHANGED <<kv, keys, rows, nextId, time, request, history>>

StartLogin(person, name) ==
    /\ Cardinality(logins) < MaxLogins
    /\ logins' = logins \cup {[num |-> Cardinality(logins) + 1, by |-> person,
                               user |-> name, file |-> GetUser(name)]}
    /\ UNCHANGED <<flows, uploads, codes, database, time, request, history>>

Login(saved, name, flow) ==
    /\ saved.by = saved.file
    /\ codes' = StoreJson(codes, saved, [user |-> name, flow |-> flow])
    /\ consented' = consented \cup {[user |-> saved.user, verifier |-> flow]}
    /\ UNCHANGED <<flows, logins, uploads, database, time, request, issued,
                   granted, families>>

\* Mutant: finish_login takes the name without a look at the saved one.
FinishLoginUnnamed(saved, name, flow) == Login(saved, name, flow)

\* finish_login: the session key is the same whenever it is repeated, so the
\* code stands for the flow it was last sent with.
FinishLogin(saved, name, flow) ==
    /\ name = saved.user
    /\ Login(saved, name, flow)

\* Redis drops a code, which has then been stored twice.
Expire ==
    \E l \in DOMAIN codes :
        /\ codes[l].expires
        /\ codes' = Restrict(codes, DOMAIN codes \ {l})
    /\ UNCHANGED <<flows, logins, uploads, database, time, request, history>>

-----------------------------------------------------------------------------
(* Tokens.                                                                 *)

TokenRequestChecks(client, v, auth) ==
    /\ client = auth.client
    /\ v = auth.verifier

\* id_access_token: what the tokens of a family are about, saved with it.
IdAccessToken(user) == [sub |-> user]

SavedRefreshToken(family, access, iat, exp, nonce) ==
    [family |-> family, access |-> access, iat |-> iat, exp |-> exp,
     nonce |-> nonce]

\* psql_insert_return_id.
InsertReturnId(table, row) ==
    /\ nextId <= MaxRows
    /\ rows' = [i \in DOMAIN table \cup {nextId} |->
                   IF i = nextId THEN row ELSE table[i]]
    /\ nextId' = nextId + 1

\* The RefreshToken for a row that is inserted, which its holder keeps and
\* may send at any time, ...
RefreshToken(row) ==
    [id |-> nextId, family |-> row.family, nonce |-> row.nonce]

\* ... sealed by symmetric_crypt; symmetric_decrypt opens it with that key.
Sealed(key, tok) == [key |-> key, token |-> tok]
Opens(key, sealed) == sealed.key = key

\* get_finish_tokens: the access token that is signed from a row.
Granted(row, verifier) == [user |-> row.access.sub, verifier |-> verifier]

\* How new_token_family goes on where the database has the keys ks: to the
\* first that is missing, or, with the time, to what it saves.
WithKeys(r, ks) ==
    IF ks[Token] = None THEN [r EXCEPT !.op = "create", !.id = Token]
    ELSE IF ks[Symmetric] = None
    THEN [r EXCEPT !.op = "create", !.id = Symmetric]
    ELSE [r EXCEPT !.key = ks[Symmetric], !.now = time]

\* token, with a code: reads code and flow, and then what keys there are.
TokenCode(h, code, client, v) ==
    /\ request[h] = Idle
    /\ LET flowUser == GetJson(codes, code)
       IN  /\ flowUser.flow \in DOMAIN flows
           /\ TokenRequestChecks(client, v, GetJson(flows, flowUser.flow))
           /\ Continue(h, WithKeys([op |-> "family", user |-> flowUser.user,
                                       verifier |-> v, id |-> 0, key |-> None,
                                       now |-> time], keys))
    /\ UNCHANGED <<kv, database, time, history>>

\* new_ed448_keypair, which only those who verify tokens tell from others,
\* and new_symmetric_keypair.
NewKey(id, h) == IF id = Token THEN Token ELSE h

\* upsert_by_id.
UpsertById(table, id, row) == [table EXCEPT ![id] = row]

\* get_or_create_key: the new key goes over one that came in the meantime,
\* and the request goes on with it.
CreateKey(h) ==
    /\ request[h].op = "create"
    /\ LET r == request[h]
       IN  /\ keys' = UpsertById(keys, r.id, NewKey(r.id, h))
           /\ Continue(h, WithKeys([r EXCEPT !.op = "family", !.id = 0], keys'))
    /\ UNCHANGED <<kv, users, rows, nextId, time, history>>

\* The rest of new_token_family, with the insert of the first refresh token.
NewTokenFamily(h) ==
    /\ request[h].op = "family"
    /\ Cardinality(DOMAIN families) < MaxFamilies
    /\ LET r == request[h]
           row == SavedRefreshToken(nextId, IdAccessToken(r.user), r.now,
                                    r.now + RefreshExp, 0)
       IN  /\ InsertReturnId(rows, row)
           /\ issued' = issued \cup {Sealed(r.key, RefreshToken(row))}
           /\ granted' = granted \cup {Granted(row, r.verifier)}
           /\ families' = [f \in DOMAIN families \cup {nextId} |->
                              IF f = nextId
                              THEN [verifier |-> r.verifier,
                                    since |-> r.now, last |-> r.now]
                              ELSE families[f]]
    /\ Continue(h, Idle)
    /\ UNCHANGED <<kv, keys, users, time, consented>>

\* token, with a refresh token: refresh_all_tokens gets the keys, which are
\* there as a token is, and looks for the row of the token.
Refresh(h, sealed) ==
    /\ request[h] = Idle
    /\ Opens(keys[Symmetric], sealed)
    /\ LET tok == sealed.token
       IN  IF tok.id \notin DOMAIN rows
           THEN Continue(h, [op |-> "reuse", family |-> tok.family])
           ELSE /\ rows[tok.id].nonce = tok.nonce
                /\ rows[tok.id].family = tok.family
                /\ rows[tok.id].iat <= time
                /\ time <= rows[tok.id].exp + Grace
                /\ Continue(h, [op |-> "replace", id |-> tok.id,
                                key |-> keys[Symmetric],
                                old |-> rows[tok.id], now |-> time])
    /\ UNCHANGED <<kv, database, time, history>>

\* Mutant: the new refresh token is good for the whole period again.
NewRefreshLonger(old, now) ==
    [old EXCEPT !.iat = now, !.nonce = nextId, !.exp = now + RefreshExp]

\* new_refresh: another nonce and time of issue, the same end.
NewRefresh(old, now) == [old EXCEPT !.iat = now, !.nonce = nextId]

\* Mutant: as the comment at refresh.rs:65 has it, a row that is not there is
\* no reason to fail.
DeletedUnrequired(id) == TRUE

\* psql_delete_by_id_required.
Deleted(id) == id \in DOMAIN rows

\* delete_insert_return_id_transaction.
DeleteInsertReturnId(id, row) ==
    /\ Deleted(id)
    /\ InsertReturnId(Restrict(rows, DOMAIN rows \ {id}), row)

\* new_refresh_save: the transaction deletes the old row, if it still is
\* there, and inserts the next.  Otherwise it fails, and the family stays.
RefreshTransaction(h) ==
    /\ request[h].op = "replace"
    /\ LET r == request[h]
           row == NewRefresh(r.old, r.now)
       IN  \/ /\ DeleteInsertReturnId(r.id, row)
              /\ issued' = issued \cup {Sealed(r.key, RefreshToken(row))}
              /\ granted' = granted \cup
                    {Granted(row, families[row.family].verifier)}
              /\ families' = [families EXCEPT ![row.family].last = r.now]
           \/ /\ ~Deleted(r.id)
              /\ UNCHANGED <<rows, nextId, issued, granted, families>>
    /\ Continue(h, Idle)
    /\ UNCHANGED <<kv, keys, users, time, consented>>

\* A token whose row is gone has been used: delete_family sees the rows of
\* the family when the statement starts, ...
DeleteFamily(h) ==
    /\ request[h].op = "reuse"
    /\ Continue(h, [op |-> "delete",
                    ids |-> {i \in DOMAIN rows :
                                rows[i].family = request[h].family}])
    /\ UNCHANGED <<kv, database, time, history>>

\* ... and deletes those that are there when it gets to them.
DeleteRows(h) ==
    /\ request[h].op = "delete"
    /\ rows' = Restrict(rows, DOMAIN rows \ request[h].ids)
    /\ Continue(h, Idle)
    /\ UNCHANGED <<kv, keys, users, nextId, time, history>>

Next ==
    \/ Tick
    \/ Expire
    \/ \E client \in Clients, v \in Verifiers : OAuthEndpoint(client, v)
    \/ \E person \in Persons, name \in Names :
          \/ StartRegister(person, name)
          \/ StartLogin(person, name)
    \/ \E name \in Names :
          \/ \E saved \in uploads : FinishRegister(saved, name)
          \/ \E saved \in logins, flow \in Verifiers :
                FinishLogin(saved, name, flow)
    \/ \E h \in Handlers :
          \/ CreateKey(h)
          \/ \E code \in DOMAIN codes, client \in Clients, v \in Verifiers :
                TokenCode(h, code, client, v)
          \/ NewTokenFamily(h)
          \/ \E sealed \in issued : Refresh(h, sealed)
          \/ RefreshTransaction(h)
          \/ DeleteFamily(h)
          \/ DeleteRows(h)

Spec == Init /\ [][Next]_vars

-----------------------------------------------------------------------------
(***************************************************************************)
(* Tokens of a user, the first and those of every refresh, go only to      *)
(* whoever holds the verifier of a flow for which that user logged in with *)
(* the password, however codes are overwritten, repeated or sent for       *)
(* another flow.                                                           *)
(***************************************************************************)
TokensEarned == granted \subseteq consented

(***************************************************************************)
(* A family never splits: of concurrent requests with one refresh token    *)
(* at most one is answered with the next, so a family has one row at most. *)
(***************************************************************************)
FamilyHasOneRow ==
    \A i, j \in DOMAIN rows : rows[i].family = rows[j].family => i = j

(***************************************************************************)
(* Refreshing does not prolong: the last tokens of a family are handed out *)
(* within REFRESH_EXP and the period of grace of its first.                *)
(***************************************************************************)
FamilyLapses ==
    \A f \in DOMAIN families :
        families[f].last <= families[f].since + RefreshExp + Grace

=============================================================================
