------------------------------- MODULE Tiauth -------------------------------
(***************************************************************************)
(* One tiauth application (tiauth-core/src/ops, proof.rs, state.rs): the   *)
(* stored password files and claims, the tokens (Ephemerals) and sessions  *)
(* handed out, and request handlers that run concurrently.  A handler is   *)
(* cut where it reads the clock, the database or the set of used numbers   *)
(* again, so other handlers, the clock and restarts come in between.       *)
(*                                                                         *)
(* A password file is fresh for every upload (OPAQUE clients draw it at    *)
(* random).  The holder of a token or session may send it any number of    *)
(* times.  A request that cannot be read, or is for an application that is *)
(* not there, has no effect and is left out.                               *)
(* A restart keeps the database only: the counter, the set and the keys    *)
(* start anew, because get_or_create (store.rs) never inserts what it      *)
(* creates.  `epoch` numbers the keys.                                     *)
(***************************************************************************)
EXTENDS RangeSet, Credentials

CONSTANTS
    Users,
    Clients,            \* concurrent request handlers
    Values,             \* claims an application may set
    None,               \* no claims
    CounterExpires,     \* COUNTER_EXPIRES, EXPIRE_TIME and CHANGE_AGE of
    ExpireTime,         \* data.rs, in ticks
    ChangeAge,
    Quota,              \* bound: tokens of each type
    MaxFiles,           \* bound: password uploads
    MaxSessions,        \* bound: sessions
    MaxTime,            \* bound: ticks
    MaxEpoch            \* bound: restarts

ASSUME PeriodsAssumption == /\ CounterExpires \in Nat
                            /\ ExpireTime \in Nat
                            /\ ChangeAge \in Nat
ASSUME NoneAssumption == None \notin Values
ASSUME TiauthBounds == /\ Quota \in [TokenTypes -> Nat]
                       /\ MaxFiles \in Nat /\ MaxSessions \in Nat
                       /\ MaxTime \in Nat /\ MaxEpoch \in Nat

VARIABLES
    users,      \* database: each user's password file, NoFile if none
    claims,     \* database: each user's claims
    counter,    \* memory: the next number
    ranges,     \* memory: the set of used numbers
    epoch,      \* memory: which keys this process generated
    keyTime,    \* memory: when it generated them (ephemeral_time)
    time,       \* the clock of the application state
    request,    \* per client, the handler it is in the middle of
    files,      \* password files uploaded so far
    sessions,   \* sessions handed out
    uses,       \* history: tokens handed out, how often each had an effect
    since       \* history: when each user's password file was stored

database == <<users, claims>>
memory == <<counter, ranges, epoch, keyTime>>
history == <<uses, since>>
vars == <<database, memory, time, request, files, sessions, history>>

NoUser == "no_user"     \* the empty user id of a proof token
Idle == [op |-> "idle"]

tokens == DOMAIN uses

-----------------------------------------------------------------------------
(* Keys and validity.                                                      *)

\* EphemeralKey::compute: the key of the interval `now` falls in.
EphemeralKey(now) ==
    [epoch |-> epoch, index |-> (now - keyTime) \div EphemeralInterval]

\* Mutant: keys of earlier processes still verify.
VeriKeysOfAll(now) ==
    {k \in [epoch : 0 .. epoch, index : Nat] :
        k.index \in {EphemeralKey(now).index, EphemeralKey(now).index - 1}}

\* eph_veri_keys: the keys of this interval and of the one before.
VeriKeys(now) ==
    {k \in [epoch : {epoch}, index : Nat] :
        \/ k = EphemeralKey(now)
        \/ k.index + 1 = EphemeralKey(now).index}

Decrypts(tok, now) == Opens(tok, VeriKeys(now))

\* decrypt_session.  Nothing writes to the table of sessions.
DecryptsSession(s) == SessionDecrypts(s, [x \in {} |-> 0], {epoch}, time)

\* Mutant: a session is not compared with the stored file.
HonouredUncompared(s) == DecryptsSession(s) /\ Unexpired(Content(s).expires, time)

\* decrypt_session and verify_session at this moment.
Honoured(s) == DecryptsSession(s) /\ SessionVerify(s, time, users[Content(s).user])

Numbers(type) ==
    Cardinality({t \in tokens : Read(t).type = type}) < Quota[type]

HandOut(tok) ==
    /\ Numbers(Read(tok).type)
    /\ uses' = [t \in tokens \cup {tok} |->
                   IF t \in tokens THEN uses[t] ELSE 0]

Count(tok) == uses' = [uses EXCEPT ![tok] = @ + 1]

Continue(c, stage) == request' = [request EXCEPT ![c] = stage]

-----------------------------------------------------------------------------
Init ==
    /\ users = [u \in Users |-> NoFile]
    /\ claims = [u \in Users |-> None]
    /\ counter = 1
    /\ ranges = EmptyRanges
    /\ epoch = 0
    /\ keyTime = 0
    /\ time = 0
    /\ request = [c \in Clients |-> Idle]
    /\ files = 0
    /\ sessions = {}
    /\ uses = [t \in {} |-> 0]
    /\ since = [u \in Users |-> 0]

\* DriverState::drive_time.
Tick ==
    /\ time < MaxTime
    /\ time' = time + 1
    /\ UNCHANGED <<database, memory, request, files, sessions, history>>

\* The process stops and loads the application again.
Restart ==
    /\ epoch < MaxEpoch
    /\ counter' = 1
    /\ ranges' = EmptyRanges
    /\ epoch' = epoch + 1
    /\ keyTime' = time
    /\ request' = [c \in Clients |-> Idle]
    /\ UNCHANGED <<database, time, files, sessions, history>>

-----------------------------------------------------------------------------
(* Registration and change of password.                                    *)

\* start_register: anyone may ask, the user is looked up at the end only.
StartRegister(u) ==
    /\ HandOut(Create(EphemeralKey(time), u, EmptyState, "new_user", time))
    /\ UNCHANGED <<database, memory, time, request, files, sessions, since>>

\* register_finish up to the write transaction.
RegisterOpen(c, tok) ==
    /\ request[c] = Idle
    /\ Decrypts(tok, time)
    /\ Continue(c, [op |-> "register", tok |-> tok])
    /\ UNCHANGED <<database, memory, time, files, sessions, history>>

\* get_login, which finds nothing for the empty user id.
Stored(u) == IF u \in Users THEN users[u] ELSE NoFile

\* Mutant: a new user overwrites one who exists.
RegistersOver(tok) ==
    \/ VerifyStateEqual(tok, "new_user", EmptyState, time)
    \/ VerifyStateEqual(tok, "change_password",
                        ChangePasswordState(Stored(Read(tok).user)), time)

\* user_change_ephemeral: whether the token lets the upload be stored.  It
\* does for a new user, and for a change from the file it was issued for.
Registers(tok) ==
    \/ /\ Stored(Read(tok).user) = NoFile
       /\ VerifyStateEqual(tok, "new_user", EmptyState, time)
    \/ /\ Stored(Read(tok).user) # NoFile
       /\ VerifyStateEqual(tok, "change_password",
                           ChangePasswordState(Stored(Read(tok).user)), time)

\* The write transaction: stores the upload and commits, ...
RegisterCommit(c) ==
    /\ request[c].op = "register"
    /\ files < MaxFiles
    /\ LET tok == request[c].tok
       IN  /\ Registers(tok)
           /\ users' = [users EXCEPT ![Read(tok).user] = files + 1]
           /\ since' = [since EXCEPT ![Read(tok).user] = time]
           /\ Count(tok)
    /\ files' = files + 1
    /\ Continue(c, Idle)
    /\ UNCHANGED <<claims, memory, time, sessions>>

\* ... writes back what was there (a new user that exists), or gives up.
RegisterKeep(c) ==
    /\ request[c].op = "register"
    /\ ~Registers(request[c].tok)
    /\ Continue(c, Idle)
    /\ UNCHANGED <<database, memory, time, files, sessions, history>>

\* change_password: checks the session, which must be recent, ...
ChangeOpen(c, s) ==
    /\ request[c] = Idle
    /\ DecryptsSession(s)
    /\ LET user == Content(s).user
       IN  /\ SessionVerifyMaxAge(s, time, users[user], ChangeAge)
           /\ Continue(c, [op |-> "change", user |-> user,
                           file |-> users[user], key |-> EphemeralKey(time)])
    /\ UNCHANGED <<database, memory, time, files, sessions, history>>

\* ... reads the clock again and hands out a token for the file it saw.
ChangeIssue(c) ==
    /\ request[c].op = "change"
    /\ HandOut(Create(request[c].key, request[c].user,
                      ChangePasswordState(request[c].file), "change_password",
                      time))
    /\ Continue(c, Idle)
    /\ UNCHANGED <<database, memory, time, files, sessions, since>>

-----------------------------------------------------------------------------
(* Login.                                                                  *)

\* login_start reads the file (it panics if there is none), ...
LoginRead(c, u) ==
    /\ request[c] = Idle
    /\ users[u] # NoFile
    /\ Continue(c, [op |-> "login_start", user |-> u, file |-> users[u]])
    /\ UNCHANGED <<database, memory, time, files, sessions, history>>

\* ... and hands out a numbered token.
LoginIssue(c) ==
    /\ request[c].op = "login_start"
    /\ HandOut(CreateExpires(EphemeralKey(time), request[c].user,
                             LoginState(counter, request[c].file), "login",
                             time + CounterExpires))
    /\ counter' = counter + 1
    /\ Continue(c, Idle)
    /\ UNCHANGED <<database, ranges, epoch, keyTime, time, files, sessions,
                   since>>

\* login_finish decrypts the token and reads the file again.  (That the type
\* must be "login" is found out in the next step, to no effect.)
LoginOpen(c, tok) ==
    /\ request[c] = Idle
    /\ Read(tok).type = "login"
    /\ Decrypts(tok, time)
    /\ Continue(c, [op |-> "login_finish", tok |-> tok,
                    file |-> users[Read(tok).user]])
    /\ UNCHANGED <<database, memory, time, files, sessions, history>>

\* Mutants: the files are not compared; the number is not used up.
LoginVerifyUncompared(c) ==
    /\ request[c].op = "login_finish"
    /\ LET tok    == request[c].tok
           answer == NumExists(ranges, Read(tok).state.num, Read(tok).expires,
                               time)
       IN  /\ VerifyState(tok, "login", time)
           /\ ranges' = answer.ranges
           /\ Continue(c, IF answer.exists THEN Idle
                          ELSE [request[c] EXCEPT !.op = "session"])
    /\ UNCHANGED <<database, counter, epoch, keyTime, time, files, sessions,
                   history>>

LoginVerifyUnnumbered(c) ==
    /\ request[c].op = "login_finish"
    /\ VerifyState(request[c].tok, "login", time)
    /\ Continue(c, IF request[c].file # Read(request[c].tok).state.file THEN Idle
                   ELSE [request[c] EXCEPT !.op = "session"])
    /\ UNCHANGED <<database, memory, time, files, sessions, history>>

\* It reads the clock again, uses the number up and compares the files.
LoginVerify(c) ==
    /\ request[c].op = "login_finish"
    /\ LET tok    == request[c].tok
           answer == NumExists(ranges, Read(tok).state.num, Read(tok).expires,
                               time)
       IN  \/ /\ VerifyState(tok, "login", time)
              /\ ranges' = answer.ranges
              /\ Continue(c, IF \/ answer.exists
                                \/ request[c].file # Read(tok).state.file
                             THEN Idle
                             ELSE [request[c] EXCEPT !.op = "session"])
           \/ /\ ~VerifyState(tok, "login", time)
              /\ Continue(c, Idle)
              /\ UNCHANGED ranges
    /\ UNCHANGED <<database, counter, epoch, keyTime, time, files, sessions,
                   history>>

\* login_session reads the claims and creates the session if the client
\* proved the password of the token's file, ...
LoginSession(c) ==
    /\ request[c].op = "session"
    /\ Cardinality(sessions) < MaxSessions
    /\ LET tok  == request[c].tok
           user == Read(tok).user
       IN  /\ sessions' = sessions \cup
                 {Session(user, ExpireTime, request[c].file,
                          Read(tok).state.file, claims[user], epoch, time)}
           /\ Count(tok)
    /\ Continue(c, Idle)
    /\ UNCHANGED <<database, memory, time, files, since>>

\* ... or fails on a wrong password.
LoginRefuse(c) ==
    /\ request[c].op = "session"
    /\ Continue(c, Idle)
    /\ UNCHANGED <<database, memory, time, files, sessions, history>>

-----------------------------------------------------------------------------
(* Proofs: statements of the application, each signed over a proof token.  *)
(* The application may put one token in several proofs.                    *)

\* What the application states: all that is checked alike is tried once.
Statements ==
    {AboutUser(action, u) : action \in {"reset_password", "set_claims"}, u \in Users}
    \cup {ProofAction("read_users", "all", <<>>)}

\* The handlers that take a proof: what each goes on with once the proof of
\* the statement is verified and validated, {} if it is refused.
\* (get_users_bytes goes on to read the tables: Directory.tla.)
Goal(handler, about, value) ==
    CASE handler = "reset_password" ->
             {[op |-> "reset_password", user |-> u] :
                 u \in {v \in Users : /\ about = AboutUser(about.action, v)
                                     /\ ValidSingle({"reset_password"}, about)}}
      [] handler = "set_claims" ->
             {[op |-> "set_claims", user |-> u, value |-> value] :
                 u \in {v \in Users : /\ about = AboutUser(about.action, v)
                                     /\ ValidSingle({"set_claims"}, about)}}
      [] handler = "get_users" ->
             IF ValidAny({"read_users"}, about) THEN {Idle} ELSE {}

\* A client may send the proof of any statement to any of the handlers.
Goals == {Goal(handler, about, v) :
              handler \in {"reset_password", "set_claims", "get_users"},
              about \in Statements, v \in Values}

\* proof_token.
ProofToken ==
    /\ HandOut(Create(EphemeralKey(time), NoUser, ProofTokenState(counter),
                      "proof_token", time))
    /\ counter' = counter + 1
    /\ UNCHANGED <<database, ranges, epoch, keyTime, time, request, files,
                   sessions, since>>

\* A handler reads the clock and checks the proof.  (The proof's own expiry,
\* chosen by the application, only refuses more.)
ProofOpen(c, tok, goal) ==
    /\ request[c] = Idle
    /\ Decrypts(tok, time)
    /\ VerifyState(tok, "proof_token", time)
    /\ Continue(c, [op |-> "proof", tok |-> tok, goal |-> goal, now |-> time])
    /\ UNCHANGED <<database, memory, time, files, sessions, history>>

\* verify_proof uses the number up, and then the statement is validated: one
\* for another handler, or of a wrong kind, costs the token.
ProofVerify(c) ==
    /\ request[c].op = "proof"
    /\ LET tok    == request[c].tok
           answer == NumExists(ranges, Read(tok).state.num, Read(tok).expires,
                               request[c].now)
       IN  /\ ranges' = answer.ranges
           /\ \/ /\ answer.exists \/ request[c].goal = {}
                 /\ Continue(c, Idle)
                 /\ UNCHANGED uses
              \/ /\ ~answer.exists
                 /\ \E goal \in request[c].goal : Continue(c, goal)
                 /\ Count(tok)
    /\ UNCHANGED <<database, counter, epoch, keyTime, time, files, sessions,
                   since>>

\* user_set_claims stores the claims, whether or not the user exists.
SetClaims(c) ==
    /\ request[c].op = "set_claims"
    /\ claims' = [claims EXCEPT ![request[c].user] = request[c].value]
    /\ Continue(c, Idle)
    /\ UNCHANGED <<users, memory, time, files, sessions, history>>

\* reset_password reads the file; without one it gives up.
ResetRead(c) ==
    /\ request[c].op = "reset_password"
    /\ LET u == request[c].user
       IN  Continue(c, IF users[u] = NoFile THEN Idle
                       ELSE [op |-> "reset", user |-> u, file |-> users[u]])
    /\ UNCHANGED <<database, memory, time, files, sessions, history>>

\* It reads the clock again and hands out a token for that file.
ResetIssue(c) ==
    /\ request[c].op = "reset"
    /\ HandOut(Create(EphemeralKey(time), request[c].user,
                      ChangePasswordState(request[c].file), "change_password",
                      time))
    /\ Continue(c, Idle)
    /\ UNCHANGED <<database, memory, time, files, sessions, since>>

-----------------------------------------------------------------------------
Registration(c) ==
    \/ \E tok \in tokens : RegisterOpen(c, tok)
    \/ RegisterCommit(c)
    \/ RegisterKeep(c)
    \/ \E s \in sessions : ChangeOpen(c, s)
    \/ ChangeIssue(c)

Login(c) ==
    \/ \E u \in Users : LoginRead(c, u)
    \/ LoginIssue(c)
    \/ \E tok \in tokens : LoginOpen(c, tok)
    \/ LoginVerify(c)
    \/ LoginSession(c)
    \/ LoginRefuse(c)

WithProof(c) ==
    \/ \E tok \in tokens, goal \in Goals : ProofOpen(c, tok, goal)
    \/ ProofVerify(c)
    \/ SetClaims(c)
    \/ ResetRead(c)
    \/ ResetIssue(c)

Next ==
    \/ Tick
    \/ Restart
    \/ \E u \in Users : StartRegister(u)
    \/ ProofToken
    \/ \E c \in Clients : Registration(c) \/ Login(c) \/ WithProof(c)

Spec == Init /\ [][Next]_vars

-----------------------------------------------------------------------------
Key == [epoch : Nat, index : Nat]
TokenSet == [key : Key,
             bytes : (Users \cup {NoUser}) \X Nat \X [file : Nat, num : Nat]
                         \X TokenTypes]
SessionSet == [proved : Nat,
               sealed : [key : Nat,
                         bytes : (Users \X Nat \X Nat) \X Nat
                                     \X (Values \cup {None})]]
Requests ==
    {Idle}
    \cup [op : {"register"}, tok : tokens]
    \cup [op : {"change"}, user : Users, file : Nat, key : Key]
    \cup [op : {"login_start", "reset"}, user : Users, file : Nat]
    \cup [op : {"login_finish", "session"}, tok : tokens, file : Nat]
    \cup [op : {"proof"}, tok : tokens, goal : Goals, now : Nat]
    \cup UNION Goals

\* Every variable has its type; tokens in requests were handed out.
TypeOK ==
    /\ users \in [Users -> 0 .. files]
    /\ claims \in [Users -> Values \cup {None}]
    /\ counter \in Nat \ {0}
    /\ ranges \in Seq(RangeType)
    /\ epoch \in Nat /\ keyTime \in Nat /\ time \in Nat /\ files \in Nat
    /\ request \in [Clients -> Requests]
    /\ sessions \subseteq SessionSet
    /\ tokens \subseteq TokenSet
    /\ uses \in [tokens -> Nat]
    /\ since \in [Users -> Nat]

\* The tokens with a number, and those that the set of used numbers is exact for:
\* without a number, or with one that the list reaches before it grows.
Numbered == {"login", "proof_token"}
Low(tok) == Read(tok).type \in Numbered => Read(tok).state.num < N
LowUses == [tok \in {t \in tokens : Low(t)} |-> uses[tok]]

(***************************************************************************)
(* The promise behind every handler, as far as it is kept: a login token   *)
(* starts one session, a proof token proves one thing, a token for a       *)
(* password file replaces it once, across concurrent duplicates, wrong     *)
(* turns and restarts.  It is kept for tokens without a number and for     *)
(* numbers below N, also while the list grows for others; a number that    *)
(* makes the list grow is not recorded (counter.rs:321), so its token has  *)
(* another effect, see ProofsWorkAtMostThrice in TiauthProofs.             *)
(***************************************************************************)
Once == INSTANCE OneTime WITH Permits <- TokenSet, uses <- LowUses
TokensWorkOnce == Once!Spec

(***************************************************************************)
(* No lost update: a password changes only by using up a token that was    *)
(* handed out for exactly the password it replaces, also when two changes, *)
(* a reset and a registration of the same user race (register.rs:141).     *)
(***************************************************************************)
ReplacesWhatItSaw ==
    [][\A u \in Users : users'[u] # users[u] =>
          \E tok \in tokens : /\ Read(tok).user = u
                              /\ Read(tok).state.file = users[u]
                              /\ uses[tok] = 0
                              /\ uses'[tok] = 1]_vars

(***************************************************************************)
(* A session stands for a proved password: the file it is bound to is the  *)
(* one its login ran against, though the password may change at any point  *)
(* of the login.                                                           *)
(***************************************************************************)
SessionProvesPassword == \A s \in sessions : Content(s).file = s.proved

(***************************************************************************)
(* A change of password ends every session from before it, and also one    *)
(* that a login already under way creates after it with the old password:  *)
(* an honoured session was created no earlier than the present password    *)
(* was stored, by a login that proved the present password (login.rs:92).  *)
(***************************************************************************)
HonouredSinceChange ==
    \A s \in sessions :
        Honoured(s) => /\ s.proved = users[Content(s).user]
                       /\ Content(s).issued >= since[Content(s).user]

(***************************************************************************)
(* A restart ends everything handed out before: only tokens of the present *)
(* process have effects.  Numbers start over, so a token that survived     *)
(* could be used again.                                                    *)
(***************************************************************************)
OnlyOwnTokens ==
    [][\A tok \in tokens : uses'[tok] # uses[tok] => tok.key.epoch = epoch]_vars

=============================================================================
