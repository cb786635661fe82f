---------------------------- MODULE TiauthProofs ----------------------------
(***************************************************************************)
(* Theorems about Tiauth for every set of users and clients, every period, *)
(* every N and all bounds: what a session stands for, which tokens have    *)
(* effects, and that no password change is lost.                           *)
(***************************************************************************)
EXTENDS Tiauth, RangeSetProofs

-----------------------------------------------------------------------------
(* The inductive invariant.                                                *)

\* A token of an earlier process carries an earlier key, a file that is there
\* already, and a user unless it is for a proof; a number of this process is
\* one that was handed out.
TokenOK(tok) ==
    /\ tok \in TokenSet
    /\ tok.key.epoch <= epoch
    /\ Read(tok).state.file <= files
    /\ Read(tok).type # "proof_token" => Read(tok).user \in Users
    /\ Read(tok).type \in Numbered =>
           /\ Read(tok).state.num >= 1
           /\ tok.key.epoch = epoch => Read(tok).state.num < counter

\* A handler works for tokens of this process only, of the right type.
Own(types) ==
    {tok \in tokens : tok.key.epoch = epoch /\ Read(tok).type \in types}

\* The stages of the handlers, and what is known in each.
Stages ==
    {Idle}
    \cup [op : {"register"}, tok : Own(TokenTypes)]
    \cup [op : {"change"}, user : Users, file : 0 .. files,
          key : [epoch : {epoch}, index : Nat]]
    \cup [op : {"login_start", "reset"}, user : Users, file : 0 .. files]
    \cup [op : {"login_finish", "session"}, tok : Own({"login"}),
          file : 0 .. files]
    \cup [op : {"proof"}, tok : Own({"proof_token"}), goal : Goals, now : Nat]
    \cup UNION Goals

StagesOK ==
    /\ request \in [Clients -> Stages]
    /\ \A c \in Clients : request[c].op = "session" =>
           request[c].file = Read(request[c].tok).state.file

\* A session names a file that is there already; if it still is the stored
\* one, it was so at the time the session was created.
SessionOK(s) ==
    /\ s \in SessionSet
    /\ Content(s).file <= files
    /\ Content(s).file = s.proved
    /\ users[Content(s).user] = Content(s).file
           => Content(s).issued >= since[Content(s).user]

\* What a token for a password file did cannot be done with it again: there
\* is a file, or another one.
SpentOK(tok) ==
    uses[tok] > 0 =>
        /\ Read(tok).type = "new_user" => users[Read(tok).user] # NoFile
        /\ Read(tok).type = "change_password"
               => users[Read(tok).user] # Read(tok).state.file

ClocksOK == keyTime <= time /\ \A u \in Users : since[u] <= time

IInv ==
    /\ TypeOK
    /\ Chained(ranges)
    /\ ClocksOK
    /\ StagesOK
    /\ \A tok \in tokens : TokenOK(tok) /\ SpentOK(tok)
    /\ \A s \in sessions : SessionOK(s)

-----------------------------------------------------------------------------
(* Tokens, sessions, keys and stages.                                      *)

\* Reading a token gives back what it was created with.
LEMMA ReadCreated ==
    ASSUME NEW key, NEW user, NEW state, NEW type, NEW expires
    PROVE  LET tok == CreateExpires(key, user, state, type, expires)
           IN  /\ tok.key = key
               /\ Read(tok).user = user
               /\ Read(tok).state = state
               /\ Read(tok).type = type
               /\ Read(tok).expires = expires
BY DEF CreateExpires, Sealed, EphemeralBytes, EphemeralContent, Read,
       EphemeralOf

\* A token created from good parts is one.
LEMMA CreatedToken ==
    ASSUME NEW key \in Key, NEW user \in Users \cup {NoUser},
           NEW state \in [file : Nat, num : Nat], NEW type \in TokenTypes,
           NEW expires \in Nat
    PROVE  CreateExpires(key, user, state, type, expires) \in TokenSet
BY DEF CreateExpires, Sealed, EphemeralBytes, EphemeralContent, TokenSet

\* What a token is made of.
LEMMA TokenParts ==
    ASSUME NEW tok \in TokenSet
    PROVE  /\ tok.key \in Key
           /\ Read(tok).user \in Users \cup {NoUser}
           /\ Read(tok).expires \in Nat
           /\ Read(tok).state \in [file : Nat, num : Nat]
           /\ Read(tok).state.file \in Nat /\ Read(tok).state.num \in Nat
           /\ Read(tok).type \in TokenTypes
<1>1. /\ tok.key \in Key
      /\ tok.bytes \in (Users \cup {NoUser}) \X Nat \X [file : Nat, num : Nat]
                           \X TokenTypes
    BY DEF TokenSet
<1>2. /\ tok.bytes[1] \in Users \cup {NoUser}
      /\ tok.bytes[2] \in Nat
      /\ tok.bytes[3] \in [file : Nat, num : Nat]
      /\ tok.bytes[4] \in TokenTypes
    BY <1>1
<1> QED
    BY <1>1, <1>2 DEF Read, EphemeralOf, EphemeralContent

\* What a session says is what it was created with.
LEMMA SessionParts ==
    ASSUME NEW user, NEW expiresIn, NEW file, NEW proved, NEW data, NEW key,
           NEW now
    PROVE  LET s == Session(user, expiresIn, file, proved, data, key, now)
           IN  /\ s.proved = proved
               /\ Content(s).user = user
               /\ Content(s).issued = now
               /\ Content(s).file = file
BY DEF Session, Sealed, SessionBytes, SessionContent, Content, SessionOf

\* A session created from good parts is one.
LEMMA CreatedSession ==
    ASSUME NEW user \in Users, NEW expiresIn \in Nat, NEW file \in Nat,
           NEW proved \in Nat, NEW data \in Values \cup {None}, NEW key \in Nat,
           NEW now \in Nat
    PROVE  Session(user, expiresIn, file, proved, data, key, now) \in SessionSet
<1>1. now + expiresIn \in Nat
    OBVIOUS
<1> QED
    BY <1>1 DEF Session, Sealed, SessionBytes, SessionContent, SessionSet

\* What a session is made of.
LEMMA SessionElements ==
    ASSUME NEW s \in SessionSet
    PROVE  /\ Content(s).user \in Users
           /\ Content(s).issued \in Nat
           /\ Content(s).file \in Nat
           /\ s.proved \in Nat
<1>1. /\ s.sealed.bytes \in (Users \X Nat \X Nat) \X Nat \X (Values \cup {None})
      /\ s.proved \in Nat
    BY DEF SessionSet
<1>2. s.sealed.bytes[1] \in Users \X Nat \X Nat /\ s.sealed.bytes[2] \in Nat
    BY <1>1
<1>3. s.sealed.bytes[1][1] \in Users /\ s.sealed.bytes[1][2] \in Nat
    BY <1>2
<1> QED
    BY <1>1, <1>2, <1>3 DEF Content, SessionOf, SessionContent

\* The key of the moment is one, and of this process.
LEMMA KeyOfNow ==
    ASSUME TypeOK, ClocksOK
    PROVE  /\ EphemeralKey(time) \in [epoch : {epoch}, index : Nat]
           /\ EphemeralKey(time) \in Key
           /\ EphemeralKey(time).epoch = epoch
<1>1. time - keyTime \in Nat /\ epoch \in Nat
    BY DEF TypeOK, ClocksOK
<1>2. \A a \in Nat, b \in Nat \ {0} : a \div b \in Nat
    OBVIOUS
<1>3. (time - keyTime) \div EphemeralInterval \in Nat
    BY <1>1, <1>2, IntervalAssumption
<1> QED
    BY <1>1, <1>3 DEF EphemeralKey, Key

\* A token that decrypts was encrypted by this process.
LEMMA DecryptsOwn ==
    ASSUME NEW tok, NEW now, Decrypts(tok, now)
    PROVE  tok.key.epoch = epoch
BY DEF Decrypts, Opens, VeriKeys

\* What a handler goes on with after a proof.
LEMMA GoalStages ==
    ASSUME NEW goal \in Goals, NEW stage \in goal
    PROVE  \/ stage = Idle
           \/ stage \in [op : {"reset_password"}, user : Users]
           \/ stage \in [op : {"set_claims"}, user : Users, value : Values]
<1>1. PICK handler \in {"reset_password", "set_claims", "get_users"},
           about \in Statements, v \in Values : goal = Goal(handler, about, v)
    BY DEF Goals
<1>2. CASE handler = "reset_password"
    BY <1>1, <1>2 DEF Goal
<1>3. CASE handler = "set_claims"
    BY <1>1, <1>3 DEF Goal
<1>4. CASE handler = "get_users"
    BY <1>1, <1>4 DEF Goal
<1> QED
    BY <1>1, <1>2, <1>3, <1>4

\* What is known of a handler by its stage.
LEMMA StageParts ==
    ASSUME StagesOK, NEW c \in Clients
    PROVE  /\ request[c] \in Stages
           /\ request[c].op = "register" => request[c].tok \in Own(TokenTypes)
           /\ request[c].op = "change" =>
                 /\ request[c].user \in Users /\ request[c].file \in 0 .. files
                 /\ request[c].key \in [epoch : {epoch}, index : Nat]
           /\ request[c].op \in {"login_start", "reset"} =>
                 request[c].user \in Users /\ request[c].file \in 0 .. files
           /\ request[c].op \in {"login_finish", "session"} =>
                 /\ request[c].tok \in Own({"login"})
                 /\ request[c].file \in 0 .. files
                 /\ request[c] \in [op : {"login_finish", "session"},
                                    tok : Own({"login"}), file : 0 .. files]
           /\ request[c].op = "session" =>
                 request[c].file = Read(request[c].tok).state.file
           /\ request[c].op = "proof" =>
                 /\ request[c].tok \in Own({"proof_token"})
                 /\ request[c].goal \in Goals /\ request[c].now \in Nat
           /\ request[c].op \in {"reset_password", "set_claims"} =>
                 request[c].user \in Users
           /\ request[c].op = "set_claims" => request[c].value \in Values
<1> DEFINE r == request[c]
<1>1. r \in Stages
    BY DEF StagesOK
<1>2. r.op = "session" => r.file = Read(r.tok).state.file
    BY DEF StagesOK
<1> HIDE DEF r
<1>3. CASE r \in UNION Goals
    <2>1. \/ r = Idle
          \/ r \in [op : {"reset_password"}, user : Users]
          \/ r \in [op : {"set_claims"}, user : Users, value : Values]
        BY <1>3, GoalStages
    <2> QED BY <1>1, <1>2, <2>1 DEF Idle, r
<1>4. CASE r \in {Idle}
    BY <1>1, <1>2, <1>4 DEF Idle, r
<1>5. CASE r \in [op : {"register"}, tok : Own(TokenTypes)]
    BY <1>1, <1>2, <1>5 DEF r
<1>6. CASE r \in [op : {"change"}, user : Users, file : 0 .. files,
                  key : [epoch : {epoch}, index : Nat]]
    BY <1>1, <1>2, <1>6 DEF r
<1>7. CASE r \in [op : {"login_start", "reset"}, user : Users,
                  file : 0 .. files]
    BY <1>1, <1>2, <1>7 DEF r
<1>8. CASE r \in [op : {"login_finish", "session"}, tok : Own({"login"}),
                  file : 0 .. files]
    BY <1>1, <1>2, <1>8 DEF r
<1>9. CASE r \in [op : {"proof"}, tok : Own({"proof_token"}), goal : Goals,
                  now : Nat]
    BY <1>1, <1>2, <1>9 DEF r
<1> QED
    BY <1>1, <1>3, <1>4, <1>5, <1>6, <1>7, <1>8, <1>9 DEF Stages

\* Stages stay what they are as tokens and files are added.
LEMMA StagesGrow ==
    ASSUME tokens \subseteq tokens', files \in Nat, files' \in Nat,
           files <= files', epoch' = epoch
    PROVE  Stages \subseteq Stages'
<1>1. 0 .. files \subseteq 0 .. files'
    OBVIOUS
<1>2. \A types : Own(types) \subseteq Own(types)'
    BY DEF Own
<1> QED
    BY <1>1, <1>2 DEF Stages

\* Stages carry no more than requests may.
LEMMA StagesAreRequests ==
    ASSUME epoch' \in Nat, files' \in Nat
    PROVE  Stages' \subseteq Requests'
<1>1. 0 .. files' \subseteq Nat /\ [epoch : {epoch'}, index : Nat] \subseteq Key
    BY DEF Key
<1>2. \A types : Own(types)' \subseteq tokens'
    BY DEF Own
<1> QED
    BY <1>1, <1>2 DEF Stages, Requests

-----------------------------------------------------------------------------
(* Steps that change alike.                                                *)

\* One handler goes on, or none.
LEMMA ContinueStages ==
    ASSUME StagesOK, NEW c \in Clients, NEW stage \in Stages',
           Continue(c, stage) \/ request' = request,
           stage.op = "session" => stage.file = Read(stage.tok).state.file,
           tokens \subseteq tokens', epoch' = epoch, epoch \in Nat,
           files \in Nat, files' \in Nat, files <= files'
    PROVE  StagesOK' /\ request' \in [Clients -> Requests']
<1>1. Stages \subseteq Stages' /\ Stages' \subseteq Requests'
    BY StagesGrow, StagesAreRequests
<1>2. request \in [Clients -> Stages]
    BY DEF StagesOK
<1>3. request' \in [Clients -> Stages']
    BY <1>1, <1>2 DEF Continue
<1>4. \A d \in Clients :
          request'[d] = request[d] \/ request'[d] = stage
    BY <1>2 DEF Continue
<1>5. \A d \in Clients : request'[d].op = "session" =>
          request'[d].file = Read(request'[d].tok).state.file
    BY <1>4 DEF StagesOK
<1> QED
    BY <1>1, <1>3, <1>5 DEF StagesOK

\* A handler goes on and nothing else happens.
LEMMA StageStep ==
    ASSUME IInv, NEW c \in Clients, NEW stage \in Stages, Continue(c, stage),
           stage.op = "session" => stage.file = Read(stage.tok).state.file,
           UNCHANGED <<database, memory, time, files, sessions, history>>
    PROVE  IInv'
<1>1. /\ users' = users /\ claims' = claims /\ counter' = counter
      /\ ranges' = ranges /\ epoch' = epoch /\ keyTime' = keyTime
      /\ time' = time /\ files' = files /\ sessions' = sessions
      /\ uses' = uses /\ since' = since /\ tokens' = tokens
    BY DEF database, memory, history, tokens
<1>2. TypeOK /\ StagesOK /\ epoch \in Nat /\ files \in Nat
    BY DEF IInv, TypeOK
<1>3. stage \in Stages'
    BY <1>1, <1>2, StagesGrow
<1>4. StagesOK' /\ request' \in [Clients -> Requests']
    BY <1>1, <1>2, <1>3, ContinueStages
<1>5. TypeOK'
    BY <1>1, <1>2, <1>4 DEF TypeOK
<1>6. \A tok \in tokens' : TokenOK(tok)' /\ SpentOK(tok)'
    BY <1>1 DEF IInv, TokenOK, SpentOK
<1>7. \A x \in sessions' : SessionOK(x)'
    BY <1>1 DEF IInv, SessionOK
<1> QED
    BY <1>1, <1>4, <1>5, <1>6, <1>7 DEF IInv, ClocksOK

\* A token is handed out, numbered or not, and its handler is done.
LEMMA HandOutStep ==
    ASSUME IInv, NEW tok, HandOut(tok),
           tok \in TokenSet, tok.key.epoch = epoch,
           Read(tok).state.file <= files,
           Read(tok).type # "proof_token" => Read(tok).user \in Users,
           Read(tok).type \in Numbered =>
               Read(tok).state.num = counter /\ counter' = counter + 1,
           counter' = counter \/ counter' = counter + 1,
           request' = request \/ \E c \in Clients : Continue(c, Idle),
           UNCHANGED <<database, ranges, epoch, keyTime, time, files, sessions,
                       since>>
    PROVE  IInv'
<1>1. /\ users' = users /\ claims' = claims
      /\ ranges' = ranges /\ epoch' = epoch /\ keyTime' = keyTime
      /\ time' = time /\ files' = files /\ sessions' = sessions
      /\ since' = since
    BY DEF database
<1>2. /\ TypeOK /\ StagesOK /\ epoch \in Nat /\ files \in Nat
      /\ counter \in Nat \ {0} /\ uses \in [tokens -> Nat]
      /\ tokens \subseteq TokenSet
    BY DEF IInv, TypeOK
<1>3. /\ uses' = [t \in tokens \cup {tok} |->
                     IF t \in tokens THEN uses[t] ELSE 0]
      /\ tokens' = tokens \cup {tok}
    BY DEF HandOut, tokens
<1>4. StagesOK' /\ request' \in [Clients -> Requests']
    <2>1. Idle \in Stages' /\ Idle.op # "session"
        BY DEF Stages, Idle
    <2>2. CASE \E c \in Clients : Continue(c, Idle)
        BY <1>1, <1>2, <1>3, <2>1, <2>2, ContinueStages
    <2>3. CASE request' = request
        <3>1. Stages \subseteq Stages' /\ Stages' \subseteq Requests'
            BY <1>1, <1>2, <1>3, StagesGrow, StagesAreRequests
        <3> QED BY <2>3, <3>1 DEF IInv, StagesOK
    <2> QED BY <2>2, <2>3
<1>5. TypeOK'
    <2>1. uses' \in [tokens' -> Nat] /\ tokens' \subseteq TokenSet
        BY <1>2, <1>3
    <2> QED BY <1>1, <1>2, <1>4, <2>1 DEF TypeOK
<1>6. ASSUME NEW t \in tokens' PROVE TokenOK(t)' /\ SpentOK(t)'
    <2>1. counter' \in Nat /\ counter <= counter'
        BY <1>2
    <2>2. CASE t \in tokens
        <3>1. uses'[t] = uses[t]
            BY <1>3, <2>2
        <3>2. SpentOK(t)'
            BY <1>1, <2>2, <3>1 DEF IInv, SpentOK
        <3>3. TokenOK(t) /\ Read(t).state.num \in Nat
            BY <1>2, <2>2, TokenParts DEF IInv
        <3>4. TokenOK(t)'
            BY <1>1, <1>2, <2>1, <3>3 DEF TokenOK
        <3> QED BY <3>2, <3>4
    <2>3. CASE t \notin tokens
        <3>1. t = tok /\ uses'[t] = 0
            BY <1>3, <2>3
        <3>2. TokenOK(t)'
            BY <1>1, <1>2, <3>1 DEF TokenOK
        <3> QED BY <3>1, <3>2 DEF SpentOK
    <2> QED BY <2>2, <2>3
<1>7. \A x \in sessions' : SessionOK(x)'
    BY <1>1 DEF IInv, SessionOK
<1> QED
    BY <1>1, <1>4, <1>5, <1>6, <1>7 DEF IInv, ClocksOK

\* Counting the use of a numbered token.
LEMMA CountNumbered ==
    ASSUME IInv, NEW tok \in tokens, Read(tok).type \in Numbered, Count(tok),
           users' = users
    PROVE  /\ tokens' = tokens
           /\ uses' \in [tokens -> Nat]
           /\ \A t \in tokens : SpentOK(t)'
<1>1. uses \in [tokens -> Nat] /\ uses' = [uses EXCEPT ![tok] = @ + 1]
    BY DEF IInv, TypeOK, Count
<1>2. tokens' = tokens /\ uses' \in [tokens -> Nat]
    BY <1>1 DEF tokens
<1>3. ASSUME NEW t \in tokens PROVE SpentOK(t)'
    <2>1. CASE t = tok
        BY <2>1 DEF SpentOK, Numbered
    <2>2. CASE t # tok
        <3>1. uses'[t] = uses[t]
            BY <1>1, <2>2
        <3> QED BY <3>1 DEF IInv, SpentOK
    <2> QED BY <2>1, <2>2
<1> QED
    BY <1>2, <1>3

\* A number is presented: the list stays one, and the token counts as used or
\* not.
LEMMA PresentStep ==
    ASSUME IInv, NEW c \in Clients, NEW tok \in tokens,
           Read(tok).type \in Numbered, NEW now \in Nat,
           ranges' = NumExists(ranges, Read(tok).state.num, Read(tok).expires,
                               now).ranges,
           NEW stage \in Stages, Continue(c, stage),
           stage.op = "session" => stage.file = Read(stage.tok).state.file,
           uses' = uses \/ Count(tok),
           UNCHANGED <<database, counter, epoch, keyTime, time, files, sessions,
                       since>>
    PROVE  IInv'
<1>1. /\ users' = users /\ claims' = claims /\ counter' = counter
      /\ epoch' = epoch /\ keyTime' = keyTime
      /\ time' = time /\ files' = files /\ sessions' = sessions
      /\ since' = since
    BY DEF database
<1>2. /\ TypeOK /\ StagesOK /\ epoch \in Nat /\ files \in Nat
      /\ uses \in [tokens -> Nat] /\ tokens \subseteq TokenSet
    BY DEF IInv, TypeOK
<1>3. /\ tokens' = tokens /\ uses' \in [tokens -> Nat]
      /\ \A t \in tokens : SpentOK(t)'
    <2>1. CASE uses' = uses
        BY <1>1, <1>2, <2>1 DEF tokens, IInv, SpentOK
    <2>2. CASE Count(tok)
        BY <1>1, <2>2, CountNumbered
    <2> QED BY <2>1, <2>2
<1>4. StagesOK' /\ request' \in [Clients -> Requests']
    <2>1. stage \in Stages'
        BY <1>1, <1>2, <1>3, StagesGrow
    <2> QED BY <1>1, <1>2, <1>3, <2>1, ContinueStages
<1>5. ranges' \in Seq(RangeType) /\ Chained(ranges')
    <2> DEFINE n == Read(tok).state.num
               expires == Read(tok).expires
    <2>1. n \in Nat /\ n >= 1 /\ expires \in Nat
        BY <1>2, TokenParts DEF IInv, TokenOK
    <2>2. ListOK(ranges)
        BY DEF IInv, TypeOK, ListOK
    <2>3. ranges' = NumExists(ranges, n, expires, now).ranges
        OBVIOUS
    <2> HIDE DEF n, expires
    <2>4. ListOK(ranges')
        BY <2>1, <2>2, <2>3, NumExistsChained
    <2> QED BY <2>4 DEF ListOK
<1>6. TypeOK'
    BY <1>1, <1>2, <1>3, <1>4, <1>5 DEF TypeOK
<1>7. \A t \in tokens' : TokenOK(t)'
    BY <1>1, <1>3 DEF IInv, TokenOK
<1>8. \A x \in sessions' : SessionOK(x)'
    BY <1>1 DEF IInv, SessionOK
<1> QED
    BY <1>1, <1>3, <1>4, <1>5, <1>6, <1>7, <1>8 DEF IInv, ClocksOK

-----------------------------------------------------------------------------
(* The invariant is inductive: first the start, the clock and restarts.    *)

\* Nothing has been handed out at the start.
LEMMA InitIInv == Init => IInv
<1> SUFFICES ASSUME Init PROVE IInv
    OBVIOUS
<1>1. tokens = {} /\ sessions = {} /\ uses \in [tokens -> Nat]
    BY DEF Init, tokens
<1>2. ListOK(ranges)
    BY EmptyRangesChained DEF Init
<1>3. Idle \in Stages /\ Idle \in Requests /\ Idle.op # "session"
    BY DEF Stages, Requests, Idle
<1>4. StagesOK
    BY <1>3 DEF Init, StagesOK
<1>5. TypeOK
    BY <1>1, <1>2, <1>3 DEF Init, TypeOK, NoFile, ListOK
<1> QED
    BY <1>1, <1>2, <1>4, <1>5 DEF Init, IInv, ClocksOK, ListOK

\* The clock goes on.
LEMMA TickIInv == IInv /\ Tick => IInv'
<1> SUFFICES ASSUME IInv, Tick PROVE IInv'
    OBVIOUS
<1>1. /\ users' = users /\ claims' = claims /\ counter' = counter
      /\ ranges' = ranges /\ epoch' = epoch /\ keyTime' = keyTime
      /\ request' = request /\ files' = files /\ sessions' = sessions
      /\ uses' = uses /\ since' = since /\ tokens' = tokens
      /\ time' = time + 1
    BY DEF Tick, database, memory, history, tokens
<1>2. TypeOK /\ StagesOK /\ epoch \in Nat /\ files \in Nat /\ time \in Nat
    BY DEF IInv, TypeOK
<1>3. StagesOK' /\ request' \in [Clients -> Requests']
    <2>1. Stages \subseteq Stages' /\ Stages' \subseteq Requests'
        BY <1>1, <1>2, StagesGrow, StagesAreRequests
    <2> QED BY <1>1, <2>1 DEF IInv, StagesOK
<1>4. TypeOK'
    BY <1>1, <1>2, <1>3 DEF TypeOK
<1>5. ClocksOK'
    BY <1>1, <1>2 DEF IInv, ClocksOK, TypeOK
<1>6. \A tok \in tokens' : TokenOK(tok)' /\ SpentOK(tok)'
    BY <1>1 DEF IInv, TokenOK, SpentOK
<1>7. \A x \in sessions' : SessionOK(x)'
    BY <1>1 DEF IInv, SessionOK
<1> QED
    BY <1>1, <1>3, <1>4, <1>5, <1>6, <1>7 DEF IInv

\* A new process has keys, a counter and a set of its own; its handlers know
\* of nothing.
LEMMA RestartIInv == IInv /\ Restart => IInv'
<1> SUFFICES ASSUME IInv, Restart PROVE IInv'
    OBVIOUS
<1>1. /\ users' = users /\ claims' = claims /\ counter' = 1
      /\ ranges' = EmptyRanges /\ epoch' = epoch + 1 /\ keyTime' = time
      /\ request' = [c \in Clients |-> Idle]
      /\ time' = time /\ files' = files /\ sessions' = sessions
      /\ uses' = uses /\ since' = since /\ tokens' = tokens
    BY DEF Restart, database, memory, history, tokens
<1>2. /\ TypeOK /\ epoch \in Nat /\ files \in Nat /\ time \in Nat
      /\ tokens \subseteq TokenSet
    BY DEF IInv, TypeOK
<1>3. ListOK(ranges')
    BY <1>1, EmptyRangesChained
<1>4. StagesOK' /\ request' \in [Clients -> Requests']
    <2>1. Idle \in Stages' /\ Idle \in Requests' /\ Idle.op # "session"
        BY DEF Stages, Requests, Idle
    <2> QED BY <1>1, <2>1 DEF StagesOK
<1>5. TypeOK'
    BY <1>1, <1>2, <1>3, <1>4 DEF TypeOK, ListOK
<1>6. ClocksOK'
    BY <1>1, <1>2 DEF IInv, ClocksOK
<1>7. ASSUME NEW tok \in tokens' PROVE TokenOK(tok)' /\ SpentOK(tok)'
    <2>1. tok \in TokenSet /\ tok.key.epoch \in Nat
        BY <1>1, <1>2, <1>7, TokenParts DEF Key
    <2>2. tok.key.epoch <= epoch /\ tok.key.epoch # epoch'
        BY <1>1, <1>2, <1>7, <2>1 DEF IInv, TokenOK
    <2>3. TokenOK(tok)'
        BY <1>1, <1>2, <1>7, <2>1, <2>2 DEF IInv, TokenOK
    <2> QED BY <1>1, <1>7, <2>3 DEF IInv, SpentOK
<1>8. \A x \in sessions' : SessionOK(x)'
    BY <1>1 DEF IInv, SessionOK
<1> QED
    BY <1>3, <1>4, <1>5, <1>6, <1>7, <1>8 DEF IInv, ListOK

-----------------------------------------------------------------------------
(* Registration and change of password.                                    *)

\* What a step of a handler starts from.
LEMMA Typed ==
    ASSUME IInv
    PROVE  /\ TypeOK /\ ClocksOK /\ StagesOK
           /\ epoch \in Nat /\ files \in Nat /\ time \in Nat
           /\ counter \in Nat /\ counter >= 1 /\ keyTime \in Nat
           /\ users \in [Users -> 0 .. files]
           /\ tokens \subseteq TokenSet /\ uses \in [tokens -> Nat]
           /\ sessions \subseteq SessionSet
BY DEF IInv, TypeOK

\* start_register hands out a token for a user.
LEMMA StartRegisterIInv ==
    ASSUME IInv, NEW u \in Users, StartRegister(u)
    PROVE  IInv'
<1> DEFINE tok == Create(EphemeralKey(time), u, EmptyState, "new_user", time)
<1>1. /\ tok.key = EphemeralKey(time) /\ Read(tok).user = u
      /\ Read(tok).state = EmptyState /\ Read(tok).type = "new_user"
    BY ReadCreated DEF Create
<1>2. EphemeralKey(time) \in Key /\ EphemeralKey(time).epoch = epoch
    BY Typed, KeyOfNow
<1>3. tok \in TokenSet
    <2>1. /\ EmptyState \in [file : Nat, num : Nat]
          /\ time + 2 * EphemeralInterval \in Nat
          /\ u \in Users \cup {NoUser} /\ "new_user" \in TokenTypes
        BY Typed, IntervalAssumption DEF EmptyState, NoFile, TokenTypes
    <2> QED BY <1>2, <2>1, CreatedToken DEF Create
<1>4. Read(tok).state.file <= files
    BY <1>1, Typed DEF EmptyState, NoFile
<1>5. /\ HandOut(tok)
      /\ UNCHANGED <<database, memory, time, request, files, sessions, since>>
    BY DEF StartRegister
<1> HIDE DEF tok
<1> QED
    BY <1>1, <1>2, <1>3, <1>4, <1>5, HandOutStep DEF Numbered, memory

\* A token for a change of password, of a user with a file, is handed out.
LEMMA ChangeTokenIInv ==
    ASSUME IInv, NEW c \in Clients, NEW key \in [epoch : {epoch}, index : Nat],
           NEW u \in Users, NEW file \in 0 .. files,
           HandOut(Create(key, u, ChangePasswordState(file), "change_password",
                          time)),
           Continue(c, Idle),
           UNCHANGED <<database, memory, time, files, sessions, since>>
    PROVE  IInv'
<1> DEFINE tok == Create(key, u, ChangePasswordState(file), "change_password",
                         time)
<1>1. /\ tok.key = key /\ Read(tok).user = u
      /\ Read(tok).state = ChangePasswordState(file)
      /\ Read(tok).type = "change_password"
    BY ReadCreated DEF Create
<1>2. key \in Key /\ key.epoch = epoch /\ file \in Nat /\ file <= files
    BY Typed DEF Key
<1>3. tok \in TokenSet
    <2>1. /\ ChangePasswordState(file) \in [file : Nat, num : Nat]
          /\ time + 2 * EphemeralInterval \in Nat
          /\ u \in Users \cup {NoUser} /\ "change_password" \in TokenTypes
        BY <1>2, Typed, IntervalAssumption DEF ChangePasswordState, TokenTypes
    <2> QED BY <1>2, <2>1, CreatedToken DEF Create
<1>4. Read(tok).state.file <= files
    BY <1>1, <1>2 DEF ChangePasswordState
<1>5. HandOut(tok)
    OBVIOUS
<1> HIDE DEF tok
<1> QED
    BY <1>1, <1>2, <1>3, <1>4, <1>5, HandOutStep DEF Numbered, memory

\* change_password and reset_password hand out such tokens.
LEMMA ChangeIssueIInv ==
    ASSUME IInv, NEW c \in Clients, ChangeIssue(c)
    PROVE  IInv'
<1>1. /\ request[c].user \in Users /\ request[c].file \in 0 .. files
      /\ request[c].key \in [epoch : {epoch}, index : Nat]
    BY Typed, StageParts DEF ChangeIssue
<1> QED
    BY <1>1, ChangeTokenIInv DEF ChangeIssue

LEMMA ResetIssueIInv ==
    ASSUME IInv, NEW c \in Clients, ResetIssue(c)
    PROVE  IInv'
<1>1. request[c].user \in Users /\ request[c].file \in 0 .. files
    BY Typed, StageParts DEF ResetIssue
<1>2. EphemeralKey(time) \in [epoch : {epoch}, index : Nat]
    BY Typed, KeyOfNow
<1> QED
    BY <1>1, <1>2, ChangeTokenIInv DEF ResetIssue

\* register_finish decrypts its token.
LEMMA RegisterOpenIInv ==
    ASSUME IInv, NEW c \in Clients, NEW tok \in tokens, RegisterOpen(c, tok)
    PROVE  IInv'
<1> DEFINE stage == [op |-> "register", tok |-> tok]
<1>1. tok \in Own(TokenTypes)
    BY Typed, DecryptsOwn, TokenParts DEF RegisterOpen, Own
<1>2. stage \in Stages /\ stage.op # "session"
    BY <1>1 DEF Stages
<1> QED
    BY <1>2, StageStep DEF RegisterOpen

\* It stores nothing unless its token lets it.
LEMMA RegisterKeepIInv ==
    ASSUME IInv, NEW c \in Clients, RegisterKeep(c)
    PROVE  IInv'
<1>1. Idle \in Stages /\ Idle.op # "session"
    BY DEF Stages, Idle
<1> QED
    BY <1>1, StageStep DEF RegisterKeep

\* What a token that lets an upload be stored says of the file it replaces,
\* and that it was not used.
LEMMA RegistersUnused ==
    ASSUME IInv, NEW tok \in tokens, Registers(tok)
    PROVE  /\ Read(tok).type \in {"new_user", "change_password"}
           /\ Read(tok).user \in Users
           /\ Read(tok).state.file = users[Read(tok).user]
           /\ uses[tok] = 0
<1>1. Read(tok).type \in {"new_user", "change_password"}
    BY DEF Registers, VerifyStateEqual, VerifyState
<1>2. Read(tok).user \in Users
    BY <1>1 DEF IInv, TokenOK
<1>3. Stored(Read(tok).user) = users[Read(tok).user]
    BY <1>2 DEF Stored
<1>4. Read(tok).state.file = users[Read(tok).user]
    BY <1>3 DEF Registers, VerifyStateEqual, EmptyState, ChangePasswordState
<1>5. uses[tok] \in Nat /\ ~(uses[tok] > 0)
    <2>1. uses[tok] \in Nat
        BY Typed
    <2>2. SpentOK(tok)
        BY DEF IInv
    <2>3. CASE Read(tok).type = "new_user"
        <3>1. Stored(Read(tok).user) = NoFile
            BY <2>3 DEF Registers, VerifyStateEqual, VerifyState
        <3> QED BY <1>3, <2>1, <2>2, <2>3, <3>1 DEF SpentOK
    <2>4. CASE Read(tok).type = "change_password"
        BY <1>4, <2>1, <2>2, <2>4 DEF SpentOK
    <2> QED BY <1>1, <2>1, <2>3, <2>4
<1> QED
    BY <1>1, <1>2, <1>4, <1>5

\* The upload is stored as a file that was not there before.
LEMMA RegisterCommitIInv ==
    ASSUME IInv, NEW c \in Clients, RegisterCommit(c)
    PROVE  IInv'
<1> DEFINE tok == request[c].tok
           u == Read(tok).user
<1>1. tok \in Own(TokenTypes) /\ tok \in tokens /\ Registers(tok)
    BY Typed, StageParts DEF RegisterCommit, Own
<1>2. /\ Read(tok).type \in {"new_user", "change_password"}
      /\ u \in Users
      /\ Read(tok).state.file = users[u]
      /\ uses[tok] = 0
    BY <1>1, RegistersUnused
<1>3. /\ users' = [users EXCEPT ![u] = files + 1]
      /\ since' = [since EXCEPT ![u] = time]
      /\ uses' = [uses EXCEPT ![tok] = @ + 1]
      /\ files' = files + 1
      /\ Continue(c, Idle)
      /\ claims' = claims /\ counter' = counter
      /\ ranges' = ranges /\ epoch' = epoch /\ keyTime' = keyTime
      /\ time' = time /\ sessions' = sessions
    BY DEF RegisterCommit, Count, memory
<1>4. u = Read(tok).user
    OBVIOUS
<1> HIDE DEF tok, u
<1>5. tokens' = tokens /\ uses' \in [tokens -> Nat]
    BY <1>1, <1>3, Typed DEF tokens
<1>6. users' \in [Users -> 0 .. files'] /\ files' \in Nat
    <2>1. users \in [Users -> 0 .. files] /\ files \in Nat
        BY Typed
    <2>2. files + 1 \in 0 .. files' /\ 0 .. files \subseteq 0 .. files'
        BY <1>3, <2>1
    <2>3. users \in [Users -> 0 .. files']
        BY <2>1, <2>2
    <2> QED BY <1>2, <1>3, <2>1, <2>2, <2>3
<1>7. StagesOK' /\ request' \in [Clients -> Requests']
    <2>1. Idle \in Stages' /\ Idle.op # "session"
        BY DEF Stages, Idle
    <2>2. files <= files'
        BY <1>3, Typed
    <2> QED BY <1>3, <1>5, <1>6, <2>1, <2>2, Typed, ContinueStages
<1>8. TypeOK' /\ ClocksOK'
    <2>1. since \in [Users -> Nat] /\ time \in Nat
        BY Typed DEF TypeOK
    <2>2. since' \in [Users -> Nat] /\ \A v \in Users : since'[v] <= time
        BY <1>2, <1>3, <2>1 DEF IInv, ClocksOK
    <2> QED BY <1>3, <1>5, <1>6, <1>7, <2>2 DEF IInv, ClocksOK, TypeOK
<1>9. ASSUME NEW t \in tokens' PROVE TokenOK(t)' /\ SpentOK(t)'
    <2>1. /\ TokenOK(t) /\ SpentOK(t) /\ t \in TokenSet
          /\ Read(t).state.file \in Nat /\ Read(t).state.file <= files
        BY <1>5, Typed, TokenParts DEF IInv, TokenOK
    <2>2. TokenOK(t)'
        BY <1>3, <2>1, Typed DEF TokenOK
    <2>3. ASSUME NEW v \in Users
          PROVE  /\ users[v] # NoFile => users'[v] # NoFile
                 /\ users[v] # Read(t).state.file
                        => users'[v] # Read(t).state.file
        <3>1. v # u => users'[v] = users[v]
            BY <1>3, Typed
        <3>2. v = u => users'[v] = files + 1
            BY <1>2, <1>3, Typed
        <3> QED BY <2>1, <3>1, <3>2, Typed DEF NoFile
    <2>4. users'[u] # NoFile /\ users'[u] # Read(t).state.file
        <3>1. users'[u] = files + 1
            BY <1>2, <1>3, Typed
        <3> QED BY <2>1, <3>1, Typed DEF NoFile
    <2>5. CASE t = tok
        BY <1>4, <2>2, <2>4, <2>5 DEF SpentOK
    <2>6. CASE t # tok
        <3>1. uses'[t] = uses[t]
            BY <1>3, <1>5, <2>6, Typed
        <3>2. Read(t).type \in {"new_user", "change_password"}
                  => Read(t).user \in Users
            BY <2>1 DEF TokenOK
        <3> QED BY <2>1, <2>2, <2>3, <3>1, <3>2 DEF SpentOK
    <2> QED BY <2>2, <2>5, <2>6
<1>10. ASSUME NEW x \in sessions' PROVE SessionOK(x)'
    <2>1. /\ SessionOK(x) /\ x \in SessionSet
          /\ Content(x).file \in Nat /\ Content(x).file <= files
          /\ Content(x).user \in Users
        BY <1>3, Typed, SessionElements DEF IInv, SessionOK
    <2>2. CASE Content(x).user = u
        <3>1. users'[Content(x).user] = files + 1
            BY <1>2, <1>3, <2>2, Typed
        <3> QED BY <1>3, <2>1, <3>1, Typed DEF SessionOK
    <2>3. CASE Content(x).user # u
        <3>1. /\ users'[Content(x).user] = users[Content(x).user]
              /\ since'[Content(x).user] = since[Content(x).user]
            BY <1>3, <2>1, <2>3, Typed DEF TypeOK
        <3> QED BY <1>3, <2>1, <3>1, Typed DEF SessionOK
    <2> QED BY <2>2, <2>3
<1> QED
    BY <1>3, <1>5, <1>7, <1>8, <1>9, <1>10 DEF IInv

\* change_password checks a session and sees a file.
LEMMA ChangeOpenIInv ==
    ASSUME IInv, NEW c \in Clients, NEW s \in sessions, ChangeOpen(c, s)
    PROVE  IInv'
<1> DEFINE user == Content(s).user
           stage == [op |-> "change", user |-> user, file |-> users[user],
                     key |-> EphemeralKey(time)]
<1>1. user \in Users /\ users[user] \in 0 .. files
    BY Typed, SessionElements
<1>2. EphemeralKey(time) \in [epoch : {epoch}, index : Nat]
    BY Typed, KeyOfNow
<1>3. Continue(c, stage)
      /\ UNCHANGED <<database, memory, time, files, sessions, history>>
    BY DEF ChangeOpen
<1> HIDE DEF user
<1>4. stage \in Stages /\ stage.op # "session"
    BY <1>1, <1>2 DEF Stages
<1> HIDE DEF stage
<1> QED
    BY <1>3, <1>4, StageStep

-----------------------------------------------------------------------------
(* Login.                                                                  *)

\* login_start reads a file, ...
LEMMA LoginReadIInv ==
    ASSUME IInv, NEW c \in Clients, NEW u \in Users, LoginRead(c, u)
    PROVE  IInv'
<1> DEFINE stage == [op |-> "login_start", user |-> u, file |-> users[u]]
<1>1. users[u] \in 0 .. files
    BY Typed
<1>2. stage \in Stages /\ stage.op # "session"
    BY <1>1 DEF Stages
<1> QED
    BY <1>2, StageStep DEF LoginRead

\* ... and hands out a token with the next number.
LEMMA LoginIssueIInv ==
    ASSUME IInv, NEW c \in Clients, LoginIssue(c)
    PROVE  IInv'
<1> DEFINE u == request[c].user
           file == request[c].file
           tok == CreateExpires(EphemeralKey(time), u, LoginState(counter, file),
                                "login", time + CounterExpires)
<1>1. u \in Users /\ file \in Nat /\ file <= files
    BY Typed, StageParts DEF LoginIssue
<1>2. /\ tok.key = EphemeralKey(time) /\ Read(tok).user = u
      /\ Read(tok).state = LoginState(counter, file) /\ Read(tok).type = "login"
    BY ReadCreated
<1>3. EphemeralKey(time) \in Key /\ EphemeralKey(time).epoch = epoch
    BY Typed, KeyOfNow
<1>4. /\ HandOut(tok) /\ counter' = counter + 1 /\ Continue(c, Idle)
      /\ UNCHANGED <<database, ranges, epoch, keyTime, time, files, sessions,
                     since>>
    BY DEF LoginIssue
<1> HIDE DEF u, file
<1>5. tok \in TokenSet
    <2>1. /\ LoginState(counter, file) \in [file : Nat, num : Nat]
          /\ time + CounterExpires \in Nat
          /\ u \in Users \cup {NoUser} /\ "login" \in TokenTypes
        BY <1>1, Typed, PeriodsAssumption DEF LoginState, TokenTypes
    <2> QED BY <1>3, <2>1, CreatedToken
<1> HIDE DEF tok
<1>6. Read(tok).state.file <= files /\ Read(tok).state.num = counter
    BY <1>1, <1>2 DEF LoginState
<1> QED
    BY <1>1, <1>2, <1>3, <1>4, <1>5, <1>6, HandOutStep

\* login_finish decrypts the token and reads the file again, ...
LEMMA LoginOpenIInv ==
    ASSUME IInv, NEW c \in Clients, NEW tok \in tokens, LoginOpen(c, tok)
    PROVE  IInv'
<1> DEFINE stage == [op |-> "login_finish", tok |-> tok,
                     file |-> users[Read(tok).user]]
<1>1. tok \in Own({"login"})
    BY DecryptsOwn DEF LoginOpen, Own
<1>2. users[Read(tok).user] \in 0 .. files
    <2>1. Read(tok).user \in Users
        BY DEF IInv, TokenOK, LoginOpen
    <2> QED BY <2>1, Typed
<1>3. stage \in Stages /\ stage.op # "session"
    BY <1>1, <1>2 DEF Stages
<1>4. Continue(c, stage)
      /\ UNCHANGED <<database, memory, time, files, sessions, history>>
    BY DEF LoginOpen
<1> HIDE DEF stage
<1> QED
    BY <1>3, <1>4, StageStep

\* ... uses the number up and goes on only if the files are the same, ...
LEMMA LoginVerifyIInv ==
    ASSUME IInv, NEW c \in Clients, LoginVerify(c)
    PROVE  IInv'
<1> DEFINE tok == request[c].tok
           answer == NumExists(ranges, Read(tok).state.num, Read(tok).expires,
                               time)
           next == [request[c] EXCEPT !.op = "session"]
<1>1. /\ tok \in Own({"login"}) /\ tok \in tokens /\ Read(tok).type = "login"
      /\ request[c] \in [op : {"login_finish", "session"},
                         tok : Own({"login"}), file : 0 .. files]
    BY Typed, StageParts DEF LoginVerify, Own
<1>2. Idle \in Stages /\ Idle.op # "session"
    BY DEF Stages, Idle
<1>3. /\ next \in Stages
      /\ request[c].file = Read(tok).state.file
             => next.file = Read(next.tok).state.file
    <2>1. next \in [op : {"login_finish", "session"}, tok : Own({"login"}),
                    file : 0 .. files]
        BY <1>1
    <2>2. next.file = request[c].file /\ next.tok = tok
        BY <1>1
    <2> QED BY <2>1, <2>2 DEF Stages
<1>4. /\ time \in Nat
      /\ UNCHANGED <<database, counter, epoch, keyTime, time, files, sessions,
                     history>>
    BY Typed DEF LoginVerify
<1>5. \/ /\ ranges' = answer.ranges
         /\ \/ Continue(c, Idle)
            \/ Continue(c, next) /\ request[c].file = Read(tok).state.file
      \/ Continue(c, Idle) /\ UNCHANGED ranges
    BY DEF LoginVerify
<1> HIDE DEF next, tok
<1>6. CASE Continue(c, Idle) /\ UNCHANGED ranges
    BY <1>2, <1>4, <1>6, StageStep DEF memory
<1>7. CASE ranges' = answer.ranges /\ Continue(c, Idle)
    BY <1>1, <1>2, <1>4, <1>7, PresentStep DEF Numbered, history
<1>8. CASE /\ ranges' = answer.ranges
           /\ Continue(c, next) /\ request[c].file = Read(tok).state.file
    BY <1>1, <1>3, <1>4, <1>8, PresentStep DEF Numbered, history
<1> QED
    BY <1>5, <1>6, <1>7, <1>8

\* ... and creates the session for the file it compared, ...
LEMMA LoginSessionIInv ==
    ASSUME IInv, NEW c \in Clients, LoginSession(c)
    PROVE  IInv'
<1> DEFINE tok == request[c].tok
           user == Read(tok).user
           file == request[c].file
           s == Session(user, ExpireTime, file, Read(tok).state.file,
                        claims[user], epoch, time)
<1>1. /\ tok \in tokens /\ Read(tok).type = "login" /\ user \in Users
      /\ file \in Nat /\ file <= files /\ file = Read(tok).state.file
    <2>1. /\ tok \in Own({"login"}) /\ file \in 0 .. files
          /\ file = Read(tok).state.file
        BY Typed, StageParts DEF LoginSession
    <2>2. tok \in tokens /\ Read(tok).type = "login"
        BY <2>1 DEF Own
    <2>3. user \in Users
        BY <2>2 DEF IInv, TokenOK
    <2> QED BY <2>1, <2>2, <2>3, Typed
<1>2. /\ sessions' = sessions \cup {s} /\ Count(tok) /\ Continue(c, Idle)
      /\ users' = users /\ claims' = claims /\ counter' = counter
      /\ ranges' = ranges /\ epoch' = epoch /\ keyTime' = keyTime
      /\ time' = time /\ files' = files /\ since' = since
    BY DEF LoginSession, database, memory
<1>3. /\ s.proved = Read(tok).state.file /\ Content(s).user = user
      /\ Content(s).issued = time /\ Content(s).file = file
    BY SessionParts
<1>4. s \in SessionSet
    <2>1. claims[user] \in Values \cup {None}
        BY <1>1 DEF IInv, TypeOK
    <2> QED BY <1>1, <2>1, Typed, CreatedSession, PeriodsAssumption
<1> HIDE DEF s, tok, user, file
<1>5. /\ tokens' = tokens /\ uses' \in [tokens -> Nat]
      /\ \A t \in tokens : SpentOK(t)'
    BY <1>1, <1>2, CountNumbered DEF Numbered
<1>6. StagesOK' /\ request' \in [Clients -> Requests']
    <2>1. Idle \in Stages' /\ Idle.op # "session"
        BY DEF Stages, Idle
    <2> QED BY <1>2, <1>5, <2>1, Typed, ContinueStages
<1>7. TypeOK'
    BY <1>2, <1>4, <1>5, <1>6, Typed DEF TypeOK
<1>8. ASSUME NEW x, x = s PROVE SessionOK(x)'
    <2>1. since[user] <= time
        BY <1>1 DEF IInv, ClocksOK
    <2> QED BY <1>1, <1>2, <1>3, <1>4, <1>8, <2>1 DEF SessionOK
<1>9. \A x \in sessions' : SessionOK(x)'
    <2>1. \A x \in sessions : SessionOK(x)'
        BY <1>2 DEF IInv, SessionOK
    <2> QED BY <1>2, <1>8, <2>1
<1>10. \A t \in tokens' : TokenOK(t)'
    BY <1>2, <1>5 DEF IInv, TokenOK
<1> QED
    BY <1>2, <1>5, <1>6, <1>7, <1>9, <1>10 DEF IInv, ClocksOK

\* ... or fails.
LEMMA LoginRefuseIInv ==
    ASSUME IInv, NEW c \in Clients, LoginRefuse(c)
    PROVE  IInv'
<1>1. Idle \in Stages /\ Idle.op # "session"
    BY DEF Stages, Idle
<1> QED
    BY <1>1, StageStep DEF LoginRefuse

-----------------------------------------------------------------------------
(* Proofs.                                                                 *)

\* proof_token hands out a token with the next number, ...
LEMMA ProofTokenIInv == IInv /\ ProofToken => IInv'
<1> SUFFICES ASSUME IInv, ProofToken PROVE IInv'
    OBVIOUS
<1> DEFINE tok == Create(EphemeralKey(time), NoUser, ProofTokenState(counter),
                         "proof_token", time)
<1>1. /\ tok.key = EphemeralKey(time)
      /\ Read(tok).state = ProofTokenState(counter)
      /\ Read(tok).type = "proof_token"
    BY ReadCreated DEF Create
<1>2. EphemeralKey(time) \in Key /\ EphemeralKey(time).epoch = epoch
    BY Typed, KeyOfNow
<1>3. tok \in TokenSet
    <2>1. /\ ProofTokenState(counter) \in [file : Nat, num : Nat]
          /\ time + 2 * EphemeralInterval \in Nat
          /\ NoUser \in Users \cup {NoUser} /\ "proof_token" \in TokenTypes
        BY Typed, IntervalAssumption DEF ProofTokenState, NoFile, TokenTypes
    <2> QED BY <1>2, <2>1, CreatedToken DEF Create
<1>4. Read(tok).state.file <= files /\ Read(tok).state.num = counter
    BY <1>1, Typed DEF ProofTokenState, NoFile
<1>5. /\ HandOut(tok) /\ counter' = counter + 1 /\ request' = request
      /\ UNCHANGED <<database, ranges, epoch, keyTime, time, files, sessions,
                     since>>
    BY DEF ProofToken
<1> HIDE DEF tok
<1> QED
    BY <1>1, <1>2, <1>3, <1>4, <1>5, HandOutStep

\* ... a handler checks a proof that is signed over it, ...
LEMMA ProofOpenIInv ==
    ASSUME IInv, NEW c \in Clients, NEW tok \in tokens, NEW goal \in Goals,
           ProofOpen(c, tok, goal)
    PROVE  IInv'
<1> DEFINE stage == [op |-> "proof", tok |-> tok, goal |-> goal, now |-> time]
<1>1. tok \in Own({"proof_token"})
    BY DecryptsOwn DEF ProofOpen, Own, VerifyState
<1>2. stage \in Stages /\ stage.op # "session"
    BY <1>1, Typed DEF Stages
<1>3. Continue(c, stage)
      /\ UNCHANGED <<database, memory, time, files, sessions, history>>
    BY DEF ProofOpen
<1> HIDE DEF stage
<1> QED
    BY <1>2, <1>3, StageStep

\* ... and uses the number up, whatever the statement is.
LEMMA ProofVerifyIInv ==
    ASSUME IInv, NEW c \in Clients, ProofVerify(c)
    PROVE  IInv'
<1> DEFINE tok == request[c].tok
           now == request[c].now
           answer == NumExists(ranges, Read(tok).state.num, Read(tok).expires,
                               now)
<1>1. /\ tok \in tokens /\ Read(tok).type = "proof_token"
      /\ request[c].goal \in Goals /\ now \in Nat
    BY Typed, StageParts DEF ProofVerify, Own
<1>2. Idle \in Stages /\ Idle.op # "session"
    BY DEF Stages, Idle
<1>3. UNCHANGED <<database, counter, epoch, keyTime, time, files, sessions,
                  since>>
    BY DEF ProofVerify
<1>4. /\ ranges' = answer.ranges
      /\ \/ Continue(c, Idle) /\ uses' = uses
         \/ (\E goal \in request[c].goal : Continue(c, goal)) /\ Count(tok)
    BY DEF ProofVerify
<1> HIDE DEF tok, now
<1>5. CASE Continue(c, Idle) /\ uses' = uses
    BY <1>1, <1>2, <1>3, <1>4, <1>5, PresentStep DEF Numbered
<1>6. CASE (\E goal \in request[c].goal : Continue(c, goal)) /\ Count(tok)
    <2>1. PICK goal \in request[c].goal : Continue(c, goal)
        BY <1>6
    <2>2. goal \in Stages
        BY <1>1 DEF Stages
    <2>3. goal.op # "session"
        BY <1>1, GoalStages DEF Idle
    <2> QED
        BY <1>1, <1>3, <1>4, <1>6, <2>1, <2>2, <2>3, PresentStep DEF Numbered
<1> QED
    BY <1>4, <1>5, <1>6

\* user_set_claims stores claims.
LEMMA SetClaimsIInv ==
    ASSUME IInv, NEW c \in Clients, SetClaims(c)
    PROVE  IInv'
<1>1. request[c].user \in Users /\ request[c].value \in Values
    BY Typed, StageParts DEF SetClaims
<1>2. /\ claims' = [claims EXCEPT ![request[c].user] = request[c].value]
      /\ Continue(c, Idle)
      /\ users' = users /\ counter' = counter
      /\ ranges' = ranges /\ epoch' = epoch /\ keyTime' = keyTime
      /\ time' = time /\ files' = files /\ since' = since
      /\ sessions' = sessions /\ uses' = uses /\ tokens' = tokens
    BY DEF SetClaims, memory, history, tokens
<1>3. StagesOK' /\ request' \in [Clients -> Requests']
    <2>1. Idle \in Stages' /\ Idle.op # "session"
        BY DEF Stages, Idle
    <2> QED BY <1>2, <2>1, Typed, ContinueStages
<1>4. claims' \in [Users -> Values \cup {None}]
    BY <1>1, <1>2 DEF IInv, TypeOK
<1>5. TypeOK'
    BY <1>2, <1>3, <1>4, Typed DEF TypeOK
<1>6. \A tok \in tokens' : TokenOK(tok)' /\ SpentOK(tok)'
    BY <1>2 DEF IInv, TokenOK, SpentOK
<1>7. \A x \in sessions' : SessionOK(x)'
    BY <1>2 DEF IInv, SessionOK
<1> QED
    BY <1>2, <1>3, <1>5, <1>6, <1>7 DEF IInv, ClocksOK

\* reset_password reads the file.
LEMMA ResetReadIInv ==
    ASSUME IInv, NEW c \in Clients, ResetRead(c)
    PROVE  IInv'
<1> DEFINE u == request[c].user
           stage == [op |-> "reset", user |-> u, file |-> users[u]]
<1>1. u \in Users /\ users[u] \in 0 .. files
    BY Typed, StageParts DEF ResetRead
<1>2. Idle \in Stages /\ Idle.op # "session"
    BY DEF Stages, Idle
<1>3. /\ Continue(c, Idle) \/ Continue(c, stage)
      /\ UNCHANGED <<database, memory, time, files, sessions, history>>
    BY DEF ResetRead
<1> HIDE DEF u
<1>4. stage \in Stages /\ stage.op # "session"
    BY <1>1 DEF Stages
<1> HIDE DEF stage
<1> QED
    BY <1>2, <1>3, <1>4, StageStep

-----------------------------------------------------------------------------
(* What follows of every reachable state.                                  *)

\* A step that changes no variable keeps the invariant.
LEMMA StutterIInv == IInv /\ UNCHANGED vars => IInv'
<1> SUFFICES ASSUME IInv, UNCHANGED vars PROVE IInv'
    OBVIOUS
<1>1. /\ users' = users /\ claims' = claims /\ counter' = counter
      /\ ranges' = ranges /\ epoch' = epoch /\ keyTime' = keyTime
      /\ request' = request /\ files' = files /\ sessions' = sessions
      /\ uses' = uses /\ since' = since /\ tokens' = tokens
      /\ time' = time
    BY DEF vars, database, memory, history, tokens
<1>2. StagesOK' /\ request' \in [Clients -> Requests']
    <2>1. Stages \subseteq Stages' /\ Stages' \subseteq Requests'
        BY <1>1, Typed, StagesGrow, StagesAreRequests
    <2> QED BY <1>1, <2>1 DEF IInv, StagesOK
<1>3. TypeOK'
    BY <1>1, <1>2, Typed DEF TypeOK
<1>4. \A tok \in tokens' : TokenOK(tok)' /\ SpentOK(tok)'
    BY <1>1 DEF IInv, TokenOK, SpentOK
<1>5. \A x \in sessions' : SessionOK(x)'
    BY <1>1 DEF IInv, SessionOK
<1> QED
    BY <1>1, <1>2, <1>3, <1>4, <1>5 DEF IInv, ClocksOK

\* Every step keeps the invariant.
LEMMA NextIInv == IInv /\ [Next]_vars => IInv'
<1> SUFFICES ASSUME IInv, [Next]_vars PROVE IInv'
    OBVIOUS
<1>1. ASSUME NEW c \in Clients, Registration(c) PROVE IInv'
    BY <1>1, RegisterOpenIInv, RegisterCommitIInv, RegisterKeepIInv,
       ChangeOpenIInv, ChangeIssueIInv DEF Registration
<1>2. ASSUME NEW c \in Clients, Login(c) PROVE IInv'
    BY <1>2, LoginReadIInv, LoginIssueIInv, LoginOpenIInv, LoginVerifyIInv,
       LoginSessionIInv, LoginRefuseIInv DEF Login
<1>3. ASSUME NEW c \in Clients, WithProof(c) PROVE IInv'
    BY <1>3, ProofOpenIInv, ProofVerifyIInv, SetClaimsIInv, ResetReadIInv,
       ResetIssueIInv DEF WithProof
<1>4. CASE UNCHANGED vars
    BY <1>4, StutterIInv
<1>5. CASE Next
    BY <1>1, <1>2, <1>3, <1>5, TickIInv, RestartIInv, StartRegisterIInv,
       ProofTokenIInv DEF Next
<1> QED
    BY <1>4, <1>5

\* The invariant holds in every reachable state.
THEOREM IInvHolds == Spec => []IInv
<1> QED
    BY InitIInv, NextIInv, PTL DEF Spec

\* Every variable keeps its type; handlers hold only tokens handed out.
THEOREM TypeCorrect == Spec => []TypeOK
<1>1. IInv => TypeOK
    BY DEF IInv
<1> QED
    BY <1>1, IInvHolds, PTL

\* A session is bound to the file its login ran against, though passwords
\* change at any point of the login.
THEOREM ProvesPasswordAlways == Spec => []SessionProvesPassword
<1>1. IInv => SessionProvesPassword
    BY DEF IInv, SessionOK, SessionProvesPassword
<1> QED
    BY <1>1, IInvHolds, PTL

\* A session from before the last change of password is honoured no more, and
\* neither is one that a login under way creates with the old password: what is
\* honoured proved the password that is stored.
THEOREM HonouredAlways == Spec => []HonouredSinceChange
<1>1. IInv => HonouredSinceChange
    <2> SUFFICES ASSUME IInv, NEW s \in sessions, Honoured(s)
                 PROVE  /\ s.proved = users[Content(s).user]
                        /\ Content(s).issued >= since[Content(s).user]
        BY DEF HonouredSinceChange
    <2>1. Content(s).file = users[Content(s).user]
        BY DEF Honoured, SessionVerify
    <2>2. SessionOK(s)
        BY DEF IInv
    <2> QED BY <2>1, <2>2 DEF SessionOK
<1> QED
    BY <1>1, IInvHolds, PTL

\* Which steps count a use, of which token, and that no other step changes a
\* use or a password.
LEMMA Effects ==
    ASSUME IInv, [Next]_vars
    PROVE  \/ uses' = uses /\ users' = users
           \/ \E tok : HandOut(tok) /\ users' = users
           \/ \E c \in Clients : RegisterCommit(c)
           \/ \E c \in Clients : LoginSession(c)
           \/ \E c \in Clients : ProofVerify(c) /\ Count(request[c].tok)
<1>1. CASE Tick \/ Restart
    BY <1>1 DEF Tick, Restart, database, history
<1>2. ASSUME NEW u \in Users, StartRegister(u)
      PROVE  \E tok : HandOut(tok) /\ users' = users
    BY <1>2 DEF StartRegister, database
<1>3. ProofToken => \E tok : HandOut(tok) /\ users' = users
    BY DEF ProofToken, database
<1>4. ASSUME NEW c \in Clients, Registration(c)
      PROVE  \/ uses' = uses /\ users' = users
             \/ \E tok : HandOut(tok) /\ users' = users
             \/ RegisterCommit(c)
    <2>1. ChangeIssue(c) => \E tok : HandOut(tok) /\ users' = users
        BY DEF ChangeIssue, database
    <2>2. \A tok \in tokens : RegisterOpen(c, tok) => uses' = uses /\ users' = users
        BY DEF RegisterOpen, database, history
    <2>3. \A s \in sessions : ChangeOpen(c, s) => uses' = uses /\ users' = users
        BY DEF ChangeOpen, database, history
    <2>4. RegisterKeep(c) => uses' = uses /\ users' = users
        BY DEF RegisterKeep, database, history
    <2> QED BY <1>4, <2>1, <2>2, <2>3, <2>4 DEF Registration
<1>5. ASSUME NEW c \in Clients, Login(c)
      PROVE  \/ uses' = uses /\ users' = users
             \/ \E tok : HandOut(tok) /\ users' = users
             \/ LoginSession(c)
    <2>1. LoginIssue(c) => \E tok : HandOut(tok) /\ users' = users
        BY DEF LoginIssue, database
    <2>2. \A tok \in tokens : LoginOpen(c, tok) => uses' = uses /\ users' = users
        BY DEF LoginOpen, database, history
    <2>3. \A u \in Users : LoginRead(c, u) => uses' = uses /\ users' = users
        BY DEF LoginRead, database, history
    <2>4. LoginVerify(c) \/ LoginRefuse(c) => uses' = uses /\ users' = users
        BY DEF LoginVerify, LoginRefuse, database, history
    <2> QED BY <1>5, <2>1, <2>2, <2>3, <2>4 DEF Login
<1>6. ASSUME NEW c \in Clients, WithProof(c)
      PROVE  \/ uses' = uses /\ users' = users
             \/ \E tok : HandOut(tok) /\ users' = users
             \/ ProofVerify(c) /\ Count(request[c].tok)
    <2>1. ResetIssue(c) => \E tok : HandOut(tok) /\ users' = users
        BY DEF ResetIssue, database
    <2>2. \A tok \in tokens, goal \in Goals :
              ProofOpen(c, tok, goal) => uses' = uses /\ users' = users
        BY DEF ProofOpen, database, history
    <2>3. SetClaims(c) \/ ResetRead(c) => uses' = uses /\ users' = users
        BY DEF SetClaims, ResetRead, database, history
    <2>4. ProofVerify(c) => \/ uses' = uses /\ users' = users
                            \/ Count(request[c].tok)
        BY DEF ProofVerify, database
    <2> QED BY <1>6, <2>1, <2>2, <2>3, <2>4 DEF WithProof
<1>7. UNCHANGED vars => uses' = uses /\ users' = users
    BY DEF vars, database, history
<1> QED
    BY <1>1, <1>2, <1>3, <1>4, <1>5, <1>6, <1>7 DEF Next

\* Handing out a token uses none.
LEMMA HandingOutKeepsUses ==
    ASSUME NEW tok, HandOut(tok)
    PROVE  /\ tokens' = tokens \cup {tok}
           /\ \A t \in tokens : uses'[t] = uses[t]
BY DEF HandOut, tokens

\* The token a step counts a use of.
LEMMA CountedTokens ==
    ASSUME IInv, NEW c \in Clients,
           RegisterCommit(c) \/ LoginSession(c) \/
               (ProofVerify(c) /\ Count(request[c].tok))
    PROVE  /\ request[c].tok \in Own(TokenTypes)
           /\ Count(request[c].tok)
<1>1. CASE RegisterCommit(c)
    BY <1>1, Typed, StageParts DEF RegisterCommit
<1>2. CASE LoginSession(c)
    BY <1>2, Typed, StageParts DEF LoginSession, Own, TokenTypes
<1>3. CASE ProofVerify(c) /\ Count(request[c].tok)
    BY <1>3, Typed, StageParts DEF ProofVerify, Own, TokenTypes
<1> QED
    BY <1>1, <1>2, <1>3

\* Only tokens of the present process have effects.
THEOREM OnlyOwnTokensAlways == Spec => OnlyOwnTokens
<1>1. ASSUME IInv, [Next]_vars
      PROVE  [\A tok \in tokens :
                 uses'[tok] # uses[tok] => tok.key.epoch = epoch]_vars
    <2> SUFFICES ASSUME NEW tok \in tokens, uses'[tok] # uses[tok]
                 PROVE  tok.key.epoch = epoch
        OBVIOUS
    <2>1. ASSUME NEW c \in Clients, Count(request[c].tok),
                 request[c].tok \in Own(TokenTypes)
          PROVE  tok.key.epoch = epoch
        <3>1. tok = request[c].tok
            BY <1>1, <2>1, Typed DEF Count
        <3> QED BY <2>1, <3>1 DEF Own
    <2> QED
        BY <1>1, <2>1, Effects, HandingOutKeepsUses, CountedTokens
<1> QED
    BY <1>1, IInvHolds, PTL DEF Spec, OnlyOwnTokens

\* A password changes only by the first use of a token that was handed out
\* for exactly the password it replaces.
THEOREM ReplacesWhatItSawAlways == Spec => ReplacesWhatItSaw
<1>1. ASSUME IInv, [Next]_vars
      PROVE  [\A u \in Users : users'[u] # users[u] =>
                 \E tok \in tokens : /\ Read(tok).user = u
                                     /\ Read(tok).state.file = users[u]
                                     /\ uses[tok] = 0
                                     /\ uses'[tok] = 1]_vars
    <2> SUFFICES ASSUME NEW u \in Users, users'[u] # users[u]
                 PROVE  \E tok \in tokens : /\ Read(tok).user = u
                                            /\ Read(tok).state.file = users[u]
                                            /\ uses[tok] = 0
                                            /\ uses'[tok] = 1
        OBVIOUS
    <2>1. PICK c \in Clients : RegisterCommit(c)
        <3>1. \A c \in Clients : LoginSession(c) => users' = users
            BY DEF LoginSession, database
        <3>2. \A c \in Clients : ProofVerify(c) => users' = users
            BY DEF ProofVerify, database
        <3> QED BY <1>1, <3>1, <3>2, Effects
    <2> DEFINE tok == request[c].tok
    <2>2. /\ tok \in tokens /\ Registers(tok) /\ Count(tok)
          /\ users' = [users EXCEPT ![Read(tok).user] = files + 1]
        BY <1>1, <2>1, CountedTokens DEF RegisterCommit, Own
    <2> HIDE DEF tok
    <2>3. /\ Read(tok).state.file = users[Read(tok).user]
          /\ Read(tok).user \in Users /\ uses[tok] = 0
        BY <1>1, <2>2, RegistersUnused
    <2>4. Read(tok).user = u
        BY <1>1, <2>2, Typed
    <2>5. uses'[tok] = 1
        BY <1>1, <2>2, <2>3, Typed DEF Count
    <2> QED BY <2>2, <2>3, <2>4, <2>5
<1> QED
    BY <1>1, IInvHolds, PTL DEF Spec, ReplacesWhatItSaw

-----------------------------------------------------------------------------
(***************************************************************************)
(* How often a token has an effect.  The first N - 1 numbers of a process  *)
(* are inside the list from the start, so the first time one is presented  *)
(* it is recorded, and it stays recorded.  (A number that makes the list   *)
(* grow is not recorded, and the top of the list can lose its record: see  *)
(* CompactSetProofs.)                                                      *)
(***************************************************************************)

\* A handler that is past the check of the number and about to start the
\* session.
Accepts(c, tok) == request[c].op = "session" /\ request[c].tok = tok

\* A token that has had its effect, or is about to, has its number recorded;
\* one handler at most is about to.
UsedOnce(tok) ==
    /\ uses[tok] > 0 => Recorded(ranges, Read(tok).state.num)
    /\ \A c \in Clients : Accepts(c, tok) =>
           uses[tok] = 0 /\ Recorded(ranges, Read(tok).state.num)
    /\ \A c, d \in Clients : Accepts(c, tok) /\ Accepts(d, tok) => c = d

OnceIInv ==
    /\ IInv
    /\ Top(ranges) \in Nat /\ Top(ranges) >= N
    /\ \A tok \in tokens : Read(tok).state.num < N => uses[tok] <= 1
    /\ \A tok \in Own(Numbered) : Read(tok).state.num < N => UsedOnce(tok)

\* The first range reaches to N.
LEMMA EmptyTop == Top(EmptyRanges) \in Nat /\ Top(EmptyRanges) >= N
<1>1. EmptyRanges[Len(EmptyRanges)] = NewRange(1)
    BY DEF EmptyRanges
<1> QED
    BY <1>1, WidthAssumption DEF Top, NewRange

\* Presenting a number records it if it is below N, and loses none below N.
LEMMA PresentNumber ==
    ASSUME OnceIInv, NEW tok \in tokens, Read(tok).type \in Numbered,
           NEW now \in Nat
    PROVE  LET n      == Read(tok).state.num
               answer == NumExists(ranges, n, Read(tok).expires, now)
           IN  /\ n \in Nat /\ n >= 1
               /\ Top(answer.ranges) \in Nat /\ Top(answer.ranges) >= N
               /\ n < N => /\ answer.exists <=> Recorded(ranges, n)
                           /\ Recorded(answer.ranges, n)
               /\ \A m \in Nat \ {0} : m < N /\ Recorded(ranges, m)
                                           => Recorded(answer.ranges, m)
<1> DEFINE n == Read(tok).state.num
           expires == Read(tok).expires
           answer == NumExists(ranges, n, expires, now)
           new == answer.ranges
<1>1. IInv /\ Top(ranges) \in Nat /\ Top(ranges) >= N /\ N \in Nat
    BY WidthAssumption DEF OnceIInv
<1>2. n \in Nat /\ n >= 1 /\ expires \in Nat
    BY <1>1, Typed, TokenParts DEF IInv, TokenOK
<1>3. ListOK(ranges)
    BY <1>1 DEF IInv, TypeOK, ListOK
<1> HIDE DEF n, expires
<1>4. /\ answer.exists <=> Recorded(ranges, n)
      /\ ~Beyond(ranges, n) => Top(new) = Top(ranges) /\ Recorded(new, n)
      /\ Beyond(ranges, n) =>
            Top(new) >= n /\ Top(ranges) < n /\ Top(new) \in Nat
      /\ \A m \in Nat \ {0} :
            Recorded(ranges, m) /\ (m = Top(ranges) => ~Beyond(ranges, n))
                => Recorded(new, m)
    BY <1>2, <1>3, NumExistsRecords
<1>5. Beyond(ranges, n) <=> n > Top(ranges)
    BY DEF Beyond, Top
<1> HIDE DEF answer, new
<1>6. Top(new) \in Nat /\ Top(new) >= N
    BY <1>1, <1>2, <1>4, <1>5
<1>7. n < N => (answer.exists <=> Recorded(ranges, n)) /\ Recorded(new, n)
    BY <1>1, <1>2, <1>4, <1>5
<1>8. \A m \in Nat \ {0} : m < N /\ Recorded(ranges, m) => Recorded(new, m)
    BY <1>1, <1>2, <1>4, <1>5
<1> QED
    BY <1>2, <1>6, <1>7, <1>8 DEF n, expires, answer, new

\* A step that gives no handler a session to start, uses no token and leaves
\* the list alone.
LEMMA QuietOnce ==
    ASSUME OnceIInv, IInv', uses' = uses, ranges' = ranges, epoch' = epoch,
           \A c \in Clients : request'[c] = request[c]
                              \/ request'[c].op # "session"
    PROVE  OnceIInv'
<1>1. tokens' = tokens /\ Own(Numbered)' = Own(Numbered)
    BY DEF tokens, Own
<1>2. \A c \in Clients : \A tok : Accepts(c, tok)' => Accepts(c, tok)
    BY DEF Accepts
<1>3. Top(ranges') = Top(ranges)
    OBVIOUS
<1>4. ASSUME NEW tok \in Own(Numbered), Read(tok).state.num < N
      PROVE  UsedOnce(tok)'
    BY <1>2, <1>4 DEF OnceIInv, UsedOnce
<1> QED
    BY <1>1, <1>3, <1>4 DEF OnceIInv

\* A token that is handed out has had no effect, and no handler holds it.
LEMMA HandOutOnce ==
    ASSUME OnceIInv, IInv', NEW tok, HandOut(tok), ranges' = ranges,
           epoch' = epoch,
           \A c \in Clients : request'[c] = request[c]
                              \/ request'[c].op # "session"
    PROVE  OnceIInv'
<1>1. /\ tokens' = tokens \cup {tok}
      /\ \A t \in tokens : uses'[t] = uses[t]
      /\ \A t \in tokens' : t \notin tokens => uses'[t] = 0
    BY DEF HandOut, tokens
<1>2. \A c \in Clients : \A t : Accepts(c, t)' => Accepts(c, t)
    BY DEF Accepts
<1>3. \A c \in Clients : \A t : Accepts(c, t) => t \in tokens
    BY Typed, StageParts DEF Accepts, Own, OnceIInv
<1>4. ASSUME NEW t \in tokens', Read(t).state.num < N PROVE uses'[t] <= 1
    BY <1>1, <1>4 DEF OnceIInv
<1>5. ASSUME NEW t \in Own(Numbered)', Read(t).state.num < N
      PROVE  UsedOnce(t)'
    <2>1. CASE t \in tokens
        <3>1. t \in Own(Numbered)
            BY <1>5, <2>1 DEF Own
        <3>2. UsedOnce(t)
            BY <1>5, <3>1 DEF OnceIInv
        <3> QED BY <1>1, <1>2, <2>1, <3>2 DEF UsedOnce
    <2>2. CASE t \notin tokens
        <3>1. uses'[t] = 0 /\ \A c \in Clients : ~Accepts(c, t)'
            BY <1>1, <1>2, <1>3, <1>5, <2>2 DEF Own
        <3> QED BY <3>1 DEF UsedOnce
    <2> QED BY <2>1, <2>2
<1> QED
    BY <1>4, <1>5 DEF OnceIInv

\* A new process holds no token, and the old ones do not open.
LEMMA RestartOnce == OnceIInv /\ IInv' /\ Restart => OnceIInv'
<1> SUFFICES ASSUME OnceIInv, IInv', Restart PROVE OnceIInv'
    OBVIOUS
<1>1. /\ uses' = uses /\ tokens' = tokens /\ epoch' = epoch + 1
      /\ ranges' = EmptyRanges
    BY DEF Restart, history, tokens
<1>2. Own(Numbered)' = {}
    <2> SUFFICES ASSUME NEW tok \in tokens PROVE tok.key.epoch # epoch'
        BY <1>1 DEF Own
    <2>1. tok.key.epoch \in Nat /\ tok.key.epoch <= epoch /\ epoch \in Nat
        BY Typed, TokenParts DEF OnceIInv, IInv, TokenOK, Key
    <2> QED BY <1>1, <2>1
<1> QED
    BY <1>1, <1>2, EmptyTop DEF OnceIInv

\* A change of password uses its token for the first time.
LEMMA RegisterCommitOnce ==
    ASSUME OnceIInv, IInv', NEW c \in Clients, RegisterCommit(c)
    PROVE  OnceIInv'
<1> DEFINE tok == request[c].tok
<1>1. /\ tok \in tokens /\ Registers(tok)
      /\ uses' = [uses EXCEPT ![tok] = @ + 1]
      /\ ranges' = ranges /\ epoch' = epoch /\ Continue(c, Idle)
    BY CountedTokens DEF RegisterCommit, Own, Count, memory, OnceIInv
<1> HIDE DEF tok
<1>2. /\ Read(tok).type \in {"new_user", "change_password"} /\ uses[tok] = 0
      /\ uses \in [tokens -> Nat] /\ request \in [Clients -> Stages]
    BY <1>1, Typed, RegistersUnused DEF OnceIInv, StagesOK
<1>3. /\ tokens' = tokens /\ uses'[tok] = 1
      /\ \A t \in tokens : t # tok => uses'[t] = uses[t]
    BY <1>1, <1>2 DEF tokens
<1>4. tok \notin Own(Numbered) /\ Own(Numbered)' = Own(Numbered)
    BY <1>1, <1>2, <1>3 DEF Own, Numbered
<1>5. \A d \in Clients : \A t : Accepts(d, t)' => Accepts(d, t)
    BY <1>1, <1>2 DEF Accepts, Continue, Idle
<1>6. ASSUME NEW t \in Own(Numbered), Read(t).state.num < N
      PROVE  UsedOnce(t)'
    <2>1. uses'[t] = uses[t]
        BY <1>3, <1>4, <1>6 DEF Own
    <2> QED BY <1>1, <1>5, <1>6, <2>1 DEF OnceIInv, UsedOnce
<1>7. \A t \in tokens' : Read(t).state.num < N => uses'[t] <= 1
    BY <1>3 DEF OnceIInv
<1> QED
    BY <1>1, <1>4, <1>6, <1>7 DEF OnceIInv

\* A login starts its session as the only handler that may.
LEMMA LoginSessionOnce ==
    ASSUME OnceIInv, IInv', NEW c \in Clients, LoginSession(c)
    PROVE  /\ OnceIInv'
           /\ Read(request[c].tok).state.num < N => uses[request[c].tok] = 0
<1> DEFINE tok == request[c].tok
<1>1. /\ tok \in Own(Numbered) /\ tok \in tokens
      /\ uses' = [uses EXCEPT ![tok] = @ + 1]
      /\ ranges' = ranges /\ epoch' = epoch /\ Continue(c, Idle)
    BY Typed, StageParts
    DEF LoginSession, Own, Numbered, Count, memory, OnceIInv
<1>2. Accepts(c, tok)
    BY DEF LoginSession, Accepts
<1> HIDE DEF tok
<1>3. uses \in [tokens -> Nat] /\ request \in [Clients -> Stages]
    BY Typed DEF OnceIInv, StagesOK
<1>4. /\ tokens' = tokens /\ uses'[tok] = uses[tok] + 1
      /\ \A t \in tokens : t # tok => uses'[t] = uses[t]
    BY <1>1, <1>3 DEF tokens
<1>5. Own(Numbered)' = Own(Numbered)
    BY <1>1, <1>4 DEF Own
<1>6. \A d \in Clients : \A t : Accepts(d, t)' => Accepts(d, t) /\ d # c
    BY <1>1, <1>3 DEF Accepts, Continue, Idle
<1>7. ASSUME Read(tok).state.num < N
      PROVE  /\ uses[tok] = 0 /\ Recorded(ranges, Read(tok).state.num)
             /\ \A d \in Clients : \A t : t = tok => ~Accepts(d, t)'
    <2>1. UsedOnce(tok)
        BY <1>1, <1>7 DEF OnceIInv
    <2> QED BY <1>2, <1>6, <2>1 DEF UsedOnce
<1>8. ASSUME NEW t \in Own(Numbered), Read(t).state.num < N
      PROVE  UsedOnce(t)'
    <2>1. CASE t = tok
        BY <1>1, <1>7, <1>8, <2>1 DEF UsedOnce
    <2>2. CASE t # tok
        <3>1. uses'[t] = uses[t] /\ UsedOnce(t)
            BY <1>4, <1>8, <2>2 DEF Own, OnceIInv
        <3> QED BY <1>1, <1>6, <3>1 DEF UsedOnce
    <2> QED BY <2>1, <2>2
<1>9. ASSUME NEW t \in tokens', Read(t).state.num < N PROVE uses'[t] <= 1
    <2>1. CASE t = tok
        BY <1>4, <1>7, <1>9, <2>1
    <2>2. CASE t # tok
        BY <1>4, <1>9, <2>2 DEF OnceIInv
    <2> QED BY <2>1, <2>2
<1> QED
    BY <1>1, <1>5, <1>7, <1>8, <1>9 DEF OnceIInv, tok

\* What the two handlers that present a number do once they have the answer.
LEMMA LoginVerifyAnswer ==
    ASSUME NEW c \in Clients, LoginVerify(c)
    PROVE  LET tok    == request[c].tok
               answer == NumExists(ranges, Read(tok).state.num,
                                   Read(tok).expires, time)
           IN  /\ uses' = uses /\ epoch' = epoch
               /\ \/ ranges' = ranges /\ Continue(c, Idle)
                  \/ ranges' = answer.ranges /\ Continue(c, Idle)
                  \/ /\ ranges' = answer.ranges /\ ~answer.exists
                     /\ Continue(c, [request[c] EXCEPT !.op = "session"])
BY DEF LoginVerify, history

LEMMA ProofVerifyAnswer ==
    ASSUME NEW c \in Clients, ProofVerify(c)
    PROVE  LET tok    == request[c].tok
               answer == NumExists(ranges, Read(tok).state.num,
                                   Read(tok).expires, request[c].now)
           IN  /\ ranges' = answer.ranges /\ epoch' = epoch
               /\ \/ uses' = uses /\ Continue(c, Idle)
                  \/ /\ ~answer.exists /\ Count(tok)
                     /\ \E goal \in request[c].goal : Continue(c, goal)
BY DEF ProofVerify

\* A login that goes on has its number recorded by the step that lets it.
LEMMA LoginVerifyOnce ==
    ASSUME OnceIInv, IInv', NEW c \in Clients, LoginVerify(c)
    PROVE  OnceIInv'
<1> DEFINE tok == request[c].tok
           n == Read(tok).state.num
           answer == NumExists(ranges, n, Read(tok).expires, time)
           stage == [request[c] EXCEPT !.op = "session"]
<1>1. /\ tok \in Own(Numbered) /\ tok \in tokens /\ Read(tok).type \in Numbered
      /\ stage.op = "session" /\ stage.tok = tok
    <2>1. /\ tok \in Own({"login"})
          /\ request[c] \in [op : {"login_finish", "session"},
                             tok : Own({"login"}), file : 0 .. files]
        BY Typed, StageParts DEF LoginVerify, OnceIInv
    <2> QED BY <2>1 DEF Own, Numbered
<1>2. /\ uses' = uses /\ epoch' = epoch
      /\ \/ ranges' = ranges /\ Continue(c, Idle)
         \/ ranges' = answer.ranges /\ Continue(c, Idle)
         \/ /\ ranges' = answer.ranges /\ ~answer.exists
            /\ Continue(c, stage)
    BY LoginVerifyAnswer
<1>3. time \in Nat /\ request \in [Clients -> Stages] /\ tokens' = tokens
    BY <1>2, Typed DEF OnceIInv, StagesOK, tokens
<1>4. /\ n \in Nat /\ n >= 1
      /\ Top(answer.ranges) \in Nat /\ Top(answer.ranges) >= N
      /\ n < N => /\ answer.exists <=> Recorded(ranges, n)
                  /\ Recorded(answer.ranges, n)
      /\ \A m \in Nat \ {0} : m < N /\ Recorded(ranges, m)
                                  => Recorded(answer.ranges, m)
    BY <1>1, <1>3, PresentNumber
<1>5. Own(Numbered)' = Own(Numbered)
    BY <1>2, <1>3 DEF Own
<1>6. \A t \in Own(Numbered) : Read(t).state.num \in Nat \ {0}
    BY Typed, TokenParts DEF Own, OnceIInv, IInv, TokenOK
<1>7. Read(tok).state.num = n
    OBVIOUS
<1> HIDE DEF answer, stage, n, tok
<1>8. CASE ranges' = ranges /\ Continue(c, Idle)
    BY <1>2, <1>3, <1>8, QuietOnce DEF Continue, Idle
<1>9. ASSUME ranges' = answer.ranges,
             NEW t \in Own(Numbered), Read(t).state.num < N,
             \A d \in Clients : Accepts(d, t)' => Accepts(d, t)
      PROVE  UsedOnce(t)'
    <2>1. Recorded(ranges, Read(t).state.num)
              => Recorded(ranges', Read(t).state.num)
        BY <1>4, <1>6, <1>9
    <2>2. UsedOnce(t)
        BY <1>9 DEF OnceIInv
    <2> QED BY <1>2, <1>9, <2>1, <2>2 DEF UsedOnce
<1>10. CASE ranges' = answer.ranges /\ Continue(c, Idle)
    <2>1. \A d \in Clients : \A t : Accepts(d, t)' => Accepts(d, t)
        BY <1>3, <1>10 DEF Accepts, Continue, Idle
    <2> QED
        BY <1>2, <1>3, <1>4, <1>5, <1>9, <1>10, <2>1 DEF OnceIInv
<1>11. CASE /\ ranges' = answer.ranges /\ ~answer.exists /\ Continue(c, stage)
    <2>1. \A d \in Clients : \A t : Accepts(d, t)' =>
              Accepts(d, t) \/ (d = c /\ t = tok)
        BY <1>1, <1>3, <1>11 DEF Accepts, Continue
    <2>2. ASSUME NEW t \in Own(Numbered), t = tok, n < N PROVE UsedOnce(t)'
        <3>1. ~Recorded(ranges, n) /\ Recorded(ranges', n)
            BY <1>4, <1>11, <2>2
        <3>2. UsedOnce(t)
            BY <1>7, <2>2 DEF OnceIInv
        <3>3. ~(uses[t] > 0) /\ \A d \in Clients : ~Accepts(d, t)
            BY <1>7, <2>2, <3>1, <3>2 DEF UsedOnce
        <3>4. uses'[t] = 0
            BY <1>1, <1>2, <2>2, <3>3, Typed DEF OnceIInv
        <3>5. \A d \in Clients : Accepts(d, t)' => d = c
            BY <2>1, <3>3
        <3> QED BY <1>7, <2>2, <3>1, <3>4, <3>5 DEF UsedOnce
    <2>3. ASSUME NEW t \in Own(Numbered), Read(t).state.num < N
          PROVE  UsedOnce(t)'
        <3>1. CASE t = tok
            BY <1>7, <2>2, <2>3, <3>1
        <3>2. CASE t # tok
            BY <1>9, <1>11, <2>1, <2>3, <3>2
        <3> QED BY <3>1, <3>2
    <2> QED
        BY <1>2, <1>3, <1>4, <1>5, <1>11, <2>3 DEF OnceIInv
<1> QED
    BY <1>2, <1>8, <1>10, <1>11

\* A proof that is accepted has its number recorded by the same step.
LEMMA ProofVerifyOnce ==
    ASSUME OnceIInv, IInv', NEW c \in Clients, ProofVerify(c)
    PROVE  /\ OnceIInv'
           /\ Count(request[c].tok) /\ Read(request[c].tok).state.num < N
                  => uses[request[c].tok] = 0
<1> DEFINE tok == request[c].tok
           n == Read(tok).state.num
           now == request[c].now
           answer == NumExists(ranges, n, Read(tok).expires, now)
<1>1. /\ tok \in Own(Numbered) /\ tok \in tokens /\ Read(tok).type \in Numbered
      /\ now \in Nat /\ request[c].goal \in Goals
    BY Typed, StageParts DEF ProofVerify, OnceIInv, Own, Numbered
<1>2. /\ ranges' = answer.ranges /\ epoch' = epoch
      /\ \/ uses' = uses /\ Continue(c, Idle)
         \/ /\ ~answer.exists /\ Count(tok)
            /\ \E goal \in request[c].goal : Continue(c, goal)
    BY ProofVerifyAnswer
<1>3. /\ uses \in [tokens -> Nat] /\ request \in [Clients -> Stages]
    BY Typed DEF OnceIInv, StagesOK
<1>4. /\ n \in Nat /\ n >= 1
      /\ Top(answer.ranges) \in Nat /\ Top(answer.ranges) >= N
      /\ n < N => /\ answer.exists <=> Recorded(ranges, n)
                  /\ Recorded(answer.ranges, n)
      /\ \A m \in Nat \ {0} : m < N /\ Recorded(ranges, m)
                                  => Recorded(answer.ranges, m)
    BY <1>1, PresentNumber
<1>5. tokens' = tokens /\ Own(Numbered)' = Own(Numbered)
    <2>1. tokens' = tokens
        BY <1>2, <1>3 DEF Count, tokens
    <2> QED BY <1>2, <2>1 DEF Own
<1>6. \A t \in Own(Numbered) : Read(t).state.num \in Nat \ {0}
    BY Typed, TokenParts DEF Own, OnceIInv, IInv, TokenOK
<1>7. Read(tok).state.num = n
    OBVIOUS
<1>8. \A d \in Clients : \A t : Accepts(d, t)' => Accepts(d, t)
    <2>1. \A goal \in request[c].goal : goal.op # "session"
        BY <1>1, GoalStages DEF Idle
    <2> QED BY <1>2, <1>3, <2>1 DEF Accepts, Continue, Idle
<1> HIDE DEF answer, n, tok, now
<1>9. ASSUME NEW t \in Own(Numbered), Read(t).state.num < N, uses'[t] = uses[t]
      PROVE  UsedOnce(t)'
    <2>1. Recorded(ranges, Read(t).state.num)
              => Recorded(ranges', Read(t).state.num)
        BY <1>2, <1>4, <1>6, <1>9
    <2>2. UsedOnce(t)
        BY <1>9 DEF OnceIInv
    <2> QED BY <1>8, <1>9, <2>1, <2>2 DEF UsedOnce
<1>10. CASE uses' = uses
    <2>1. ~Count(tok)
        BY <1>1, <1>3, <1>10 DEF Count
    <2> QED
        BY <1>2, <1>4, <1>5, <1>9, <1>10, <2>1 DEF OnceIInv, tok
<1>11. CASE ~answer.exists /\ Count(tok)
    <2>1. /\ uses'[tok] = uses[tok] + 1
          /\ \A t \in tokens : t # tok => uses'[t] = uses[t]
        BY <1>1, <1>3, <1>11 DEF Count
    <2>2. ASSUME n < N
          PROVE  /\ uses[tok] = 0 /\ Recorded(ranges', n)
                 /\ \A d \in Clients : ~Accepts(d, tok)
        <3>1. ~Recorded(ranges, n) /\ Recorded(ranges', n)
            BY <1>2, <1>4, <1>11, <2>2
        <3>2. UsedOnce(tok)
            BY <1>1, <1>7, <2>2 DEF OnceIInv
        <3>3. ~(uses[tok] > 0) /\ \A d \in Clients : ~Accepts(d, tok)
            BY <1>7, <3>1, <3>2 DEF UsedOnce
        <3> QED BY <1>1, <1>3, <3>1, <3>3
    <2>3. ASSUME NEW t \in Own(Numbered), Read(t).state.num < N
          PROVE  UsedOnce(t)'
        <3>1. CASE t = tok
            BY <1>7, <1>8, <2>1, <2>2, <2>3, <3>1 DEF UsedOnce
        <3>2. CASE t # tok
            BY <1>9, <2>1, <2>3, <3>2 DEF Own
        <3> QED BY <3>1, <3>2
    <2>4. ASSUME NEW t \in tokens, Read(t).state.num < N PROVE uses'[t] <= 1
        <3>1. CASE t = tok
            BY <1>7, <2>1, <2>2, <2>4, <3>1
        <3>2. CASE t # tok
            BY <2>1, <2>4, <3>2 DEF OnceIInv
        <3> QED BY <3>1, <3>2
    <2> QED
        BY <1>2, <1>4, <1>5, <1>7, <2>2, <2>3, <2>4 DEF OnceIInv, tok
<1> QED
    BY <1>2, <1>10, <1>11

\* The handlers that only go on, to a stage that starts no session.
LEMMA ContinueOnce ==
    ASSUME OnceIInv, IInv', uses' = uses, ranges' = ranges, epoch' = epoch,
           NEW c \in Clients, NEW stage, stage.op # "session",
           Continue(c, stage)
    PROVE  OnceIInv'
<1>1. request \in [Clients -> Stages]
    BY Typed DEF OnceIInv, StagesOK
<1>2. \A d \in Clients : request'[d] = request[d] \/ request'[d].op # "session"
    BY <1>1 DEF Continue
<1> QED
    BY <1>2, QuietOnce

LEMMA IssueOnce ==
    ASSUME OnceIInv, IInv', NEW tok, HandOut(tok), ranges' = ranges,
           epoch' = epoch, NEW c \in Clients, Continue(c, Idle)
    PROVE  OnceIInv'
<1>1. request \in [Clients -> Stages]
    BY Typed DEF OnceIInv, StagesOK
<1>2. \A d \in Clients : request'[d] = request[d] \/ request'[d].op # "session"
    BY <1>1 DEF Continue, Idle
<1> QED
    BY <1>2, HandOutOnce

LEMMA InitOnce == Init => OnceIInv
<1> SUFFICES ASSUME Init PROVE OnceIInv
    OBVIOUS
<1>1. tokens = {} /\ Own(Numbered) = {} /\ ranges = EmptyRanges
    BY DEF Init, tokens, Own
<1> QED
    BY <1>1, InitIInv, EmptyTop DEF OnceIInv

LEMMA RegistrationOnce ==
    ASSUME OnceIInv, IInv', NEW c \in Clients, Registration(c)
    PROVE  OnceIInv'
<1>1. ASSUME NEW tok \in tokens, RegisterOpen(c, tok) PROVE OnceIInv'
    <2>1. /\ uses' = uses /\ ranges' = ranges /\ epoch' = epoch
          /\ Continue(c, [op |-> "register", tok |-> tok])
        BY <1>1 DEF RegisterOpen, memory, history
    <2> QED BY <2>1, ContinueOnce
<1>2. ASSUME RegisterKeep(c) PROVE OnceIInv'
    <2>1. /\ uses' = uses /\ ranges' = ranges /\ epoch' = epoch
          /\ Continue(c, Idle)
        BY <1>2 DEF RegisterKeep, memory, history
    <2> QED BY <2>1, ContinueOnce DEF Idle
<1>3. ASSUME NEW s \in sessions, ChangeOpen(c, s) PROVE OnceIInv'
    <2>1. /\ uses' = uses /\ ranges' = ranges /\ epoch' = epoch
          /\ \E stage : stage.op = "change" /\ Continue(c, stage)
        BY <1>3 DEF ChangeOpen, memory, history
    <2> QED BY <2>1, ContinueOnce
<1>4. ASSUME ChangeIssue(c) PROVE OnceIInv'
    BY <1>4, IssueOnce DEF ChangeIssue, memory
<1> QED
    BY <1>1, <1>2, <1>3, <1>4, RegisterCommitOnce DEF Registration

LEMMA LoginOnce ==
    ASSUME OnceIInv, IInv', NEW c \in Clients, Login(c)
    PROVE  OnceIInv'
<1>1. ASSUME NEW u \in Users, LoginRead(c, u) PROVE OnceIInv'
    <2>1. /\ uses' = uses /\ ranges' = ranges /\ epoch' = epoch
          /\ \E stage : stage.op = "login_start" /\ Continue(c, stage)
        BY <1>1 DEF LoginRead, memory, history
    <2> QED BY <2>1, ContinueOnce
<1>2. ASSUME LoginIssue(c) PROVE OnceIInv'
    BY <1>2, IssueOnce DEF LoginIssue
<1>3. ASSUME NEW tok \in tokens, LoginOpen(c, tok) PROVE OnceIInv'
    <2>1. /\ uses' = uses /\ ranges' = ranges /\ epoch' = epoch
          /\ \E stage : stage.op = "login_finish" /\ Continue(c, stage)
        BY <1>3 DEF LoginOpen, memory, history
    <2> QED BY <2>1, ContinueOnce
<1>4. ASSUME LoginRefuse(c) PROVE OnceIInv'
    <2>1. /\ uses' = uses /\ ranges' = ranges /\ epoch' = epoch
          /\ Continue(c, Idle)
        BY <1>4 DEF LoginRefuse, memory, history
    <2> QED BY <2>1, ContinueOnce DEF Idle
<1> QED
    BY <1>1, <1>2, <1>3, <1>4, LoginVerifyOnce, LoginSessionOnce DEF Login

LEMMA WithProofOnce ==
    ASSUME OnceIInv, IInv', NEW c \in Clients, WithProof(c)
    PROVE  OnceIInv'
<1>1. ASSUME NEW tok \in tokens, NEW goal \in Goals, ProofOpen(c, tok, goal)
      PROVE  OnceIInv'
    <2>1. /\ uses' = uses /\ ranges' = ranges /\ epoch' = epoch
          /\ \E stage : stage.op = "proof" /\ Continue(c, stage)
        BY <1>1 DEF ProofOpen, memory, history
    <2> QED BY <2>1, ContinueOnce
<1>2. ASSUME SetClaims(c) PROVE OnceIInv'
    <2>1. /\ uses' = uses /\ ranges' = ranges /\ epoch' = epoch
          /\ Continue(c, Idle)
        BY <1>2 DEF SetClaims, memory, history
    <2> QED BY <2>1, ContinueOnce DEF Idle
<1>3. ASSUME ResetRead(c) PROVE OnceIInv'
    <2>1. /\ uses' = uses /\ ranges' = ranges /\ epoch' = epoch
          /\ \E stage : stage.op # "session" /\ Continue(c, stage)
        BY <1>3 DEF ResetRead, memory, history, Idle
    <2> QED BY <2>1, ContinueOnce
<1>4. ASSUME ResetIssue(c) PROVE OnceIInv'
    BY <1>4, IssueOnce DEF ResetIssue, memory
<1> QED
    BY <1>1, <1>2, <1>3, <1>4, ProofVerifyOnce DEF WithProof

LEMMA NextOnce == OnceIInv /\ [Next]_vars => OnceIInv'
<1> SUFFICES ASSUME OnceIInv, [Next]_vars PROVE OnceIInv'
    OBVIOUS
<1>1. IInv'
    BY NextIInv DEF OnceIInv
<1>2. CASE Tick \/ UNCHANGED vars
    <2>1. /\ uses' = uses /\ ranges' = ranges /\ epoch' = epoch
          /\ request' = request
        BY <1>2 DEF Tick, vars, memory, history
    <2> QED BY <1>1, <2>1, QuietOnce
<1>3. ASSUME NEW u \in Users, StartRegister(u) PROVE OnceIInv'
    <2>1. /\ ranges' = ranges /\ epoch' = epoch /\ request' = request
          /\ \E tok : HandOut(tok)
        BY <1>3 DEF StartRegister, memory
    <2> QED BY <1>1, <2>1, HandOutOnce
<1>4. CASE ProofToken
    <2>1. /\ ranges' = ranges /\ epoch' = epoch /\ request' = request
          /\ \E tok : HandOut(tok)
        BY <1>4 DEF ProofToken
    <2> QED BY <1>1, <2>1, HandOutOnce
<1> QED
    BY <1>1, <1>2, <1>3, <1>4, RestartOnce, RegistrationOnce, LoginOnce,
       WithProofOnce DEF Next

\* The invariant holds in every reachable state.
THEOREM OnceHolds == Spec => []OnceIInv
<1> QED
    BY InitOnce, NextOnce, PTL DEF Spec

\* A token that carries no number (which counts as 0), or one below N, has an
\* effect at most once, whatever the order of concurrent duplicates, and across
\* restarts.
THEOREM LowNumbersWorkOnce ==
    Spec => [](\A tok \in tokens : Read(tok).state.num < N => uses[tok] <= 1)
<1>1. OnceIInv => \A tok \in tokens : Read(tok).state.num < N => uses[tok] <= 1
    BY DEF OnceIInv
<1> QED
    BY <1>1, OnceHolds, PTL

\* A step that hands out a token, or uses one for the first time, is one of
\* the abstract specification; for a token that is not low it is none.
LEMMA LowUsesIs ==
    /\ DOMAIN LowUses = {t \in tokens : Low(t)}
    /\ \A t \in tokens : Low(t) => LowUses[t] = uses[t]
BY DEF LowUses

LEMMA SameLowUses ==
    ASSUME tokens' = tokens, \A t \in tokens : Low(t) => uses'[t] = uses[t]
    PROVE  LowUses' = LowUses
BY DEF LowUses, Low

LEMMA HandOutIsAbstract ==
    ASSUME IInv, IInv', NEW tok, HandOut(tok)
    PROVE  [Once!Next]_LowUses
<1>1. /\ uses' = [t \in tokens \cup {tok} |-> IF t \in tokens THEN uses[t] ELSE 0]
      /\ tokens' = tokens \cup {tok} /\ tokens' \subseteq TokenSet
      /\ uses \in [tokens -> Nat]
    BY Typed DEF HandOut, tokens, IInv, TypeOK
<1>2. CASE tok \in tokens
    <2>1. tokens' = tokens /\ \A t \in tokens : uses'[t] = uses[t]
        BY <1>1, <1>2
    <2> QED BY <2>1, SameLowUses
<1>3. CASE tok \notin tokens /\ ~ Low(tok)
    <2>1. {t \in tokens' : Low(t)} = {t \in tokens : Low(t)}
        BY <1>1, <1>3
    <2>2. LowUses' = [t \in {t \in tokens' : Low(t)} |-> uses'[t]]
        BY DEF LowUses, Low
    <2>3. \A t \in tokens : uses'[t] = uses[t]
        BY <1>1
    <2>4. LowUses' = LowUses
        BY <2>1, <2>2, <2>3 DEF LowUses
    <2> QED BY <2>4
<1>4. CASE tok \notin tokens /\ Low(tok)
    <2>1. {t \in tokens' : Low(t)} = {t \in tokens : Low(t)} \cup {tok}
        BY <1>1, <1>4
    <2>2. LowUses' = [t \in {t \in tokens' : Low(t)} |-> uses'[t]]
        BY DEF LowUses, Low
    <2>3. \A t \in tokens : t # tok /\ uses'[t] = uses[t]
        BY <1>1, <1>4
    <2>4. uses'[tok] = 0
        BY <1>1, <1>4
    <2>5. LowUses' = [t \in DOMAIN LowUses \cup {tok} |->
                          IF t = tok THEN 0 ELSE LowUses[t]]
        BY <2>1, <2>2, <2>3, <2>4, LowUsesIs
    <2>6. tok \in TokenSet \cap DOMAIN LowUses' /\ tok \notin DOMAIN LowUses
        BY <1>1, <1>4, <2>1, <2>2, LowUsesIs
    <2> QED BY <2>5, <2>6 DEF Once!Next, Once!HandOut
<1> QED
    BY <1>2, <1>3, <1>4

LEMMA CountIsAbstract ==
    ASSUME NEW tok \in tokens, uses \in [tokens -> Nat],
           Low(tok) => uses[tok] = 0, Count(tok)
    PROVE  [Once!Next]_LowUses
<1>1. /\ tokens' = tokens /\ uses' \in [tokens -> Nat]
      /\ uses'[tok] = uses[tok] + 1
      /\ \A t \in tokens : t # tok => uses'[t] = uses[t]
    BY DEF Count, tokens
<1>2. CASE ~ Low(tok)
    <2>1. \A t \in tokens : Low(t) => uses'[t] = uses[t]
        BY <1>1, <1>2
    <2> QED BY <1>1, <2>1, SameLowUses
<1>3. CASE Low(tok)
    <2>1. LowUses' = [t \in {t \in tokens : Low(t)} |-> uses'[t]]
        BY <1>1 DEF LowUses, Low
    <2>2. uses'[tok] = 1
        BY <1>1, <1>3
    <2>3. LowUses' = [LowUses EXCEPT ![tok] = 1]
        BY <1>1, <2>1, <2>2, LowUsesIs
    <2>4. tok \in DOMAIN LowUses /\ LowUses[tok] = 0
        BY <1>3, LowUsesIs
    <2> QED BY <2>3, <2>4 DEF Once!Next, Once!Use
<1> QED
    BY <1>2, <1>3

\* The handlers implement tokens that work once, for tokens without a number and
\* numbers below N, whatever numbers are handed out and presented besides: every
\* step hands out such a token, uses one for the first time, or changes no use
\* of one.
THEOREM LowTokensWorkOnce == Spec => TokensWorkOnce
<1>1. Init => Once!Init
    <2> SUFFICES ASSUME Init PROVE LowUses = [t \in {} |-> 0]
        BY DEF Once!Init
    <2>1. tokens = {}
        BY DEF Init, tokens
    <2> QED BY <2>1 DEF LowUses
<1>2. ASSUME OnceIInv, OnceIInv', [Next]_vars
      PROVE  [Once!Next]_LowUses
    <2>1. IInv /\ IInv' /\ uses \in [tokens -> Nat]
        BY <1>2, Typed DEF OnceIInv
    <2>2. \A tok \in Own(TokenTypes) : tok \in tokens
        BY DEF Own
    <2>3. ASSUME NEW c \in Clients, RegisterCommit(c) PROVE [Once!Next]_LowUses
        <3>1. /\ request[c].tok \in Own(TokenTypes) /\ Count(request[c].tok)
              /\ Registers(request[c].tok)
            BY <2>1, <2>3, CountedTokens DEF RegisterCommit
        <3>2. uses[request[c].tok] = 0
            BY <2>1, <2>2, <3>1, RegistersUnused
        <3> QED BY <2>1, <2>2, <3>1, <3>2, CountIsAbstract
    <2>4. ASSUME NEW c \in Clients, LoginSession(c) PROVE [Once!Next]_LowUses
        <3>1. /\ request[c].tok \in Own(TokenTypes) /\ Count(request[c].tok)
            BY <2>1, <2>4, CountedTokens
        <3>2. Read(request[c].tok).type \in Numbered
            BY <2>1, <2>4, Typed, StageParts DEF LoginSession, Own, Numbered
        <3>3. Low(request[c].tok) => uses[request[c].tok] = 0
            BY <1>2, <2>1, <2>4, <3>2, LoginSessionOnce DEF Low
        <3> QED BY <2>1, <2>2, <3>1, <3>3, CountIsAbstract
    <2>5. ASSUME NEW c \in Clients, ProofVerify(c), Count(request[c].tok)
          PROVE  [Once!Next]_LowUses
        <3>1. request[c].tok \in Own(TokenTypes)
            BY <2>1, <2>5, CountedTokens
        <3>2. Read(request[c].tok).type \in Numbered
            BY <2>1, <2>5, Typed, StageParts DEF ProofVerify, Own, Numbered
        <3>3. Low(request[c].tok) => uses[request[c].tok] = 0
            BY <1>2, <2>1, <2>5, <3>2, ProofVerifyOnce DEF Low
        <3> QED BY <2>1, <2>2, <2>5, <3>1, <3>3, CountIsAbstract
    <2>6. ASSUME NEW tok, HandOut(tok) PROVE [Once!Next]_LowUses
        BY <2>1, <2>6, HandOutIsAbstract
    <2>7. uses' = uses => [Once!Next]_LowUses
        <3>1. uses' = uses => tokens' = tokens
            BY DEF tokens
        <3> QED BY <3>1, SameLowUses
    <2> QED
        BY <1>2, <2>1, <2>3, <2>4, <2>5, <2>6, <2>7, Effects
<1> QED
    BY <1>1, <1>2, OnceHolds, PTL DEF Spec, TokensWorkOnce, Once!Spec

-----------------------------------------------------------------------------
(***************************************************************************)
(* What is left of TokensWorkOnce for a proof token of any number: the     *)
(* number that makes the list grow is not recorded (counter.rs:321), so    *)
(* its proof has one effect too many, and another if it was the top of the *)
(* list when the list grew again; it is never without end.                 *)
(***************************************************************************)
ProofsWorkAtMostThrice ==
    \A tok \in tokens : Read(tok).type = "proof_token" => uses[tok] <= 3

\* How often a proof may have worked, by where its number lies: beyond the
\* list, at its top, or inside it; one less as long as it is not recorded.
Allowed(rs, n) ==
    IF n > Top(rs) THEN 0
    ELSE IF n = Top(rs) THEN (IF Recorded(rs, n) THEN 2 ELSE 1)
    ELSE (IF Recorded(rs, n) THEN 3 ELSE 2)

ProofIInv ==
    /\ IInv
    /\ ProofsWorkAtMostThrice
    /\ \A tok \in Own({"proof_token"}) : uses[tok] <= Allowed(ranges, Read(tok).state.num)

\* Presenting a number takes nothing from what is allowed, and allows one more
\* effect of a number that it lets pass.
LEMMA PresentAllows ==
    ASSUME IInv, NEW tok \in tokens, Read(tok).type \in Numbered, NEW now \in Nat
    PROVE  LET n      == Read(tok).state.num
               answer == NumExists(ranges, n, Read(tok).expires, now)
           IN  /\ \A m \in Nat \ {0} :
                      Allowed(ranges, m) <= Allowed(answer.ranges, m)
               /\ ~answer.exists =>
                      Allowed(ranges, n) + 1 <= Allowed(answer.ranges, n)
<1> DEFINE n == Read(tok).state.num
           expires == Read(tok).expires
           answer == NumExists(ranges, n, expires, now)
           new == answer.ranges
           top == Top(ranges)
           topNext == Top(new)
<1>1. n \in Nat /\ n >= 1 /\ expires \in Nat
    BY Typed, TokenParts DEF IInv, TokenOK
<1>2. ListOK(ranges)
    BY DEF IInv, TypeOK, ListOK
<1>3. top \in Nat
    <2>1. Len(ranges) \in DOMAIN ranges
        BY <1>2, ListElements
    <2> QED BY <1>2, <2>1, ListElements DEF Top
<1> HIDE DEF n, expires
<1>4. /\ answer.exists <=> Recorded(ranges, n)
      /\ ~Beyond(ranges, n) => Top(new) = Top(ranges) /\ Recorded(new, n)
      /\ Beyond(ranges, n) =>
            Top(new) >= n /\ Top(ranges) < n /\ Top(new) \in Nat
      /\ \A m \in Nat \ {0} :
            Recorded(ranges, m) /\ (m = Top(ranges) => ~Beyond(ranges, n))
                => Recorded(new, m)
    BY <1>1, <1>2, NumExistsRecords
<1>5. Beyond(ranges, n) <=> n > top
    BY DEF Beyond, Top
<1> HIDE DEF answer, new
<1>6. \A m : Allowed(ranges, m) = IF m > top THEN 0
                                 ELSE IF m = top THEN (IF Recorded(ranges, m) THEN 2 ELSE 1)
                                 ELSE (IF Recorded(ranges, m) THEN 3 ELSE 2)
    BY DEF Allowed
<1>7. \A m : Allowed(new, m) = IF m > topNext THEN 0
                              ELSE IF m = topNext THEN (IF Recorded(new, m) THEN 2 ELSE 1)
                              ELSE (IF Recorded(new, m) THEN 3 ELSE 2)
    BY DEF Allowed
<1>8. /\ n <= top => topNext = top /\ Recorded(new, n)
      /\ n > top => topNext >= n /\ topNext \in Nat /\ ~Recorded(ranges, n)
      /\ \A m \in Nat \ {0} :
            Recorded(ranges, m) /\ (m = top => n <= top) => Recorded(new, m)
    <2>1. n > top => ~Recorded(ranges, n)
        BY <1>5 DEF Recorded
    <2>2. n > top \/ n <= top
        BY <1>1, <1>3
    <2>3. n <= top => ~(n > top)
        BY <1>1, <1>3
    <2> QED BY <1>4, <1>5, <2>1, <2>2, <2>3
<1> HIDE DEF top, topNext
<1>9. ASSUME NEW m \in Nat \ {0} PROVE Allowed(ranges, m) <= Allowed(new, m)
    <2>1. CASE n <= top
        BY <1>1, <1>3, <1>6, <1>7, <1>8, <2>1
    <2>2. CASE n > top
        BY <1>1, <1>3, <1>6, <1>7, <1>8, <2>2
    <2> QED BY <1>1, <1>3, <2>1, <2>2
<1>10. ~Recorded(ranges, n) => Allowed(ranges, n) + 1 <= Allowed(new, n)
    <2>1. CASE n <= top
        BY <1>1, <1>3, <1>6, <1>7, <1>8, <2>1
    <2>2. CASE n > top
        BY <1>1, <1>3, <1>6, <1>7, <1>8, <2>2
    <2> QED BY <1>1, <1>3, <2>1, <2>2
<1> QED
    BY <1>4, <1>9, <1>10 DEF n, expires, answer, new

\* No more is ever allowed than three effects.
LEMMA AllowedAtMostThrice ==
    \A rs, n : Allowed(rs, n) \in 0 .. 3
BY DEF Allowed

\* The steps that neither present a number nor restart count no effect of a proof.
LEMMA ProofUses ==
    ASSUME IInv, [Next]_vars
    PROVE  \/ Restart
           \/ \E c \in Clients : LoginVerify(c)
           \/ \E c \in Clients : ProofVerify(c)
           \/ /\ ranges' = ranges /\ epoch' = epoch
              /\ \A tok \in tokens' : Read(tok).type = "proof_token" =>
                     uses'[tok] = 0 \/ (tok \in tokens /\ uses'[tok] = uses[tok])
<1>1. ASSUME ~Restart, \A c \in Clients : ~LoginVerify(c) /\ ~ProofVerify(c)
      PROVE  ranges' = ranges /\ epoch' = epoch
    <2>1. CASE Tick \/ UNCHANGED vars
        BY <2>1 DEF Tick, vars, memory
    <2>2. ASSUME NEW u \in Users, StartRegister(u) PROVE ranges' = ranges /\ epoch' = epoch
        BY <2>2 DEF StartRegister, memory
    <2>3. CASE ProofToken
        BY <2>3 DEF ProofToken
    <2>4. ASSUME NEW c \in Clients, Registration(c) PROVE ranges' = ranges /\ epoch' = epoch
        BY <2>4 DEF Registration, RegisterOpen, RegisterCommit, RegisterKeep,
                    ChangeOpen, ChangeIssue, memory
    <2>5. ASSUME NEW c \in Clients, Login(c) PROVE ranges' = ranges /\ epoch' = epoch
        BY <1>1, <2>5 DEF Login, LoginRead, LoginIssue, LoginOpen, LoginSession,
                          LoginRefuse, memory
    <2>6. ASSUME NEW c \in Clients, WithProof(c) PROVE ranges' = ranges /\ epoch' = epoch
        BY <1>1, <2>6 DEF WithProof, ProofOpen, SetClaims, ResetRead, ResetIssue, memory
    <2> QED BY <1>1, <2>1, <2>2, <2>3, <2>4, <2>5, <2>6 DEF Next
<1> DEFINE Kept == \A tok \in tokens' : Read(tok).type = "proof_token" =>
                       uses'[tok] = 0 \/ (tok \in tokens /\ uses'[tok] = uses[tok])
<1>2. uses' = uses => Kept
    BY DEF tokens
<1>3. ASSUME NEW tok, HandOut(tok) PROVE Kept
    BY <1>3 DEF HandOut, tokens
<1>4. ASSUME NEW tok \in tokens, Count(tok), Read(tok).type # "proof_token" PROVE Kept
    BY <1>4, Typed DEF Count, tokens
<1>5. ASSUME NEW c \in Clients, RegisterCommit(c) PROVE Kept
    <2>1. /\ request[c].tok \in tokens /\ Count(request[c].tok)
          /\ Registers(request[c].tok)
        BY <1>5, CountedTokens DEF RegisterCommit, Own
    <2>2. Read(request[c].tok).type \in {"new_user", "change_password"}
        BY <2>1, RegistersUnused
    <2> QED BY <1>4, <2>1, <2>2
<1>6. ASSUME NEW c \in Clients, LoginSession(c) PROVE Kept
    <2>1. request[c].tok \in tokens /\ Read(request[c].tok).type = "login"
        BY <1>6, Typed, StageParts DEF LoginSession, Own
    <2>2. Count(request[c].tok)
        BY <1>6, CountedTokens
    <2> QED BY <1>4, <2>1, <2>2
<1> HIDE DEF Kept
<1>7. Kept \/ \E c \in Clients : ProofVerify(c)
    BY <1>2, <1>3, <1>5, <1>6, Effects
<1> QED
    BY <1>1, <1>7 DEF Kept

\* Presenting a number keeps the bound of every token whose effects it does not
\* count, and of the one whose effect it counts.
LEMMA PresentProof ==
    ASSUME ProofIInv, IInv', NEW tok \in Own(Numbered), NEW now \in Nat, epoch' = epoch,
           ranges' = NumExists(ranges, Read(tok).state.num, Read(tok).expires, now).ranges,
           \/ uses' = uses
           \/ /\ ~NumExists(ranges, Read(tok).state.num, Read(tok).expires, now).exists
              /\ Count(tok)
    PROVE  ProofIInv'
<1> DEFINE n == Read(tok).state.num
           answer == NumExists(ranges, n, Read(tok).expires, now)
<1>1. /\ IInv /\ uses \in [tokens -> Nat]
      /\ tok \in tokens /\ Read(tok).type \in Numbered
    BY Typed DEF ProofIInv, Own
<1>2. /\ \A m \in Nat \ {0} : Allowed(ranges, m) <= Allowed(ranges', m)
      /\ ~answer.exists => Allowed(ranges, n) + 1 <= Allowed(ranges', n)
    BY <1>1, PresentAllows
<1> HIDE DEF answer
<1>3. tokens' = tokens /\ Own({"proof_token"})' = Own({"proof_token"})
    BY <1>1 DEF Count, tokens, Own
<1>4. \A t \in Own({"proof_token"}) : /\ t \in tokens /\ Read(t).type = "proof_token"
                                     /\ Read(t).state.num \in Nat \ {0}
    BY <1>1, Typed, TokenParts DEF Own, IInv, TokenOK, Numbered
<1>5. ASSUME NEW t \in Own({"proof_token"})
      PROVE  uses'[t] <= Allowed(ranges', Read(t).state.num)
    <2>1. PICK u \in Nat, a \in Nat, b \in Nat :
              /\ u = uses[t] /\ a = Allowed(ranges, Read(t).state.num)
              /\ b = Allowed(ranges', Read(t).state.num)
        BY <1>1, <1>4, AllowedAtMostThrice
    <2>2. u <= a /\ a <= b
        BY <1>2, <1>4, <2>1 DEF ProofIInv
    <2>3. CASE uses'[t] = uses[t]
        BY <2>1, <2>2, <2>3
    <2>4. CASE t = tok /\ ~answer.exists /\ Count(tok)
        <3>1. uses'[t] = u + 1
            BY <1>1, <1>4, <2>1, <2>4 DEF Count
        <3>2. a + 1 <= b
            BY <1>2, <2>1, <2>4
        <3>3. u + 1 <= b
            BY <2>1, <2>2, <3>2
        <3> QED BY <2>1, <3>1, <3>3
    <2>5. uses'[t] = uses[t] \/ (t = tok /\ ~answer.exists /\ Count(tok))
        BY <1>1, <1>4 DEF answer, Count
    <2> QED BY <2>3, <2>4, <2>5
<1>6. ASSUME NEW t \in tokens, Read(t).type = "proof_token" PROVE uses'[t] <= 3
    <2>1. CASE t \in Own({"proof_token"})
        <3>1. uses'[t] \in Nat
            BY <1>3, <1>6 DEF IInv, TypeOK
        <3>2. PICK u \in Nat, b \in 0 .. 3 :
                  u = uses'[t] /\ b = Allowed(ranges', Read(t).state.num)
            BY <3>1, AllowedAtMostThrice
        <3> QED BY <1>5, <2>1, <3>2
    <2>2. CASE t \notin Own({"proof_token"}) /\ t # tok
        <3>1. uses'[t] = uses[t]
            BY <1>1, <2>2 DEF Count
        <3> QED BY <1>6, <3>1 DEF ProofIInv, ProofsWorkAtMostThrice
    <2>3. CASE t \notin Own({"proof_token"}) /\ t = tok
        BY <1>6, <2>3 DEF Own
    <2> QED BY <2>1, <2>2, <2>3
<1> QED
    BY <1>3, <1>5, <1>6 DEF ProofIInv, ProofsWorkAtMostThrice

LEMMA NextProof == ProofIInv /\ [Next]_vars => ProofIInv'
<1> SUFFICES ASSUME ProofIInv, [Next]_vars PROVE ProofIInv'
    OBVIOUS
<1>1. IInv /\ IInv'
    BY NextIInv DEF ProofIInv
<1>2. CASE Restart
    <2>1. uses' = uses /\ tokens' = tokens /\ epoch' = epoch + 1
        BY <1>2 DEF Restart, history, tokens
    <2>2. Own({"proof_token"})' = {}
        <3> SUFFICES ASSUME NEW tok \in tokens PROVE tok.key.epoch # epoch'
            BY <2>1 DEF Own
        <3>1. tok.key.epoch \in Nat /\ tok.key.epoch <= epoch /\ epoch \in Nat
            BY <1>1, Typed, TokenParts DEF IInv, TokenOK, Key
        <3> QED BY <2>1, <3>1
    <2> QED BY <1>1, <2>1, <2>2 DEF ProofIInv, ProofsWorkAtMostThrice
<1>3. ASSUME NEW c \in Clients, LoginVerify(c) PROVE ProofIInv'
    <2>1. request[c].tok \in Own(Numbered) /\ time \in Nat
        BY <1>1, <1>3, Typed, StageParts DEF LoginVerify, Own, Numbered, IInv, TypeOK
    <2>2. CASE ranges' = ranges
        BY <1>1, <1>3, <2>2, LoginVerifyAnswer DEF ProofIInv, ProofsWorkAtMostThrice, tokens, Own
    <2>3. CASE ranges' # ranges
        BY <1>1, <1>3, <2>1, <2>3, LoginVerifyAnswer, PresentProof
    <2> QED BY <2>2, <2>3
<1>4. ASSUME NEW c \in Clients, ProofVerify(c) PROVE ProofIInv'
    <2>1. request[c].tok \in Own(Numbered) /\ request[c].now \in Nat
        BY <1>1, <1>4, Typed, StageParts DEF ProofVerify, Own, Numbered
    <2> QED BY <1>1, <1>4, <2>1, ProofVerifyAnswer, PresentProof
<1>5. CASE /\ ranges' = ranges /\ epoch' = epoch
           /\ \A tok \in tokens' : Read(tok).type = "proof_token" =>
                  uses'[tok] = 0 \/ (tok \in tokens /\ uses'[tok] = uses[tok])
    <2>1. ASSUME NEW tok \in tokens', Read(tok).type = "proof_token"
          PROVE  /\ uses'[tok] <= 3
                 /\ tok.key.epoch = epoch => uses'[tok] <= Allowed(ranges, Read(tok).state.num)
        <3>1. CASE uses'[tok] = 0
            <4>1. PICK b \in 0 .. 3 : b = Allowed(ranges, Read(tok).state.num)
                BY AllowedAtMostThrice
            <4> QED BY <3>1, <4>1
        <3>2. CASE tok \in tokens /\ uses'[tok] = uses[tok]
            BY <2>1, <3>2 DEF ProofIInv, ProofsWorkAtMostThrice, Own
        <3> QED BY <1>5, <2>1, <3>1, <3>2
    <2> QED BY <1>1, <1>5, <2>1 DEF ProofIInv, ProofsWorkAtMostThrice, Own
<1> QED
    BY <1>1, <1>2, <1>3, <1>4, <1>5, ProofUses

\* However handlers interleave and repeat a proof, whatever grows, merges and
\* expires between, and across restarts, it has at most three effects.
THEOREM ProofsAlways == Spec => []ProofsWorkAtMostThrice
<1>1. Init => ProofIInv
    <2> SUFFICES ASSUME Init PROVE ProofIInv
        OBVIOUS
    <2>1. tokens = {}
        BY DEF Init, tokens
    <2> QED BY <2>1, InitIInv DEF ProofIInv, ProofsWorkAtMostThrice, Own
<1>2. ProofIInv => ProofsWorkAtMostThrice
    BY DEF ProofIInv
<1> QED
    BY <1>1, <1>2, NextProof, PTL DEF Spec

=============================================================================
