----------------------------- MODULE Credentials -----------------------------
(***************************************************************************)
(* What a tiauth application hands out and takes back: tokens (Ephemerals) *)
(* and sessions (tiauth-core/src/proof.rs), encrypted under its keys       *)
(* (crypto.rs), and proofs.  What is encrypted cannot be read, forged or   *)
(* altered, and its key is the only one that opens it.  A password file is *)
(* a number, NoFile for none; its hash stands for it.                      *)
(***************************************************************************)
EXTENDS Proofs, Integers

CONSTANTS
    EphemeralInterval,  \* EPHEMERAL_INTERVAL and LEEWAY of data.rs, in ticks
    Leeway

ASSUME IntervalAssumption == EphemeralInterval \in Nat \ {0}
ASSUME LeewayAssumption == Leeway \in Nat

NoFile == 0

\* symmetric_encrypt, and symmetric_decrypt, which tries key after key.
Sealed(key, bytes) == [key |-> key, bytes |-> bytes]
Opens(sealed, keys) == sealed.key \in keys

\* The comparison all that expires is put to.
Unexpired(expires, now) == now < expires + Leeway

-----------------------------------------------------------------------------
(* Tokens.  The state one is bound to is the password file at the time it  *)
(* was handed out, its number, both or nothing.                            *)

\* EphemeralType.  ("set_password" is in the code, but never handed out.)
TokenTypes == {"new_user", "change_password", "login", "proof_token"}

EmptyState == [file |-> NoFile, num |-> 0]
ChangePasswordState(file) == [file |-> file, num |-> 0]
LoginState(num, file) == [file |-> file, num |-> num]
ProofTokenState(num) == [file |-> NoFile, num |-> num]

\* EphemeralContent, and its bytes: an array, read in the order in which it
\* was written.  (Its data, empty but for a half-done login, is one with
\* the file of its state, which that login ran against.)
EphemeralContent(user, expires, state, type) ==
    [user |-> user, expires |-> expires, state |-> state, type |-> type]

EphemeralBytes(c) == <<c.user, c.expires, c.state, c.type>>

EphemeralOf(bytes) ==
    EphemeralContent(bytes[1], bytes[2], bytes[3], bytes[4])

\* DecryptedEphemeral::read.
Read(tok) == EphemeralOf(tok.bytes)

\* Ephemeral::create_expires.
CreateExpires(key, user, state, type, expires) ==
    Sealed(key, EphemeralBytes(EphemeralContent(user, expires, state, type)))

\* Ephemeral::create: good as long as its key.
Create(key, user, state, type, now) ==
    CreateExpires(key, user, state, type, now + 2 * EphemeralInterval)

\* verify_state: hands the state to the caller.
VerifyState(tok, type, now) ==
    Unexpired(Read(tok).expires, now) /\ Read(tok).type = type

\* verify_state_equal: compares the state with what is stored now.
VerifyStateEqual(tok, type, state, now) ==
    VerifyState(tok, type, now) /\ Read(tok).state = state

-----------------------------------------------------------------------------
(* Sessions.                                                               *)

\* SessionStatus: a session in the table of sessions is good while its row
\* says so (status 1); one that is not in it is untracked, which is valid.
Untracked == [tracked |-> FALSE, status |-> 0, expires |-> 0]
FromRawStatus(status, expires) ==
    [tracked |-> TRUE, status |-> status, expires |-> expires]

StatusValid(status, now) ==
    status.tracked => Unexpired(status.expires, now) /\ status.status = 1

\* session_status.
SessionStatus(table, s) ==
    IF s \in DOMAIN table
    THEN FromRawStatus(table[s].status, table[s].expires) ELSE Untracked

\* SessionContent, and its bytes: what it is about (SessionCreate), the hash
\* of the file and the claims, each an array of bytes.
SessionContent(user, issued, expires, file, claims) ==
    [user |-> user, issued |-> issued, expires |-> expires, file |-> file,
     claims |-> claims]

SessionBytes(c) == <<<<c.user, c.issued, c.expires>>, c.file, c.claims>>

SessionOf(bytes) ==
    LET about == bytes[1]
    IN  SessionContent(about[1], about[2], about[3], bytes[2], bytes[3])

Content(s) == SessionOf(s.sealed.bytes)

\* Session::create.  `proved` is history: the file the login ran against.
Session(user, expiresIn, file, proved, claims, key, now) ==
    [proved |-> proved,
     sealed |-> Sealed(key, SessionBytes(SessionContent(
                    user, now, now + expiresIn, file, claims)))]

\* Session::decrypt.
SessionDecrypts(s, table, keys, now) ==
    StatusValid(SessionStatus(table, s), now) /\ Opens(s.sealed, keys)

\* SessionContent::verify.
SessionVerify(s, now, file) ==
    Content(s).file = file /\ Unexpired(Content(s).expires, now)

\* SessionContent::verify_max_age.
SessionVerifyMaxAge(s, now, file, maxAge) ==
    now <= Content(s).issued + maxAge /\ SessionVerify(s, now, file)

-----------------------------------------------------------------------------
(* Proofs.                                                                 *)

\* Proof::verify, with `used` for what is done about its token.
ProofVerifies(proof, publicKey, now, used) ==
    Unexpired(ProofOf(proof.content).expires, now) /\ Signed(proof, publicKey) /\ used

=============================================================================
