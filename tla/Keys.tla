-------------------------------- MODULE Keys --------------------------------
(***************************************************************************)
(* The keys and the clock of one tiauth application                        *)
(* (tiauth-core/src/state.rs, proof.rs), and the client of tiauth-app that *)
(* keeps proof tokens in a pool and signs proofs with them.  Tiauth.tla    *)
(* says which tokens and sessions have an effect; here it is which keys    *)
(* verify them and how long, while the clock is driven late, or back to a  *)
(* time read earlier, session keys are rotated or invalidated, the         *)
(* reference time of the ephemeral keys is moved, and the application is   *)
(* loaded again.                                                           *)
(*                                                                         *)
(* A key is the number it was drawn with.  The ephemeral keys of a load    *)
(* are derived from its secret and an index that counts intervals since    *)
(* the reference time, in Width bits: before that time it wraps (and a     *)
(* debug build panics).                                                    *)
(***************************************************************************)
EXTENDS Credentials

CONSTANTS
    SN,                 \* session keys that verify (SN, 2 in use)
    ProofExpiration,    \* proof_expiration of the client, in ticks
    Width,              \* bits of a time (64)
    Signers,            \* private keys the application has had
    None,
    MaxTime,            \* bounds: ticks, loads, session keys, tokens
    MaxLoads,
    MaxKeys,
    MaxTokens

ASSUME SNAssumption == SN \in Nat \ {0}
ASSUME ExpirationAssumption == ProofExpiration \in Nat
ASSUME SpanAssumption == Width \in Nat /\ MaxTime < 2 ^ Width
ASSUME KeysBounds == /\ MaxTime \in Nat /\ MaxLoads \in Nat
                     /\ MaxKeys \in Nat /\ MaxTokens \in Nat

VARIABLES
    clock,          \* the time of day
    time,           \* AppStateImpl.time
    ephemeralTime,  \* key_state.ephemeral_time: the reference time
    load,           \* which ephemeral_secret this is
    sessionKeys,    \* key_state.valid_session_keys
    publicKey,      \* whose signatures verify
    stored,         \* database: the public key of the keys table
    drawn,          \* session keys drawn so far
    pool,           \* client: tokens it has not used
    proofs,         \* proofs it signed
    made,           \* tokens handed out so far
    invalidated     \* history: keys that were invalidated

clocks == <<clock, time>>
keyState == <<ephemeralTime, load, sessionKeys, publicKey>>
client == <<pool, proofs, made>>
vars == <<clocks, keyState, stored, drawn, client, invalidated>>

-----------------------------------------------------------------------------
(* Ephemeral keys.                                                         *)

Passed(now) == (now - ephemeralTime) % 2 ^ Width

\* EphemeralKey::compute.
EphemeralKey(now) == [load |-> load, index |-> Passed(now) \div EphemeralInterval]

\* Mutant: no key for the interval that has begun.
EphVeriKeysEnded(now) ==
    LET amount == Passed(now) \div EphemeralInterval
    IN  {EphemeralKey(now - i * EphemeralInterval) :
            i \in {j \in {0, 1} : j < amount}}

\* eph_veri_keys: the last two (ephemeral_valid), if there were as many.
EphVeriKeys(now) ==
    LET amount == Passed(now) \div EphemeralInterval + 1
    IN  {EphemeralKey(now - i * EphemeralInterval) :
            i \in {j \in {0, 1} : j < amount}}

\* Mutant: what decrypts has not expired.
TokenVerifiesUnexpired(tok, now) ==
    Opens(tok, EphVeriKeys(now)) /\ Read(tok).type = "proof_token"

\* What verify_proof does about the token, short of looking its number up.
TokenVerifies(tok, now) ==
    Opens(tok, EphVeriKeys(now)) /\ VerifyState(tok, "proof_token", now)

\* What a proof says, and over which token of the pool.
Says(p) == ProofOf(Decoded(p).content)

Verifies(p, now) ==
    ProofVerifies(Decoded(p), publicKey, now,
                  TokenVerifies(Says(p).token.tok, now))

-----------------------------------------------------------------------------
\* A load draws the keys of all its types: get_or_create never inserts one.
LoadState(now, pk) ==
    /\ time' = now
    /\ ephemeralTime' = now
    /\ sessionKeys' = [i \in 1 .. SN |-> drawn + i]
    /\ drawn' = drawn + SN
    /\ publicKey' = pk

Init ==
    /\ clock = 0
    /\ time = 0
    /\ ephemeralTime = 0
    /\ load = 1
    /\ sessionKeys = [i \in 1 .. SN |-> i]
    /\ drawn = SN
    /\ \E pk \in Signers : publicKey = pk /\ stored = pk
    /\ pool = <<>>
    /\ proofs = {}
    /\ made = 0
    /\ invalidated = {}

Tick ==
    /\ clock < MaxTime
    /\ clock' = clock + 1
    /\ UNCHANGED <<time, keyState, stored, drawn, client, invalidated>>

\* drive_time, by somebody who read the clock now or before.
DriveTime(now) ==
    /\ now <= clock
    /\ time' = now
    /\ UNCHANGED <<clock, keyState, stored, drawn, client, invalidated>>

\* load_app_state: a public key that is given overwrites the stored one
\* (overwrite_public_key_or_get).
LoadAppState(given) ==
    /\ load < MaxLoads
    /\ drawn + SN <= MaxKeys
    /\ load' = load + 1
    /\ stored' = IF given = None THEN stored ELSE given
    /\ LoadState(clock, stored')
    /\ UNCHANGED <<clock, client, invalidated>>

\* rotate_session_keys: the oldest makes room.
RotatedLeft(keys, key) == Append(Tail(keys), key)

RotateSessionKeys ==
    /\ drawn < MaxKeys
    /\ drawn' = drawn + 1
    /\ sessionKeys' = RotatedLeft(sessionKeys, drawn')
    /\ UNCHANGED <<clocks, ephemeralTime, load, publicKey, stored, client,
                   invalidated>>

Keys == {sessionKeys[i] : i \in 1 .. SN}

\* Mutant: the loop that moves keys starts one place too far.
ShiftedAfter(key, new) ==
    [i \in 1 .. SN |->
        IF i = SN THEN new
        ELSE IF \E j \in 1 .. i - 1 : sessionKeys[j] = key
             THEN sessionKeys[i + 1] ELSE sessionKeys[i]]

\* The keys behind the invalid one move one place left.
Shifted(key, new) ==
    [i \in 1 .. SN |->
        IF i = SN THEN new
        ELSE IF \E j \in 1 .. i : sessionKeys[j] = key
             THEN sessionKeys[i + 1] ELSE sessionKeys[i]]

\* invalidate_session_key: one that does not verify (any more) rotates.
InvalidateSessionKey(key) ==
    /\ drawn < MaxKeys
    /\ drawn' = drawn + 1
    /\ sessionKeys' = IF key \in Keys THEN Shifted(key, drawn')
                      ELSE RotatedLeft(sessionKeys, drawn')
    /\ invalidated' = invalidated \cup {key}
    /\ UNCHANGED <<clocks, ephemeralTime, load, publicKey, stored, client>>

UpdateEphemeralTime ==
    /\ ephemeralTime' = clock
    /\ UNCHANGED <<clocks, load, sessionKeys, publicKey, stored, drawn,
                   client, invalidated>>

-----------------------------------------------------------------------------
(* Tokens and proofs.                                                      *)

\* proof_token, which the client asks for to fill its pool (load_tokens).
\* The time it was handed out `at` and the reference time are history.
LoadTokens ==
    /\ made < MaxTokens
    /\ made' = made + 1
    /\ pool' = Append(pool,
           [tok |-> Create(EphemeralKey(time), None, ProofTokenState(made'),
                           "proof_token", time),
            at |-> time, reference |-> ephemeralTime])
    /\ UNCHANGED <<clocks, keyState, stored, drawn, proofs, invalidated>>

\* prepare_set_claims: takes the oldest token (NoTokensLeft if there is
\* none) and signs a proof, by the client's own clock.  Which user and claims
\* it is about makes no difference here.
PrepareSetClaims(signer) ==
    /\ pool # <<>>
    /\ pool' = Tail(pool)
    /\ proofs' = proofs \cup
           {Encoded(Proof(signer,
                          ProofContent(clock + ProofExpiration,
                                       AboutUser("set_claims", None),
                                       Head(pool), None)))}
    /\ UNCHANGED <<clocks, keyState, stored, drawn, made, invalidated>>

Next ==
    \/ Tick
    \/ \E now \in 0 .. MaxTime : DriveTime(now)
    \/ \E given \in Signers \cup {None} : LoadAppState(given)
    \/ RotateSessionKeys
    \/ \E key \in 1 .. drawn : InvalidateSessionKey(key)
    \/ UpdateEphemeralTime
    \/ LoadTokens
    \/ \E signer \in Signers : PrepareSetClaims(signer)

Spec == Init /\ [][Next]_vars

-----------------------------------------------------------------------------
(***************************************************************************)
(* Through rotations and invalidations the keys that verify sessions are   *)
(* the newest ones of this load that were not invalidated, oldest first:   *)
(* an invalid key is never kept, no key is lost before an older one, and   *)
(* new sessions are under the newest (session_key is the last).            *)
(***************************************************************************)
NewestKeysVerify ==
    /\ Keys \cap invalidated = {}
    /\ \A i, j \in 1 .. SN : i < j => sessionKeys[i] < sessionKeys[j]
    /\ sessionKeys[SN] = drawn
    /\ \A key \in sessionKeys[1] .. drawn : key \in Keys \cup invalidated

(***************************************************************************)
(* A proof is good for at least one interval after its token was handed    *)
(* out, whatever keys and times it falls between, unless the application   *)
(* was loaded again, the reference time was moved or lies ahead, or the    *)
(* clock was driven back behind the token.                                 *)
(***************************************************************************)
FreshProofsVerify ==
    \A p \in proofs :
        LET token == Says(p).token
        IN  /\ token.tok.key.load = load
            /\ token.reference = ephemeralTime
            /\ ephemeralTime <= token.at
            /\ token.at <= time /\ time <= token.at + EphemeralInterval
            /\ Signed(Decoded(p), publicKey)
            /\ time < Says(p).expires + Leeway
            => Verifies(p, time)

(***************************************************************************)
(* No proof is good more than two intervals (and LEEWAY) after its token   *)
(* was handed out, although an ephemeral key comes back when the reference *)
(* time is moved.                                                          *)
(***************************************************************************)
LateProofsFail ==
    \A p \in proofs :
        Verifies(p, time) =>
            time < Says(p).token.at + 2 * EphemeralInterval + Leeway

=============================================================================
