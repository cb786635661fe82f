---------------------------- MODULE ProcessProofs ----------------------------
(***************************************************************************)
(* Theorems about the tiauth process.  Of Keys, for every number of        *)
(* session keys, every interval, leeway and width, and all bounds: which   *)
(* session keys verify, how long a proof is good at least, and at most.    *)
(* Of Server, its threads, for every set of applications and every         *)
(* capacity: when which files are removed.  Of Directory, for all tables   *)
(* and queries: what an administrator reads, what an edit makes of claims, *)
(* and which of them a session gets.                                       *)
(***************************************************************************)
EXTENDS Keys, Server, Directory, FiniteSetTheorems, SequenceTheorems,
        WellFoundedInduction, TLAPS

KeysTypeOK ==
    /\ clock \in 0 .. MaxTime
    /\ time \in 0 .. clock
    /\ ephemeralTime \in 0 .. clock
    /\ load \in Nat /\ drawn \in Nat /\ made \in Nat
    /\ sessionKeys \in [1 .. SN -> 1 .. drawn]
    /\ invalidated \subseteq 1 .. drawn

\* A token as proof_token makes it: the number n, handed out `at` a time when
\* the reference time was r.
Index(at, r) == ((at - r) % 2 ^ Width) \div EphemeralInterval

PoolToken(l, n, at, r) ==
    [tok |-> Create([load |-> l, index |-> Index(at, r)], None,
                    ProofTokenState(n), "proof_token", at),
     at |-> at, reference |-> r]

PoolTokens ==
    {PoolToken(l, n, at, r) :
        l \in Nat, n \in Nat, at \in 0 .. MaxTime, r \in 0 .. MaxTime}

\* A proof as prepare_set_claims signs it, as it is sent.
SignedProof(signer, expires, token) ==
    Encoded(Proof(signer, ProofContent(expires, AboutUser("set_claims", None),
                                       token, None)))

SignedProofs ==
    {SignedProof(s, e, t) : s \in Signers, e \in Nat, t \in PoolTokens}

\* NewestKeysVerify of any keys, with their range: d keys were drawn so far.
Newest(keys, d, invalid) ==
    /\ keys \in [1 .. SN -> 1 .. d]
    /\ invalid \subseteq 1 .. d
    /\ \A i \in 1 .. SN : keys[i] \notin invalid
    /\ \A i, j \in 1 .. SN : i < j => keys[i] < keys[j]
    /\ keys[SN] = d
    /\ \A k \in keys[1] .. d : k \in invalid \/ \E i \in 1 .. SN : keys[i] = k

\* Tokens and proofs are those that were made.
TokensOK == pool \in Seq(PoolTokens) /\ proofs \subseteq SignedProofs

IInv == KeysTypeOK /\ Newest(sessionKeys, drawn, invalidated) /\ TokensOK

-----------------------------------------------------------------------------
(***************************************************************************)
(* Session keys                                                            *)
(***************************************************************************)

\* A function on 1..n is a sequence of that length, and what rotation makes
\* of it.
LEMMA Rotation ==
    ASSUME NEW s \in [1 .. SN -> Nat], NEW k \in Nat
    PROVE  /\ RotatedLeft(s, k) \in [1 .. SN -> Nat]
           /\ RotatedLeft(s, k)[SN] = k
           /\ \A i \in 1 .. SN : i # SN => RotatedLeft(s, k)[i] = s[i + 1]
<1>1. PICK n \in Nat : n = SN /\ n >= 1
    BY SNAssumption
<1>2. s \in Seq(Nat) /\ Len(s) = n /\ s # <<>>
    BY <1>1
<1>3. /\ Tail(s) \in Seq(Nat) /\ Len(Tail(s)) = n - 1
      /\ \A i \in 1 .. n - 1 : Tail(s)[i] = s[i + 1]
    BY <1>1, <1>2
<1>4. PICK tail \in Seq(Nat) : tail = Tail(s) /\ Len(tail) = n - 1
    BY <1>3
<1>5. PICK q \in Seq(Nat) : q = Append(tail, k)
    <2>1. Append(tail, k) \in Seq(Nat)
        OBVIOUS
    <2> QED BY <2>1
<1>6. /\ Len(q) = n
      /\ \A i \in 1 .. n : q[i] = IF i = n THEN k ELSE tail[i]
    BY <1>1, <1>4, <1>5
<1>8. RotatedLeft(s, k) = q
    BY <1>4, <1>5 DEF RotatedLeft
<1>9. \A i \in 1 .. n : q[i] = IF i = n THEN k ELSE s[i + 1]
    BY <1>3, <1>4, <1>6
<1>10. q \in [1 .. n -> Nat]
    BY <1>6
<1> QED
    BY <1>1, <1>8, <1>9, <1>10

\* It is the property, and the range of the keys.
LEMMA NewestIsProperty ==
    ASSUME drawn \in Nat, Newest(sessionKeys, drawn, invalidated)
    PROVE  NewestKeysVerify
<1>1. Keys \cap invalidated = {}
    BY DEF Keys, Newest
<1>2. \A k \in sessionKeys[1] .. drawn : k \in Keys \cup invalidated
    BY DEF Keys, Newest
<1> QED
    BY <1>1, <1>2 DEF Newest, NewestKeysVerify

\* A new key takes the place of the oldest one, whatever else is invalidated.
LEMMA RotatedNewest ==
    ASSUME NEW d \in Nat, NEW keys, NEW invalid, Newest(keys, d, invalid),
           NEW more \in SUBSET (1 .. d),
           \A i \in 1 .. SN : keys[i] \notin more
    PROVE  Newest(RotatedLeft(keys, d + 1), d + 1, invalid \cup more)
<1>1. PICK n \in Nat : n = SN /\ n >= 1
    BY SNAssumption
<1>2. keys \in [1 .. SN -> Nat] /\ d + 1 \in Nat
    BY DEF Newest
<1>3. PICK new : new = RotatedLeft(keys, d + 1)
    OBVIOUS
<1>4. /\ new \in [1 .. n -> Nat]
      /\ new[n] = d + 1
      /\ \A i \in 1 .. n : i # n => new[i] = keys[i + 1]
    BY <1>1, <1>2, <1>3, Rotation, ZenonT(30)
<1>5. /\ \A i \in 1 .. n : keys[i] \in 1 .. d /\ keys[i] \notin invalid \cup more
      /\ \A i, j \in 1 .. n : i < j => keys[i] < keys[j]
      /\ keys[n] = d
      /\ \A k \in keys[1] .. d : k \in invalid \/ \E i \in 1 .. n : keys[i] = k
      /\ invalid \cup more \subseteq 1 .. d
    BY <1>1 DEF Newest
<1>6. \A i \in 1 .. n : /\ i = n => new[i] = d + 1
                        /\ i # n => i + 1 \in 1 .. n /\ new[i] = keys[i + 1]
    BY <1>4
<1>7. new \in [1 .. n -> 1 .. d + 1]
    <2>1. \A i \in 1 .. n : new[i] \in 1 .. d + 1
        BY <1>5, <1>6
    <2> QED BY <1>4, <2>1
<1>8. \A i \in 1 .. n : new[i] \notin invalid \cup more
    BY <1>5, <1>6
<1>9. \A i, j \in 1 .. n : i < j => new[i] < new[j]
    BY <1>5, <1>6
<1>10. ASSUME NEW k \in new[1] .. d + 1
       PROVE  k \in invalid \cup more \/ \E i \in 1 .. n : new[i] = k
    <2>1. CASE k = d + 1
        BY <1>1, <1>6, <2>1
    <2>2. CASE k # d + 1
        <3>1. n # 1 /\ new[1] = keys[2] /\ k \in keys[2] .. d
            BY <1>1, <1>5, <1>6, <2>2
        <3>2. 2 \in 1 .. n /\ keys[1] < keys[2] /\ k \in keys[1] .. d
            BY <1>1, <1>5, <3>1
        <3>3. SUFFICES ASSUME NEW i \in 1 .. n, keys[i] = k
                       PROVE  \E j \in 1 .. n : new[j] = k
            BY <1>5, <3>2
        <3>4. i # 1 /\ i - 1 \in 1 .. n /\ i - 1 # n /\ (i - 1) + 1 = i
            BY <1>5, <3>1, <3>2, <3>3
        <3>5. new[i - 1] = keys[i]
            BY <1>6, <3>4
        <3> QED BY <3>3, <3>4, <3>5
    <2> QED BY <2>1, <2>2
<1>11. /\ invalid \cup more \subseteq 1 .. d + 1
       /\ new[n] = d + 1
    BY <1>1, <1>5, <1>6
<1>12. Newest(new, d + 1, invalid \cup more)
    BY <1>1, <1>7, <1>8, <1>9, <1>10, <1>11 DEF Newest
<1> QED
    BY <1>3, <1>12

\* The keys behind an invalid one move up, and a new key comes last.
LEMMA ShiftedNewest ==
    ASSUME NEW d \in Nat, NEW invalid, Newest(sessionKeys, d, invalid),
           NEW key \in Keys
    PROVE  Newest(Shifted(key, d + 1), d + 1, invalid \cup {key})
<1>1. PICK n \in Nat : n = SN /\ n >= 1
    BY SNAssumption
<1>2. PICK keys : keys = sessionKeys
    OBVIOUS
<1>3. PICK p \in 1 .. n : keys[p] = key
    BY <1>1, <1>2 DEF Keys
<1>4. PICK new : new = Shifted(key, d + 1)
    OBVIOUS
<1>5. /\ \A i \in 1 .. n : keys[i] \in 1 .. d /\ keys[i] \notin invalid
      /\ \A i, j \in 1 .. n : i < j => keys[i] < keys[j]
      /\ keys[n] = d
      /\ \A k \in keys[1] .. d : k \in invalid \/ \E i \in 1 .. n : keys[i] = k
      /\ invalid \subseteq 1 .. d
    BY <1>1, <1>2 DEF Newest
<1>6. \A i \in 1 .. n : keys[i] = key => i = p
    BY <1>3, <1>5
<1>7. \A i \in 1 .. n : (\E j \in 1 .. i : keys[j] = key) <=> p <= i
    BY <1>3, <1>6
<1>8. new = [i \in 1 .. n |->
                IF i = n THEN d + 1
                ELSE IF \E j \in 1 .. i : keys[j] = key THEN keys[i + 1]
                ELSE keys[i]]
    BY <1>1, <1>2, <1>4, Zenon DEF Shifted
<1>9. \A i \in 1 .. n :
          /\ i = n => new[i] = d + 1
          /\ i # n /\ p <= i => i + 1 \in 1 .. n /\ new[i] = keys[i + 1]
          /\ i # n /\ i < p => new[i] = keys[i]
    BY <1>7, <1>8
<1>10. new \in [1 .. n -> 1 .. d + 1]
    <2>1. \A i \in 1 .. n : new[i] \in 1 .. d + 1
        BY <1>5, <1>9
    <2> QED BY <1>8, <2>1
<1>11. \A i \in 1 .. n : new[i] \notin invalid \cup {key}
    <2>1. key \in 1 .. d
        BY <1>3, <1>5
    <2> QED BY <1>5, <1>6, <1>9, <2>1
<1>12. \A i, j \in 1 .. n : i < j => new[i] < new[j]
    <2> SUFFICES ASSUME NEW i \in 1 .. n, NEW j \in 1 .. n, i < j
                 PROVE  new[i] < new[j]
        OBVIOUS
    <2>1. CASE j = n
        BY <1>5, <1>9, <2>1
    <2>2. CASE j # n /\ p <= i
        <3>1. i + 1 \in 1 .. n /\ j + 1 \in 1 .. n /\ i + 1 < j + 1
            BY <2>2
        <3> QED BY <1>5, <1>9, <2>2, <3>1
    <2>3. CASE j # n /\ i < p /\ p <= j
        <3>1. j + 1 \in 1 .. n /\ i < j + 1
            BY <2>3
        <3> QED BY <1>5, <1>9, <2>3, <3>1
    <2>4. CASE j # n /\ j < p
        BY <1>5, <1>9, <2>4
    <2> QED BY <2>1, <2>2, <2>3, <2>4
<1>13. ASSUME NEW k \in new[1] .. d + 1
       PROVE  k \in invalid \cup {key} \/ \E i \in 1 .. n : new[i] = k
    <2>1. CASE k = d + 1
        BY <1>1, <1>9, <2>1
    <2>2. CASE k # d + 1
        <3>1. k \in keys[1] .. d
            <4>1. keys[1] <= new[1] /\ keys[1] \in Nat /\ new[1] \in Nat
                <5>1. 1 \in 1 .. n /\ (2 \in 1 .. n => keys[1] < keys[2])
                    BY <1>1, <1>5
                <5> QED BY <1>1, <1>5, <1>9, <5>1
            <4> QED BY <2>2, <4>1
        <3>2. SUFFICES ASSUME NEW i \in 1 .. n, keys[i] = k, i # p
                       PROVE  \E j \in 1 .. n : new[j] = k
            BY <1>3, <1>5, <3>1
        <3>3. CASE i < p
            BY <1>9, <3>2, <3>3
        <3>4. CASE i > p
            <4>1. i - 1 \in 1 .. n /\ i - 1 # n /\ p <= i - 1 /\ (i - 1) + 1 = i
                BY <3>4
            <4>2. new[i - 1] = keys[i]
                BY <1>9, <4>1
            <4> QED BY <3>2, <4>1, <4>2
        <3> QED BY <3>2, <3>3, <3>4
    <2> QED BY <2>1, <2>2
<1>14. invalid \cup {key} \subseteq 1 .. d + 1 /\ new[n] = d + 1
    <2>1. key \in 1 .. d /\ invalid \subseteq 1 .. d
        BY <1>3, <1>5
    <2>2. n \in 1 .. n
        BY <1>1
    <2> QED BY <1>9, <2>1, <2>2
<1>15. Newest(new, d + 1, invalid \cup {key})
    BY <1>1, <1>10, <1>11, <1>12, <1>13, <1>14 DEF Newest
<1> QED
    BY <1>4, <1>15

\* A load draws keys that are newer than all invalid ones.
LEMMA LoadedNewest ==
    ASSUME NEW d \in Nat, NEW invalid \in SUBSET (1 .. d)
    PROVE  Newest([i \in 1 .. SN |-> d + i], d + SN, invalid)
<1>1. PICK n \in Nat : n = SN /\ n >= 1
    BY SNAssumption
<1>2. PICK new : new = [i \in 1 .. n |-> d + i]
    OBVIOUS
<1>3. \A i \in 1 .. n : new[i] = d + i
    BY <1>2
<1>4. new \in [1 .. n -> 1 .. d + n]
    BY <1>2
<1>5. \A k \in new[1] .. d + n : \E i \in 1 .. n : new[i] = k
    <2> SUFFICES ASSUME NEW k \in new[1] .. d + n
                 PROVE  \E i \in 1 .. n : new[i] = k
        OBVIOUS
    <2>1. k - d \in 1 .. n /\ d + (k - d) = k
        BY <1>1, <1>3
    <2> QED BY <1>3, <2>1
<1>6. /\ invalid \subseteq 1 .. d + n
      /\ \A i \in 1 .. n : new[i] \notin invalid
      /\ \A i, j \in 1 .. n : i < j => new[i] < new[j]
      /\ new[n] = d + n
    BY <1>1, <1>3
<1>7. Newest(new, d + n, invalid)
    BY <1>1, <1>4, <1>5, <1>6 DEF Newest
<1> QED
    BY <1>1, <1>2, <1>7, Zenon

-----------------------------------------------------------------------------
(***************************************************************************)
(* Tokens and proofs                                                       *)
(***************************************************************************)

\* What was signed is read back from what is sent.
LEMMA ProofReadsBack ==
    ASSUME NEW s, NEW e, NEW t
    PROVE  /\ Says(SignedProof(s, e, t)).token = t
           /\ Says(SignedProof(s, e, t)).expires = e
<1> DEFINE c == ProofContent(e, AboutUser("set_claims", None), t, None)
           bytes == ProofBytes(c)
           signature == SignData(s, bytes)
           p == SignedProof(s, e, t)
           S == {c.about.action, c.about.target, c.about.list, c.expires,
                 c.token, c.data, signature, 6}
<1>1. bytes \in Seq(S) /\ Len(bytes) = 6 /\ bytes[4] = e /\ bytes[5] = t
    BY DEF ProofBytes, ProofContent
<1>2. PICK b \in Seq(S) : b = bytes
    BY <1>1
<1>3. PICK q \in Seq(S) : q = <<signature, 6>> /\ Len(q) = 2 /\ q[2] = 6
    <2>1. signature \in S /\ 6 \in S
        OBVIOUS
    <2> HIDE DEF S, signature
    <2>2. <<signature, 6>> \in Seq(S)
        BY <2>1
    <2> QED BY <2>2
<1>4. p = b \o q
    <2>1. Len(bytes) = 6
        BY <1>1
    <2>2. p = bytes \o <<signature, Len(bytes)>>
        BY DEF SignedProof, Encoded, Proof
    <2> HIDE DEF p, bytes, signature, S
    <2> QED BY <1>2, <1>3, <2>1, <2>2, Zenon
<1> HIDE DEF p, S, bytes, signature
<1>5. p \in Seq(S) /\ Len(p) = 8 /\ p[8] = 6 /\ \A i \in 1 .. 6 : p[i] = bytes[i]
    <2>1. Len(b) = 6
        BY <1>1, <1>2
    <2>2. p \in Seq(S) /\ Len(p) = Len(b) + Len(q)
        BY <1>4
    <2>3. \A i \in 1 .. Len(p) :
              p[i] = IF i <= Len(b) THEN b[i] ELSE q[i - Len(b)]
        BY <1>4, <2>2
    <2>4. p[8] = q[2]
        BY <1>3, <2>1, <2>2, <2>3
    <2>5. \A i \in 1 .. 6 : p[i] = b[i]
        BY <1>3, <2>1, <2>2, <2>3
    <2> QED BY <1>2, <1>3, <2>1, <2>2, <2>4, <2>5
<1>6. Decoded(p).content = SubSeq(p, 1, 6)
    BY <1>5 DEF Decoded
<1>7. SubSeq(p, 1, 6)[4] = p[4] /\ SubSeq(p, 1, 6)[5] = p[5]
    BY <1>5
<1> QED
    BY <1>1, <1>5, <1>6, <1>7 DEF Says, ProofOf, ProofContent, p

\* So is what was sealed in a token of the pool.
LEMMA TokenReadsBack ==
    ASSUME NEW l, NEW n, NEW at, NEW r
    PROVE  /\ Read(PoolToken(l, n, at, r).tok).expires
                 = at + 2 * EphemeralInterval
           /\ Read(PoolToken(l, n, at, r).tok).type = "proof_token"
           /\ PoolToken(l, n, at, r).tok.key
                 = [load |-> l, index |-> Index(at, r)]
           /\ PoolToken(l, n, at, r).at = at
           /\ PoolToken(l, n, at, r).reference = r
BY DEF PoolToken, Read, Create, CreateExpires, Sealed, EphemeralBytes,
       EphemeralOf, EphemeralContent

\* Every proof that was signed is over a token of the pool.
LEMMA ProofOverToken ==
    ASSUME TokensOK, NEW p \in proofs
    PROVE  \E l \in Nat, n \in Nat, at \in 0 .. MaxTime, r \in 0 .. MaxTime :
               Says(p).token = PoolToken(l, n, at, r)
<1>1. PICK s \in Signers, e \in Nat, t \in PoolTokens : p = SignedProof(s, e, t)
    BY DEF TokensOK, SignedProofs
<1>2. Says(p).token = t
    BY <1>1, ProofReadsBack
<1>3. \E l \in Nat, n \in Nat, at \in 0 .. MaxTime, r \in 0 .. MaxTime :
          t = PoolToken(l, n, at, r)
    BY DEF PoolTokens
<1> QED
    BY <1>2, <1>3

-----------------------------------------------------------------------------
(***************************************************************************)
(* The invariant                                                           *)
(***************************************************************************)

LEMMA InitIInv == Init => IInv
<1> SUFFICES ASSUME Init PROVE IInv
    OBVIOUS
<1>1. PICK n \in Nat : n = SN /\ n >= 1
    BY SNAssumption
<1>2. Newest([i \in 1 .. SN |-> 0 + i], 0 + SN, {})
    <2>1. {} \in SUBSET (1 .. 0) /\ 0 \in Nat
        OBVIOUS
    <2> QED BY <2>1, LoadedNewest
<1>3. [i \in 1 .. SN |-> 0 + i] = [i \in 1 .. SN |-> i] /\ 0 + SN = SN
    BY <1>1
<1>4. Newest(sessionKeys, drawn, invalidated)
    BY <1>2, <1>3, Zenon DEF Init
<1>5. KeysTypeOK
    BY <1>1, <1>4, KeysBounds DEF Init, KeysTypeOK, Newest
<1>6. TokensOK
    BY DEF Init, TokensOK
<1> QED
    BY <1>4, <1>5, <1>6 DEF IInv

\* The clock ticks, is read late (drive_time), and becomes the reference time.
LEMMA ClockIInv ==
    ASSUME IInv,
           \/ Tick
           \/ \E now \in 0 .. MaxTime : DriveTime(now)
           \/ UpdateEphemeralTime
    PROVE  IInv'
<1>1. UNCHANGED <<load, sessionKeys, drawn, client, invalidated>>
    BY DEF Tick, DriveTime, UpdateEphemeralTime, keyState, clocks
<1>2. Newest(sessionKeys, drawn, invalidated)' /\ TokensOK'
    BY <1>1 DEF IInv, Newest, TokensOK, client
<1>3. KeysTypeOK'
    <2>1. /\ clock' \in 0 .. MaxTime
          /\ time' \in 0 .. clock'
          /\ ephemeralTime' \in 0 .. clock'
        BY KeysBounds DEF IInv, KeysTypeOK, Tick, DriveTime, UpdateEphemeralTime,
                          keyState, clocks
    <2> QED BY <1>1, <2>1 DEF IInv, KeysTypeOK, client
<1> QED
    BY <1>2, <1>3 DEF IInv

\* A load draws new keys ...
LEMMA LoadIInv ==
    ASSUME IInv, NEW given, LoadAppState(given)
    PROVE  IInv'
<1>1. PICK n \in Nat : n = SN /\ n >= 1
    BY SNAssumption
<1>2. /\ sessionKeys' = [i \in 1 .. SN |-> drawn + i]
      /\ drawn' = drawn + SN /\ invalidated' = invalidated
    BY DEF LoadAppState, LoadState
<1>3. drawn \in Nat /\ invalidated \in SUBSET (1 .. drawn)
    BY DEF IInv, KeysTypeOK
<1>4. Newest(sessionKeys', drawn', invalidated')
    BY <1>2, <1>3, LoadedNewest
<1>5. drawn' \in Nat
    BY <1>1, <1>2, <1>3
<1>6. KeysTypeOK'
    BY <1>4, <1>5 DEF IInv, KeysTypeOK, Newest, LoadAppState, LoadState, client
<1>7. TokensOK'
    BY DEF IInv, TokensOK, LoadAppState, client
<1> QED
    BY <1>4, <1>6, <1>7 DEF IInv

\* ... and so do a rotation ...
LEMMA RotateIInv ==
    ASSUME IInv, RotateSessionKeys
    PROVE  IInv'
<1>1. /\ drawn \in Nat
      /\ drawn' = drawn + 1 /\ invalidated' = invalidated \cup {}
      /\ sessionKeys' = RotatedLeft(sessionKeys, drawn + 1)
    BY DEF IInv, KeysTypeOK, RotateSessionKeys
<1>2. Newest(sessionKeys, drawn, invalidated)
      /\ {} \in SUBSET (1 .. drawn)
    BY DEF IInv
<1>3. Newest(sessionKeys', drawn', invalidated')
    BY <1>1, <1>2, RotatedNewest
<1>4. KeysTypeOK'
    BY <1>1, <1>3 DEF IInv, KeysTypeOK, Newest, RotateSessionKeys, client, clocks
<1>5. TokensOK'
    BY DEF IInv, TokensOK, RotateSessionKeys, client
<1> QED
    BY <1>3, <1>4, <1>5 DEF IInv

\* ... and an invalidation, of a key that verifies or of any other.
LEMMA InvalidateIInv ==
    ASSUME IInv, NEW key \in 1 .. drawn, InvalidateSessionKey(key)
    PROVE  IInv'
<1>1. /\ drawn \in Nat /\ {key} \in SUBSET (1 .. drawn)
      /\ drawn' = drawn + 1 /\ invalidated' = invalidated \cup {key}
      /\ Newest(sessionKeys, drawn, invalidated)
    BY DEF IInv, KeysTypeOK, InvalidateSessionKey
<1>2. Newest(sessionKeys', drawn', invalidated')
    <2>1. CASE key \in Keys
        <3>1. sessionKeys' = Shifted(key, drawn + 1)
            BY <1>1, <2>1 DEF InvalidateSessionKey
        <3> QED BY <1>1, <2>1, <3>1, ShiftedNewest
    <2>2. CASE key \notin Keys
        <3>1. sessionKeys' = RotatedLeft(sessionKeys, drawn + 1)
            BY <1>1, <2>2 DEF InvalidateSessionKey
        <3>2. \A i \in 1 .. SN : sessionKeys[i] \notin {key}
            BY <2>2 DEF Keys
        <3> QED BY <1>1, <3>1, <3>2, RotatedNewest
    <2> QED BY <2>1, <2>2
<1>3. KeysTypeOK'
    BY <1>1, <1>2 DEF IInv, KeysTypeOK, Newest, InvalidateSessionKey, client, clocks
<1>4. TokensOK'
    BY DEF IInv, TokensOK, InvalidateSessionKey, client
<1> QED
    BY <1>2, <1>3, <1>4 DEF IInv

\* The client asks for a token ...
LEMMA LoadTokensIInv ==
    ASSUME IInv, LoadTokens
    PROVE  IInv'
<1>1. UNCHANGED <<clock, time, keyState, drawn, proofs, invalidated>>
    BY DEF LoadTokens, clocks
<1>2. made' \in Nat
    BY DEF IInv, KeysTypeOK, LoadTokens
<1>3. KeysTypeOK' /\ Newest(sessionKeys, drawn, invalidated)'
    BY <1>1, <1>2 DEF IInv, KeysTypeOK, Newest, keyState
<1>4. pool' = Append(pool, PoolToken(load, made', time, ephemeralTime))
    BY DEF LoadTokens, PoolToken, EphemeralKey, Passed, Index
<1>5. PoolToken(load, made', time, ephemeralTime) \in PoolTokens
    <2>1. load \in Nat /\ time \in 0 .. MaxTime /\ ephemeralTime \in 0 .. MaxTime
        BY KeysBounds DEF IInv, KeysTypeOK
    <2> QED BY <1>2, <2>1 DEF PoolTokens
<1>6. pool' \in Seq(PoolTokens)
    BY <1>4, <1>5 DEF IInv, TokensOK
<1> QED
    BY <1>1, <1>3, <1>6 DEF IInv, TokensOK

\* ... and signs a proof over the oldest one.
LEMMA PrepareIInv ==
    ASSUME IInv, NEW signer \in Signers, PrepareSetClaims(signer)
    PROVE  IInv'
<1>1. UNCHANGED <<clock, time, keyState, drawn, made, invalidated>>
    BY DEF PrepareSetClaims, clocks
<1>2. KeysTypeOK' /\ Newest(sessionKeys, drawn, invalidated)'
    BY <1>1 DEF IInv, KeysTypeOK, Newest, keyState
<1>3. /\ pool \in Seq(PoolTokens) /\ pool # <<>> /\ pool' = Tail(pool)
    BY DEF IInv, TokensOK, PrepareSetClaims
<1>4. Head(pool) \in PoolTokens /\ pool' \in Seq(PoolTokens)
    BY <1>3
<1>5. clock + ProofExpiration \in Nat
    BY ExpirationAssumption, KeysBounds DEF IInv, KeysTypeOK
<1>6. proofs' = proofs \cup
          {SignedProof(signer, clock + ProofExpiration, Head(pool))}
    BY DEF PrepareSetClaims, SignedProof
<1>7. proofs' \subseteq SignedProofs
    BY <1>4, <1>5, <1>6 DEF IInv, TokensOK, SignedProofs
<1> QED
    BY <1>2, <1>4, <1>7 DEF IInv, TokensOK

\* IInv is an invariant.
LEMMA Invariance == Spec => []IInv
<1>1. IInv /\ [Next]_vars => IInv'
    <2> SUFFICES ASSUME IInv, [Next]_vars PROVE IInv'
        OBVIOUS
    <2>1. CASE Next
        BY <2>1, ClockIInv, LoadIInv, RotateIInv, InvalidateIInv,
           LoadTokensIInv, PrepareIInv DEF Next
    <2>2. CASE UNCHANGED vars
        BY <2>2 DEF IInv, KeysTypeOK, Newest, TokensOK, vars, clocks, keyState, client
    <2> QED BY <2>1, <2>2
<1> QED
    BY <1>1, InitIInv, PTL DEF Spec

(***************************************************************************)
(* The clock that is driven and the reference time never pass the time of  *)
(* day, and every session key was drawn.                                   *)
(***************************************************************************)
THEOREM TypeCorrect == Spec => []KeysTypeOK
<1>1. IInv => KeysTypeOK
    BY DEF IInv
<1> QED
    BY <1>1, Invariance, PTL

(***************************************************************************)
(* NewestKeysVerify holds for any number of keys: rotations and            *)
(* invalidations keep the newest keys that are not invalid, in order.      *)
(***************************************************************************)
THEOREM NewestAlways == Spec => []NewestKeysVerify
<1>1. IInv => NewestKeysVerify
    BY NewestIsProperty DEF IInv, KeysTypeOK
<1> QED
    BY <1>1, Invariance, PTL

-----------------------------------------------------------------------------
(***************************************************************************)
(* How long a proof is good                                                *)
(***************************************************************************)

LEMMA LateFail == IInv => LateProofsFail
<1> SUFFICES ASSUME IInv, NEW p \in proofs, Verifies(p, time)
             PROVE  time < Says(p).token.at + 2 * EphemeralInterval + Leeway
    BY DEF LateProofsFail
<1>1. PICK l \in Nat, n \in Nat, at \in 0 .. MaxTime, r \in 0 .. MaxTime :
          Says(p).token = PoolToken(l, n, at, r)
    BY ProofOverToken DEF IInv
<1>2. PICK tok : tok = Says(p).token.tok
    OBVIOUS
<1>3. Read(tok).expires = at + 2 * EphemeralInterval /\ Says(p).token.at = at
    <2>1. PICK d \in Nat \ {0} : d = EphemeralInterval
        BY IntervalAssumption
    <2>2. /\ Read(tok).expires = at + 2 * d
          /\ tok.key = [load |-> l, index |-> Index(at, r)]
          /\ Says(p).token.at = at
        BY <1>1, <1>2, <2>1, TokenReadsBack
    <2> QED BY <2>1, <2>2
<1>4. TokenVerifies(tok, time)
    BY <1>2 DEF Verifies, ProofVerifies
<1>5. time < Read(tok).expires + Leeway
    BY <1>4 DEF TokenVerifies, VerifyState, Unexpired
<1> QED
    BY <1>3, <1>5

(***************************************************************************)
(* LateProofsFail holds for every interval, leeway and width, however the  *)
(* clock is driven and the reference time is moved.                        *)
(***************************************************************************)
THEOREM LateFailAlways == Spec => []LateProofsFail
BY LateFail, Invariance, PTL

\* The quotient is the number of times that the interval fits.
LEMMA Quotient ==
    ASSUME NEW n \in Nat, NEW d \in Nat \ {0}
    PROVE  /\ n \div d \in Nat
           /\ d * (n \div d) <= n /\ n < d * (n \div d) + d
<1>1. PICK q \in Int, r \in Int : q = n \div d /\ r = n % d
    OBVIOUS
<1>2. r \in 0 .. d - 1 /\ r = n - d * q
    BY <1>1
<1>3. q >= 0
    <2> SUFFICES ASSUME q <= -1 PROVE FALSE
        OBVIOUS
    <2>1. d * q <= -d
        OBVIOUS
    <2> QED BY <1>2, <2>1
<1>4. d * q <= n /\ n < d * q + d
    BY <1>2
<1> QED
    BY <1>1, <1>3, <1>4

\* Only one number is the quotient.
LEMMA QuotientIs ==
    ASSUME NEW n \in Nat, NEW d \in Nat \ {0}, NEW q \in Nat,
           d * q <= n, n < d * q + d
    PROVE  n \div d = q
<1>1. PICK p \in Nat : p = n \div d /\ d * p <= n /\ n < d * p + d
    BY Quotient
<1>2. ~ (p < q)
    <2> SUFFICES ASSUME p + 1 <= q PROVE FALSE
        OBVIOUS
    <2>1. d * (p + 1) <= d * q /\ d * (p + 1) = d * p + d
        OBVIOUS
    <2> QED BY <1>1, <2>1
<1>3. ~ (q < p)
    <2> SUFFICES ASSUME q + 1 <= p PROVE FALSE
        OBVIOUS
    <2>1. d * (q + 1) <= d * p /\ d * (q + 1) = d * q + d
        OBVIOUS
    <2> QED BY <1>1, <2>1
<1> QED
    BY <1>1, <1>2, <1>3

\* From the reference time on nothing wraps.
LEMMA NoWrap ==
    ASSUME NEW n \in 0 .. MaxTime
    PROVE  n % 2 ^ Width = n
<1>1. IsFiniteSet(1 .. Width) /\ Cardinality(1 .. Width) = Width
    BY FS_Interval, SpanAssumption
<1>2. Cardinality(SUBSET (1 .. Width)) \in Nat
      /\ Cardinality(SUBSET (1 .. Width)) = 2 ^ Width
    BY <1>1, FS_SUBSET, FS_CardinalityType
<1>3. PICK w \in Nat : w = 2 ^ Width
    BY <1>2
<1>4. n < w
    BY <1>3, SpanAssumption, KeysBounds
<1>5. PICK q \in Int : q = n \div w /\ n % w = n - w * q /\ n % w \in 0 .. w - 1
    BY <1>4
<1>6. q = 0
    BY <1>4, Quotient, QuotientIs, <1>5
<1> QED
    BY <1>3, <1>5, <1>6

LEMMA FreshVerify == IInv => FreshProofsVerify
<1> SUFFICES ASSUME IInv, NEW p \in proofs,
                    Says(p).token.tok.key.load = load,
                    Says(p).token.reference = ephemeralTime,
                    ephemeralTime <= Says(p).token.at,
                    Says(p).token.at <= time,
                    time <= Says(p).token.at + EphemeralInterval,
                    Signed(Decoded(p), publicKey),
                    time < Says(p).expires + Leeway
             PROVE  Verifies(p, time)
    BY DEF FreshProofsVerify
<1>1. PICK d \in Nat \ {0} : d = EphemeralInterval
    BY IntervalAssumption
<1>2. PICK l \in Nat, n \in Nat, at \in 0 .. MaxTime, r \in 0 .. MaxTime :
          Says(p).token = PoolToken(l, n, at, r)
    BY ProofOverToken DEF IInv
<1>3. PICK tok : tok = Says(p).token.tok
    OBVIOUS
<1>4. /\ Read(tok).expires = at + 2 * d /\ Read(tok).type = "proof_token"
      /\ tok.key = [load |-> l, index |-> Index(at, r)]
      /\ Says(p).token.at = at /\ Says(p).token.reference = r
    BY <1>1, <1>2, <1>3, TokenReadsBack
<1>5. /\ l = load /\ r = ephemeralTime
      /\ r <= at /\ at <= time /\ time <= at + d
      /\ time \in 0 .. MaxTime /\ time \in Nat /\ at \in Nat /\ r \in Nat
    BY <1>1, <1>3, <1>4, KeysBounds DEF IInv, KeysTypeOK
\* The intervals that had passed when it was handed out, and have passed now.
<1>6. PICK then \in Nat, now \in Nat :
          /\ then = (at - r) \div d /\ now = (time - r) \div d
          /\ d * then <= at - r /\ at - r < d * then + d
          /\ d * now <= time - r /\ time - r < d * now + d
    <2>1. at - r \in Nat /\ time - r \in Nat
        BY <1>5
    <2> QED BY <2>1, Quotient
<1>7. Index(at, r) = then /\ Passed(time) \div EphemeralInterval = now
    <2>1. at - r \in 0 .. MaxTime /\ time - r \in 0 .. MaxTime
        BY <1>5, KeysBounds
    <2>2. (at - r) % 2 ^ Width = at - r /\ (time - r) % 2 ^ Width = time - r
        BY <2>1, NoWrap
    <2> QED BY <1>1, <1>5, <1>6, <2>2 DEF Index, Passed
<1>8. now = then \/ now = then + 1
    <2>1. ~ (now < then)
        <3> SUFFICES ASSUME now + 1 <= then PROVE FALSE
            OBVIOUS
        <3>1. d * (now + 1) <= d * then /\ d * (now + 1) = d * now + d
            OBVIOUS
        <3>2. PICK x \in Int, y \in Int : x = d * now /\ y = d * then
            OBVIOUS
        <3> QED BY <1>5, <1>6, <3>1, <3>2
    <2>2. ~ (now > then + 1)
        <3> SUFFICES ASSUME now >= then + 2 PROVE FALSE
            OBVIOUS
        <3>1. d * (then + 2) <= d * now /\ d * (then + 2) = d * then + 2 * d
            OBVIOUS
        <3>2. PICK x \in Int, y \in Int : x = d * now /\ y = d * then
            OBVIOUS
        <3> QED BY <1>5, <1>6, <3>1, <3>2
    <2> QED BY <2>1, <2>2
\* Its key is that of the interval that runs, or of the one before.
<1>9. tok.key \in EphVeriKeys(time)
    <2>1. CASE now = then
        <3>1. EphemeralKey(time - 0 * EphemeralInterval) = tok.key
            BY <1>1, <1>4, <1>5, <1>7, <2>1 DEF EphemeralKey
        <3>2. 0 < Passed(time) \div EphemeralInterval + 1
            BY <1>7
        <3> QED BY <3>1, <3>2 DEF EphVeriKeys
    <2>2. CASE now = then + 1
        <3>1. PICK y \in Nat : y = d * then /\ d * now = y + d
            BY <2>2
        <3>2. y + d <= time - r /\ time - r < (y + d) + d
            BY <1>6, <3>1
        <3>3. PICK m \in Nat : m = time - d - r /\ m \in 0 .. MaxTime
            <4>1. time - d - r >= 0 /\ time - d - r <= MaxTime
                BY <1>5, <3>2, KeysBounds
            <4> QED BY <1>5, <4>1, KeysBounds
        <3>4. y <= m /\ m < y + d
            BY <1>5, <3>2, <3>3
        <3>5. m \div d = then
            BY <3>1, <3>4, QuotientIs
        <3>6. Passed(time - 1 * EphemeralInterval) = m
            <4>1. (time - 1 * EphemeralInterval) - ephemeralTime = m
                BY <1>1, <1>5, <3>3
            <4> QED BY <3>3, <4>1, NoWrap DEF Passed
        <3>7. EphemeralKey(time - 1 * EphemeralInterval) = tok.key
            BY <1>1, <1>4, <1>5, <1>7, <3>5, <3>6 DEF EphemeralKey
        <3>8. 1 < Passed(time) \div EphemeralInterval + 1
            BY <1>7, <2>2
        <3> QED BY <3>7, <3>8 DEF EphVeriKeys
    <2> QED BY <1>8, <2>1, <2>2
<1>10. TokenVerifies(tok, time)
    <2>1. time < at + 2 * d + Leeway
        BY <1>5, LeewayAssumption
    <2> QED BY <1>4, <1>9, <2>1
            DEF TokenVerifies, Opens, VerifyState, Unexpired
<1> QED
    BY <1>3, <1>10 DEF Verifies, ProofVerifies, Says, Unexpired

(***************************************************************************)
(* FreshProofsVerify holds for every interval and all keys and times a     *)
(* proof falls between: its key is one of the two that are derived.        *)
(***************************************************************************)
THEOREM FreshVerifyAlways == Spec => []FreshProofsVerify
BY FreshVerify, Invariance, PTL

-----------------------------------------------------------------------------
(* The threads of the process, for every set of applications, every        *)
(* capacity and all bounds: files are removed last, and only those of      *)
(* deleted applications.                                                   *)

\* How far the shutdown is: the handler gets past its second message only
\* after main sent it, which main does after it joined a governor that ended
\* well.
StopsInOrder ==
    /\ main \in {"subscribe", "load", "serve", "drain", "stop"} => stops = 0
    /\ main \in {"join", "last"} => stops = 1
    /\ main \in {"last", "return", "returned"} => governor = "done"
    /\ main \in {"return", "returned"} => stops = 2
    /\ main = "panicked" => stops = 1
    /\ handler \in {"removing", "finished"} => stops = 2
    /\ main \in {"subscribe", "load", "serve", "drain", "stop", "join", "last",
                 "return", "returned", "panicked"}

\* Files go only when all messages are sent, and only files in the list,
\* which holds deleted applications.
FilesGoLast ==
    /\ \A i \in DOMAIN toDelete : toDelete[i] \in inactive
    /\ apps \subseteq files \/ stops = 2
    /\ apps \ files \subseteq inactive
    /\ toDelete \in Seq(Apps)
    /\ removing \in Nat

ServerIInv == StopsInOrder /\ FilesGoLast

\* The process starts with nothing loaded and nothing sent.
LEMMA InitServer == ServerInit => ServerIInv
BY DEF ServerInit, ServerIInv, StopsInOrder, FilesGoLast

\* A step of main changes where it is and what it has sent.
LEMMA MainIInv == ServerIInv /\ Main => ServerIInv'
<1> SUFFICES ASSUME ServerIInv, Main PROVE ServerIInv'
    OBVIOUS
<1> USE DEF ServerIInv, StopsInOrder, FilesGoLast, governorVars, handlerVars
<1>1. CASE Subscribe BY <1>1 DEF Subscribe
<1>2. CASE BorrowState BY <1>2 DEF BorrowState
<1>3. CASE NewState BY <1>3 DEF NewState
<1>4. CASE Drained BY <1>4 DEF Drained
<1>5. CASE Break BY <1>5 DEF Break
<1>6. CASE Stop BY <1>6 DEF Stop
<1>7. CASE JoinGovernor BY <1>7 DEF JoinGovernor
<1>8. CASE SendLast BY <1>8 DEF SendLast
<1>9. CASE ReturnMain BY <1>9 DEF ReturnMain
<1> QED
    BY <1>1, <1>2, <1>3, <1>4, <1>5, <1>6, <1>7, <1>8, <1>9 DEF Main

\* As long as the governor serves, main has not sent its second message.
LEMMA ServingBeforeLast == ServerIInv /\ Serving => stops # 2
BY DEF ServerIInv, StopsInOrder, Serving, Ended

\* A step of the governor: a new application has its file, and an application
\* is marked before its file is listed.
LEMMA GovernorIInv == ServerIInv /\ Governor => ServerIInv'
<1> SUFFICES ASSUME ServerIInv, Governor PROVE ServerIInv'
    OBVIOUS
<1>1. CASE Restart
    BY <1>1 DEF Restart, ServerIInv, StopsInOrder, FilesGoLast, mainVars, governorVars,
       handlerVars
<1>2. ASSUME NEW a \in Apps, Load(a) PROVE ServerIInv'
    <2>1. stops # 2
        BY <1>2, ServingBeforeLast DEF Load
    <2>2. apps' \subseteq files' /\ main \notin {"last", "return", "returned"}
        BY <1>2, <2>1 DEF Load, Serving, ServerIInv, FilesGoLast, StopsInOrder
    <2> QED
        BY <1>2, <2>1, <2>2
           DEF Load, ServerIInv, StopsInOrder, FilesGoLast, mainVars, handlerVars
<1>3. ASSUME NEW a \in Apps, Delete(a) PROVE ServerIInv'
    <2>1. stops # 2 /\ governor = "running"
        BY <1>3, ServingBeforeLast DEF Delete, Serving
    <2>2. StopsInOrder'
        BY <1>3, <2>1 DEF Delete, ServerIInv, StopsInOrder, mainVars, handlerVars
    <2>3. toDelete' \in Seq(Apps) /\ \A i \in DOMAIN toDelete' : toDelete'[i] \in inactive'
        <3>1. CASE toDelete' = toDelete
            BY <1>3, <3>1 DEF Delete, ServerIInv, FilesGoLast
        <3>2. CASE toDelete' = Append(toDelete, a) /\ a \in inactive'
                   /\ inactive \subseteq inactive'
            BY <3>2 DEF ServerIInv, FilesGoLast
        <3> QED
            BY <1>3, <3>1, <3>2 DEF Delete
    <2>4. apps' \ files' \subseteq inactive' /\ apps' \subseteq files'
        BY <1>3, <2>1 DEF Delete, ServerIInv, FilesGoLast
    <2> QED
        BY <1>3, <2>2, <2>3, <2>4 DEF Delete, ServerIInv, FilesGoLast, handlerVars
<1>4. CASE GovernorStops \/ GovernorFails
    BY <1>4 DEF GovernorStops, GovernorFails, ServerIInv, StopsInOrder, FilesGoLast,
       mainVars, handlerVars
<1> QED
    BY <1>1, <1>2, <1>3, <1>4 DEF Governor

\* A step of the handler: it waits for what main sends, then removes what is
\* listed.
LEMMA HandlerIInv == ServerIInv /\ Handler => ServerIInv'
<1> SUFFICES ASSUME ServerIInv, Handler PROVE ServerIInv'
    OBVIOUS
<1>1. CASE SendExit
    BY <1>1 DEF SendExit, ServerIInv, StopsInOrder, FilesGoLast, governorVars
<1>2. CASE ReceiveFirst
    BY <1>2 DEF ReceiveFirst, ServerIInv, StopsInOrder, FilesGoLast, mainVars, governorVars
<1>3. CASE ReceiveSecond
    BY <1>3 DEF ReceiveSecond, ServerIInv, StopsInOrder, FilesGoLast, mainVars,
       governorVars, Ended
<1>4. CASE RemoveFile
    <2>1. removing + 1 \in DOMAIN toDelete
        BY <1>4 DEF RemoveFile, Reached, ServerIInv, FilesGoLast
    <2>2. stops = 2 /\ toDelete[removing + 1] \in inactive
        BY <1>4, <2>1 DEF RemoveFile, ServerIInv, StopsInOrder, FilesGoLast
    <2> QED
        BY <1>4, <2>2 DEF RemoveFile, ServerIInv, StopsInOrder, FilesGoLast, mainVars, governorVars
<1>5. CASE Finish
    BY <1>5 DEF Finish, ServerIInv, StopsInOrder, FilesGoLast, mainVars, governorVars
<1> QED
    BY <1>1, <1>2, <1>3, <1>4, <1>5 DEF Handler

\* Every step keeps the invariant.
LEMMA NextServer == ServerIInv /\ [ServerNext]_serverVars => ServerIInv'
<1> SUFFICES ASSUME ServerIInv, [ServerNext]_serverVars PROVE ServerIInv'
    OBVIOUS
<1>1. CASE PressControlC
    BY <1>1 DEF PressControlC, ServerIInv, StopsInOrder, FilesGoLast, mainVars,
       governorVars, handlerVars
<1>2. CASE UNCHANGED serverVars
    BY <1>2 DEF serverVars, ServerIInv, StopsInOrder, FilesGoLast, mainVars, governorVars,
       handlerVars
<1> QED
    BY <1>1, <1>2, MainIInv, GovernorIInv, HandlerIInv DEF ServerNext

\* The invariant holds in every reachable state.
LEMMA ServerInvariance == ServerSpec => []ServerIInv
<1> QED
    BY InitServer, NextServer, PTL DEF ServerSpec

\* No file is removed while the server loop or the governor may use it.
THEOREM FilesInUseAlways == ServerSpec => []FilesInUseStay
<1>1. ServerIInv => FilesInUseStay
    BY DEF ServerIInv, StopsInOrder, FilesGoLast, FilesInUseStay, Looping
<1> QED
    BY <1>1, ServerInvariance, PTL

\* No file is removed whose application was not deleted.
THEOREM OnlyDeletedAlways == ServerSpec => []OnlyDeletedRemoved
<1>1. ServerIInv => OnlyDeletedRemoved
    BY DEF ServerIInv, FilesGoLast, OnlyDeletedRemoved
<1> QED
    BY <1>1, ServerInvariance, PTL

-----------------------------------------------------------------------------
\* What the handler has removed stays away: it removes in the order of the
\* list, after the governor stopped, when nobody loads an application.
PrefixRemoved ==
    /\ removing # 0 => stops = 2
    /\ \A i \in 1 .. removing : toDelete[i] \notin files
    /\ removing <= Len(toDelete)
    /\ handler = "finished" => removing + 1 \notin Reached

RemovedIInv == ServerIInv /\ PrefixRemoved

\* Nothing has been removed at the start.
LEMMA InitRemoved == ServerInit => PrefixRemoved
BY DEF ServerInit, PrefixRemoved, Reached

\* As long as the governor serves, nothing has been removed.
LEMMA ServingRemovesNothing ==
    RemovedIInv /\ Serving => removing = 0 /\ handler # "finished"
BY DEF RemovedIInv, ServerIInv, StopsInOrder, FilesGoLast, PrefixRemoved, Serving, Ended

\* Every step keeps the removed prefix.
LEMMA NextRemoved == RemovedIInv /\ [ServerNext]_serverVars => PrefixRemoved'
<1> SUFFICES ASSUME RemovedIInv, [ServerNext]_serverVars PROVE PrefixRemoved'
    OBVIOUS
<1>1. CASE Main
    BY <1>1 DEF Main, Subscribe, BorrowState, NewState, Drained, Break, Stop,
       JoinGovernor, SendLast, ReturnMain, RemovedIInv, ServerIInv, StopsInOrder,
       PrefixRemoved, Reached, governorVars, handlerVars
<1>2. CASE Governor
    <2>1. removing = 0 /\ handler # "finished" /\ UNCHANGED handlerVars
        BY <1>2, ServingRemovesNothing DEF Governor, Restart, GovernorStops,
           GovernorFails, Load, Delete
    <2>2. toDelete' \in Seq(Apps)
        BY <1>2, NextServer DEF RemovedIInv, ServerIInv, FilesGoLast, ServerNext
    <2> QED
        BY <2>1, <2>2 DEF PrefixRemoved, handlerVars
<1>3. CASE Handler
    <2>1. CASE SendExit
        BY <1>3, <2>1 DEF SendExit, RemovedIInv, PrefixRemoved, Reached,
           governorVars
    <2>2. CASE ReceiveFirst \/ ReceiveSecond \/ Finish
        BY <2>2 DEF ReceiveFirst, ReceiveSecond, Finish, RemovedIInv,
           PrefixRemoved, Reached, mainVars, governorVars
    <2>3. CASE RemoveFile
        <3>1. stops = 2 /\ toDelete \in Seq(Apps) /\ removing \in Nat
            BY <2>3 DEF RemoveFile, RemovedIInv, ServerIInv, StopsInOrder, FilesGoLast
        <3>2. removing + 1 \in 1 .. Len(toDelete)
            BY <2>3, <3>1 DEF RemoveFile, Reached
        <3> QED
            BY <2>3, <3>1, <3>2 DEF RemoveFile, RemovedIInv, PrefixRemoved,
               mainVars, governorVars
    <2> QED
        BY <1>3, <2>1, <2>2, <2>3 DEF Handler
<1>4. CASE PressControlC \/ UNCHANGED serverVars
    BY <1>4 DEF PressControlC, RemovedIInv, PrefixRemoved, Reached, serverVars,
       mainVars, governorVars, handlerVars
<1> QED
    BY <1>1, <1>2, <1>3, <1>4 DEF ServerNext

\* When the handler is done, the files of the deleted applications are gone,
\* but for the one in the last slot of the list.
THEOREM DeletedRemovedAlways == ServerSpec => []DeletedAreRemoved
<1>1. RemovedIInv => DeletedAreRemoved
    <2> SUFFICES ASSUME RemovedIInv, handler = "finished",
                        NEW i \in 1 .. Len(toDelete), i < DeleteSlots
                 PROVE toDelete[i] \notin files
        BY DEF DeletedAreRemoved
    <2>1. removing \in Nat /\ Len(toDelete) \in Nat /\ DeleteSlots \in Nat
        BY SlotsAssumption DEF RemovedIInv, ServerIInv, FilesGoLast
    <2>2. i <= removing
        BY <2>1 DEF RemovedIInv, PrefixRemoved, Reached
    <2> QED
        BY <2>1, <2>2 DEF RemovedIInv, PrefixRemoved
<1>2. RemovedIInv /\ [ServerNext]_serverVars => RemovedIInv'
    BY NextServer, NextRemoved DEF RemovedIInv
<1>3. ServerInit => RemovedIInv
    BY InitServer, InitRemoved DEF RemovedIInv
<1> QED
    BY <1>1, <1>2, <1>3, PTL DEF ServerSpec

-----------------------------------------------------------------------------
\* A non-empty set of naturals has a least element.
LEMMA LeastId ==
    ASSUME NEW T \in SUBSET Nat, T # {}
    PROVE  \E m \in T : \A y \in T : m <= y
<1> DEFINE R == OpToRel(<, Nat)
<1>1. PICK m \in T : \A y \in T : ~ (<<y, m>> \in R)
    <2>1. IsWellFoundedOn(R, Nat)
        BY NatLessThanWellFounded
    <2> HIDE DEF R
    <2> QED BY <2>1, WFMin
<1>2. ASSUME NEW y \in T PROVE m <= y
    <2>1. y < m => <<y, m>> \in R
        BY DEF OpToRel
    <2> HIDE DEF R
    <2> QED BY <1>1, <2>1
<1> QED
    BY <1>2

\* Induction up to n: what holds of 0, and of i + 1 if of i, holds up to n.
LEMMA UpTo ==
    ASSUME NEW n \in Nat, NEW T,
           0 \in T, \A i \in 1 .. n : i - 1 \in T => i \in T
    PROVE  \A i \in 0 .. n : i \in T
<1> DEFINE Not == {i \in 0 .. n : i \notin T}
<1> SUFFICES ASSUME Not # {} PROVE FALSE
    OBVIOUS
<1>1. Not \in SUBSET Nat
    OBVIOUS
<1>2. PICK m \in Not : \A y \in Not : m <= y
    <2> HIDE DEF Not
    <2> QED BY <1>1, LeastId
<1>3. m # 0 /\ m \in 1 .. n /\ m - 1 \in 0 .. n
    BY <1>2
<1>4. m - 1 \notin Not
    BY <1>2, <1>3
<1> QED
    BY <1>2, <1>3, <1>4

\* The same for all numbers.
LEMMA Naturals0 ==
    ASSUME NEW T, 0 \in T, \A i \in Nat \ {0} : i - 1 \in T => i \in T
    PROVE  \A i \in Nat : i \in T
<1> SUFFICES ASSUME NEW n \in Nat PROVE n \in T
    OBVIOUS
<1>1. \A i \in 1 .. n : i - 1 \in T => i \in T
    OBVIOUS
<1>2. \A i \in 0 .. n : i \in T
    BY <1>1, UpTo
<1> QED BY <1>2

\* A finite set of naturals is bounded.
LEMMA FiniteSetBounded ==
    \A S \in SUBSET Nat : IsFiniteSet(S) => \E N \in Nat : \A x \in S : x <= N
<1> DEFINE T == {n \in Nat : \A S \in SUBSET Nat :
                     IsFiniteSet(S) /\ Cardinality(S) = n =>
                         \E N \in Nat : \A x \in S : x <= N}
<1>1. 0 \in T
    BY FS_EmptySet
<1>2. ASSUME NEW n \in Nat \ {0}, n - 1 \in T PROVE n \in T
    <2> SUFFICES ASSUME NEW S \in SUBSET Nat, IsFiniteSet(S), Cardinality(S) = n
                 PROVE  \E N \in Nat : \A x \in S : x <= N
        OBVIOUS
    <2>1. S # {}
        BY FS_EmptySet
    <2>2. PICK y \in S : TRUE
        BY <2>1
    <2>3. /\ S \ {y} \in SUBSET Nat /\ IsFiniteSet(S \ {y})
          /\ Cardinality(S \ {y}) = n - 1
        BY FS_RemoveElement
    <2>4. PICK N \in Nat : \A x \in S \ {y} : x <= N
        BY <1>2, <2>3
    <2>5. CASE y <= N
        BY <2>4, <2>5
    <2>6. CASE ~ (y <= N)
        <3>1. \A x \in S : x <= y
            BY <2>4, <2>6
        <3> QED BY <3>1
    <2> QED BY <2>5, <2>6
<1> QED
    <2> HIDE DEF T
    <2>1. \A n \in Nat : n \in T
        BY <1>1, <1>2, Naturals0
    <2>2. \A S \in SUBSET Nat : IsFiniteSet(S) => Cardinality(S) \in Nat
        BY FS_CardinalityType
    <2> QED BY <2>1, <2>2 DEF T

\* A set of naturals up to n has a greatest element.
LEMMA GreatestId ==
    ASSUME NEW n \in Nat, NEW s \in SUBSET Nat, s # {}, \A x \in s : x <= n
    PROVE  \E m \in s : \A x \in s : x <= m
<1> DEFINE Over == {n - x : x \in s}
<1>1. Over \in SUBSET Nat /\ Over # {}
    <2>1. PICK x \in s : TRUE
        OBVIOUS
    <2>2. n - x \in Over
        OBVIOUS
    <2>3. \A y \in s : n - y \in Nat
        OBVIOUS
    <2>4. \A y \in Over : y \in Nat
        BY <2>3
    <2> HIDE DEF Over
    <2> QED BY <2>2, <2>4
<1>2. PICK o \in Over : \A y \in Over : o <= y
    <2> HIDE DEF Over
    <2> QED BY <1>1, LeastId
<1>3. PICK x \in s : o = n - x
    BY <1>2
<1>4. \A y \in s : n - y \in Over
    OBVIOUS
<1>5. \A y \in s : y <= x
    <2> HIDE DEF Over
    <2> QED BY <1>2, <1>3, <1>4
<1> QED BY <1>5

LEMMA MaxIs ==
    ASSUME NEW s \in SUBSET Nat, NEW m \in s, \A x \in s : x <= m
    PROVE  Max(s) = m
<1>1. m \in s /\ \A x \in s : m >= x
    OBVIOUS
<1>2. \A y \in s : (\A x \in s : y >= x) => y = m
    BY <1>1
<1> QED BY <1>1, <1>2 DEF Max

\* What is folded last.
LEMMA MaxUpTo ==
    /\ \A n \in Nat : \A s \in SUBSET (1 .. n) : s # {} => Max(s) \in s
    /\ \A i \in Nat \ {0} : Max(1 .. i) = i /\ (1 .. i) \ {i} = 1 .. (i - 1)
<1>1. ASSUME NEW n \in Nat, NEW s \in SUBSET (1 .. n), s # {}
      PROVE  Max(s) \in s
    <2>1. s \in SUBSET Nat /\ \A x \in s : x <= n
        OBVIOUS
    <2>2. PICK m \in s : \A x \in s : x <= m
        BY <1>1, <2>1, GreatestId
    <2>3. Max(s) = m
        BY <2>1, <2>2, MaxIs
    <2> QED BY <2>3
<1>2. ASSUME NEW i \in Nat \ {0}
      PROVE  Max(1 .. i) = i /\ (1 .. i) \ {i} = 1 .. (i - 1)
    <2>1. 1 .. i \in SUBSET Nat /\ i \in 1 .. i /\ \A x \in 1 .. i : x <= i
        OBVIOUS
    <2>2. Max(1 .. i) = i
        BY <2>1, MaxIs
    <2>3. (1 .. i) \ {i} = 1 .. (i - 1)
        OBVIOUS
    <2> QED BY <2>2, <2>3
<1> QED BY <1>1, <1>2

\* The function that a fold of a sequence of n is defined by is there.
HasFold(n, S, base, turn) ==
    \E g \in [SUBSET (1 .. n) -> S] :
        \A s \in SUBSET (1 .. n) :
            g[s] = IF s = {} THEN base ELSE turn[Max(s)][g[s \ {Max(s)}]]

LEMMA FoldExists ==
    ASSUME NEW n \in Nat, NEW S, NEW base \in S, NEW turn \in [1 .. n -> [S -> S]]
    PROVE  HasFold(n, S, base, turn)
<1> DEFINE Is(k, g) == \A s \in SUBSET (1 .. k) :
                           g[s] = IF s = {} THEN base
                                  ELSE turn[Max(s)][g[s \ {Max(s)}]]
           T == {k \in 0 .. n : \E g \in [SUBSET (1 .. k) -> S] : Is(k, g)}
<1>1. 0 \in T
    <2> DEFINE g == [s \in SUBSET (1 .. 0) |-> base]
    <2>1. \A s \in SUBSET (1 .. 0) : s = {}
        OBVIOUS
    <2>2. g \in [SUBSET (1 .. 0) -> S] /\ Is(0, g)
        BY <2>1
    <2>3. \E f \in [SUBSET (1 .. 0) -> S] : Is(0, f)
        <3> HIDE DEF g, Is
        <3> QED BY <2>2
    <2>4. 0 \in 0 .. n
        OBVIOUS
    <2> HIDE DEF Is
    <2> QED BY <2>3, <2>4, Zenon
<1>2. ASSUME NEW k \in 1 .. n, k - 1 \in T PROVE k \in T
    <2>1. PICK g \in [SUBSET (1 .. k - 1) -> S] : Is(k - 1, g)
        BY <1>2
    <2> DEFINE h == [s \in SUBSET (1 .. k) |->
                        IF k \in s THEN turn[k][g[s \ {k}]] ELSE g[s]]
    <2>2. ASSUME NEW s \in SUBSET (1 .. k), k \in s
          PROVE  /\ s \ {k} \in SUBSET (1 .. k - 1) /\ s \ {k} \in SUBSET (1 .. k)
                 /\ Max(s) = k
                 /\ h[s \ {k}] = g[s \ {k}]
                 /\ h[s] = turn[k][g[s \ {k}]] /\ h[s] \in S
        <3>1. s \ {k} \in SUBSET (1 .. k - 1) /\ s \ {k} \in SUBSET (1 .. k)
            OBVIOUS
        <3>2. Max(s) = k
            <4>1. s \in SUBSET Nat /\ \A x \in s : x <= k
                OBVIOUS
            <4> QED BY <2>2, <4>1, MaxIs
        <3>3. g[s \ {k}] \in S /\ turn[k] \in [S -> S]
            BY <3>1
        <3> QED BY <2>2, <3>1, <3>2, <3>3
    <2>3. ASSUME NEW s \in SUBSET (1 .. k), k \notin s
          PROVE  /\ s \in SUBSET (1 .. k - 1) /\ h[s] = g[s] /\ h[s] \in S
                 /\ s # {} => /\ s \ {Max(s)} \in SUBSET (1 .. k - 1)
                              /\ s \ {Max(s)} \in SUBSET (1 .. k)
                              /\ h[s \ {Max(s)}] = g[s \ {Max(s)}]
        <3>1. s \in SUBSET (1 .. k - 1)
            BY <2>3
        <3>2. \A m : s \ {m} \in SUBSET (1 .. k - 1) /\ s \ {m} \in SUBSET (1 .. k) /\ k \notin s \ {m}
            BY <2>3, <3>1
        <3> QED BY <2>3, <3>1, <3>2
    <2>4. h \in [SUBSET (1 .. k) -> S]
        BY <2>2, <2>3
    <2>5. Is(k, h)
        <3> SUFFICES ASSUME NEW s \in SUBSET (1 .. k)
                     PROVE  h[s] = IF s = {} THEN base
                                   ELSE turn[Max(s)][h[s \ {Max(s)}]]
            OBVIOUS
        <3> HIDE DEF h
        <3>1. CASE k \in s
            BY <2>2, <3>1
        <3>2. CASE k \notin s
            BY <2>1, <2>3, <3>2
        <3> QED BY <3>1, <3>2
    <2> HIDE DEF h, Is
    <2> QED BY <2>4, <2>5
<1>3. n \in T
    <2> HIDE DEF T
    <2>1. \A i \in 0 .. n : i \in T
        BY <1>1, <1>2, UpTo
    <2> QED BY <2>1
<1> QED
    BY <1>3 DEF HasFold
-----------------------------------------------------------------------------
\* Rows are all of the table, each once, in order.
LEMMA RowsExist ==
    \A n \in Nat : \A S \in SUBSET Nat :
        IsFiniteSet(S) /\ Cardinality(S) = n =>
            \E rows \in [1 .. n -> S] :
                /\ \A i, j \in 1 .. n : i < j => rows[i] < rows[j]
                /\ \A x \in S : \E i \in 1 .. n : rows[i] = x
<1> DEFINE Is(rows, n, S) ==
               /\ \A i, j \in 1 .. n : i < j => rows[i] < rows[j]
               /\ \A x \in S : \E i \in 1 .. n : rows[i] = x
           T == {n \in Nat : \A S \in SUBSET Nat :
                     IsFiniteSet(S) /\ Cardinality(S) = n =>
                         \E rows \in [1 .. n -> S] : Is(rows, n, S)}
<1>1. 0 \in T
    <2> SUFFICES ASSUME NEW S \in SUBSET Nat, IsFiniteSet(S), Cardinality(S) = 0
                 PROVE  \E rows \in [1 .. 0 -> S] : Is(rows, 0, S)
        OBVIOUS
    <2>1. S = {}
        BY FS_EmptySet
    <2> DEFINE none == [i \in 1 .. 0 |-> 0]
    <2>2. none \in [1 .. 0 -> S] /\ Is(none, 0, S)
        BY <2>1
    <2> HIDE DEF none, Is
    <2> QED BY <2>2
<1>2. ASSUME NEW n \in Nat \ {0}, n - 1 \in T PROVE n \in T
    <2> SUFFICES ASSUME NEW S \in SUBSET Nat, IsFiniteSet(S), Cardinality(S) = n
                 PROVE  \E rows \in [1 .. n -> S] : Is(rows, n, S)
        OBVIOUS
    <2>1. S # {}
        BY FS_EmptySet
    <2>2. PICK last \in S : \A x \in S : x <= last
        <3>1. PICK N \in Nat : \A x \in S : x <= N
            BY FiniteSetBounded
        <3> QED BY <2>1, <3>1, GreatestId
    <2> DEFINE R == S \ {last}
    <2>3. R \in SUBSET Nat /\ IsFiniteSet(R) /\ Cardinality(R) = n - 1
        BY FS_RemoveElement
    <2>4. PICK front \in [1 .. n - 1 -> R] : Is(front, n - 1, R)
        <3> HIDE DEF R, Is
        <3> QED BY <1>2, <2>3
    <2> DEFINE rows == [i \in 1 .. n |-> IF i = n THEN last ELSE front[i]]
    <2>5. \A i \in 1 .. n - 1 : rows[i] = front[i] /\ front[i] \in R /\ front[i] < last
        <3>1. \A x \in R : x < last
            BY <2>2
        <3>2. ASSUME NEW i \in 1 .. n - 1
              PROVE  rows[i] = front[i] /\ front[i] \in R
            <4>1. i \in 1 .. n /\ i # n
                OBVIOUS
            <4>2. front[i] \in R
                <5> HIDE DEF R
                <5> QED BY <2>4
            <4> QED BY <4>1, <4>2
        <3> HIDE DEF rows, R
        <3> QED BY <3>1, <3>2
    <2>6. rows[n] = last /\ n \in 1 .. n
        OBVIOUS
    <2>7. \A i \in 1 .. n : i = n \/ i \in 1 .. n - 1
        OBVIOUS
    <2>8. rows \in [1 .. n -> S]
        BY <2>5, <2>6, <2>7
    <2> HIDE DEF rows
    <2>9. \A i, j \in 1 .. n : i < j => rows[i] < rows[j]
        BY <2>4, <2>5, <2>6, <2>7
    <2>10. \A x \in S : \E i \in 1 .. n : rows[i] = x
        <3> SUFFICES ASSUME NEW x \in S PROVE \E i \in 1 .. n : rows[i] = x
            OBVIOUS
        <3>1. CASE x = last
            BY <2>6, <3>1
        <3>2. CASE x # last
            <4>1. PICK i \in 1 .. n - 1 : front[i] = x
                BY <2>4, <3>2
            <4> QED BY <2>5, <4>1
        <3> QED BY <3>1, <3>2
    <2> QED BY <2>8, <2>9, <2>10
<1> QED
    <2> HIDE DEF T
    <2>1. \A n \in Nat : n \in T
        BY <1>1, <1>2, Naturals0

    <2> QED BY <2>1 DEF T

LEMMA RowsAre ==
    ASSUME NEW S \in SUBSET Nat, IsFiniteSet(S)
    PROVE  /\ Cardinality(S) \in Nat
           /\ Rows(S) \in [1 .. Cardinality(S) -> S]
           /\ Rows(S) \in Seq(Nat) /\ Len(Rows(S)) = Cardinality(S)
           /\ DOMAIN Rows(S) = 1 .. Len(Rows(S))
           /\ \A i, j \in 1 .. Len(Rows(S)) : i < j => Rows(S)[i] < Rows(S)[j]
           /\ \A i \in 1 .. Len(Rows(S)) : Rows(S)[i] \in S
           /\ \A x \in S : \E i \in 1 .. Len(Rows(S)) : Rows(S)[i] = x
           /\ ToSet(Rows(S)) = S
<1> DEFINE n == Cardinality(S)
           r == Rows(S)
<1>1. n \in Nat
    BY FS_CardinalityType
<1>2. \E rows \in [1 .. n -> S] :
          \A i, j \in DOMAIN rows : i < j => rows[i] < rows[j]
    <2>1. PICK rows \in [1 .. n -> S] :
              \A i, j \in 1 .. n : i < j => rows[i] < rows[j]
        <3> HIDE DEF n
        <3> QED BY <1>1, RowsExist DEF n
    <2> QED BY <2>1
<1>3. /\ r \in [1 .. n -> S]
      /\ \A i, j \in DOMAIN r : i < j => r[i] < r[j]
    <2> HIDE DEF n
    <2> QED BY <1>2 DEF Rows, n
<1> HIDE DEF n, r
<1>4. r \in Seq(Nat) /\ Len(r) = n /\ DOMAIN r = 1 .. n
    <2>1. r \in [1 .. n -> Nat]
        BY <1>3
    <2> QED BY <1>1, <2>1
<1>5. \A x \in S : \E i \in 1 .. n : r[i] = x
    <2>1. \A i, j \in 1 .. n : r[i] = r[j] => i = j
        <3>1. \A i, j \in 1 .. n : i < j \/ j < i \/ i = j
            BY <1>1
        <3>2. \A i \in 1 .. n : r[i] \in Nat
            BY <1>3
        <3> QED BY <1>3, <1>4, <3>1, <3>2
    <2>2. r \in Injection(1 .. n, S)
        BY <1>3, <1>4, <2>1 DEF Injection, IsInjective
    <2>3. Cardinality(1 .. n) = Cardinality(S) /\ IsFiniteSet(1 .. n)
        BY <1>1, FS_Interval DEF n
    <2>4. r \in Surjection(1 .. n, S)
        BY <2>2, <2>3, FS_Injection
    <2> QED BY <2>4 DEF Surjection
<1>6. ToSet(r) = S
    BY <1>3, <1>4, <1>5 DEF ToSet
<1> QED
    BY <1>1, <1>3, <1>4, <1>5, <1>6 DEF n, r

-----------------------------------------------------------------------------
\* What is stored was accepted.
TablesOK ==
    /\ users \subseteq Ids
    /\ DOMAIN claims = Ids
    /\ \A id \in Ids : \/ claims[id] = NoClaims
                       \/ /\ claims[id] \in ClaimsFor[id]
                          /\ AscendingClaims(claims[id])

LEMMA Tables == DirectorySpec => []TablesOK
<1>1. DirectoryInit => TablesOK
    BY DEF DirectoryInit, TablesOK
<1>2. TablesOK /\ [DirectoryNext]_directoryVars => TablesOK'
    BY DEF TablesOK, DirectoryNext, directoryVars, Register, SetClaims
<1> QED
    BY <1>1, <1>2, PTL DEF DirectorySpec

\* A set of users is finite.
LEMMA UsersFinite ==
    TablesOK => /\ users \in SUBSET Nat /\ IsFiniteSet(users)
                /\ Holders \in SUBSET Nat /\ IsFiniteSet(Holders)
                /\ Holders \subseteq Ids
                /\ \A S \in SUBSET Ids : S \in SUBSET Nat /\ IsFiniteSet(S)
<1>1. \A S \in SUBSET Ids : S \in SUBSET Nat /\ IsFiniteSet(S)
    BY IdsAssumption, FS_Subset
<1> QED
    BY <1>1 DEF TablesOK, Holders

\* The targets of a list, which are not a selection.
Inside(target) ==
    IF target.target = "all" THEN Ids ELSE Head(target.list)..Last(target.list)

LEMMA ListedRows ==
    ASSUME NEW ids \in SUBSET Ids, NEW target \in Queries,
           ValidAny({"read_users"}, target), target.target # "select",
           Inside(target) # {}
    PROVE  SelectRows(ids, target) =
               [sorted |-> TRUE, out |-> Rows(ids \cap Inside(target))]
<1>1. target \in [action : ActionTypes, target : Targets, list : Seq(Nat)]
    BY QueriesAssumption
<1>2. target.target \in {"range", "all"}
    BY <1>1 DEF Targets
<1>3. CASE target.target = "all"
    <2>1. ids \cap Inside(target) = ids
        BY <1>3 DEF Inside
    <2> QED BY <1>3, <2>1 DEF SelectRows, InReach
<1>4. CASE target.target = "range"
    <2>1. target.list \in Seq(Nat) /\ Len(target.list) = 2
        BY <1>1, <1>4 DEF ValidAny, AnyTarget
    <2>2. PICK lo \in Nat, hi \in Nat :
              lo = Head(target.list) /\ hi = Last(target.list)
        BY <2>1 DEF Last
    <2>3. Inside(target) = lo .. hi /\ ~ (lo > hi)
        BY <1>4, <2>2 DEF Inside
    <2>4. {id \in ids : lo <= id /\ id <= hi} = ids \cap (lo .. hi)
        <3>1. \A id \in ids : id \in Nat
            BY IdsAssumption
        <3> QED BY <3>1
    <2>5. InReach(ids, target) = Rows(ids \cap Inside(target))
        BY <1>4, <2>2, <2>3, <2>4 DEF InReach
    <2> QED BY <1>4, <2>2, <2>3, <2>5 DEF SelectRows
<1> QED
    BY <1>2, <1>3, <1>4

(***************************************************************************)
(* ListsMatchTables holds for all users, claims and queries: a list of     *)
(* everybody or of a range is complete, in order and with the right        *)
(* claims.                                                                 *)
(***************************************************************************)
THEOREM ListsMatchAlways == DirectorySpec => []ListsMatchTables
<1>1. ASSUME TablesOK PROVE ListsMatchTables
    <2> SUFFICES ASSUME NEW target \in Queries,
                        ValidAny({"read_users"}, target),
                        target.target # "select", Inside(target) # {}
                 PROVE  LET answer == GetUsers(target, TRUE, TRUE)
                        IN  /\ (answer.is = "Orphan")
                                  <=> ~ (Holders \cap Inside(target) \subseteq users)
                            /\ (answer.is = "UserList") =>
                                 answer.list =
                                   [i \in 1..Cardinality(users \cap Inside(target)) |->
                                      LET id == Rows(users \cap Inside(target))[i]
                                      IN  [user_id |-> id, password_file |-> id,
                                           claims |-> claims[id]]]
        BY DEF ListsMatchTables, Inside
    <2> DEFINE S == users \cap Inside(target)
               H == Holders \cap Inside(target)
               answer == GetUsers(target, TRUE, TRUE)
               list == [i \in DOMAIN Rows(S) |->
                           User(Rows(S)[i], Rows(S)[i] \in ToSet(Rows(H)), TRUE)]
    <2>1. users \in SUBSET Ids /\ Holders \in SUBSET Ids
        BY <1>1, UsersFinite DEF TablesOK
    <2>2. /\ SelectRows(users, target) = [sorted |-> TRUE, out |-> Rows(S)]
          /\ SelectRows(Holders, target) = [sorted |-> TRUE, out |-> Rows(H)]
        BY <2>1, ListedRows
    <2>3. S \in SUBSET Ids /\ H \in SUBSET Ids
        BY <2>1
    <2>4. S \in SUBSET Nat /\ IsFiniteSet(S) /\ H \in SUBSET Nat /\ IsFiniteSet(H)
        <3> HIDE DEF S, H
        <3> QED BY <1>1, <2>3, UsersFinite
    <2>5. /\ ToSet(Rows(S)) = S /\ ToSet(Rows(H)) = H
          /\ DOMAIN Rows(S) = 1 .. Cardinality(S)
          /\ \A i \in 1 .. Cardinality(S) : Rows(S)[i] \in S
        <3> HIDE DEF S, H
        <3> QED BY <2>4, RowsAre
    <2>6. answer = IF ~ (H \subseteq S) THEN Orphan ELSE UserList(list)
        <3> DEFINE selected == SelectRows(users, target)
                   held == SelectRows(Holders, target)
        <3>1. /\ selected.sorted /\ selected.out = Rows(S)
              /\ held.sorted /\ held.out = Rows(H)
            BY <2>2
        <3>2. answer = IF ~ ToSet(held.out) \subseteq ToSet(selected.out) THEN Orphan
                       ELSE UserList([i \in DOMAIN selected.out |->
                                User(selected.out[i],
                                     selected.out[i] \in ToSet(held.out), TRUE)])
            <4> HIDE DEF S, H
            <4> QED BY <3>1, Zenon DEF GetUsers
        <3> HIDE DEF S, H, selected, held
        <3> QED BY <2>5, <3>1, <3>2, Zenon
    <2>7. (H \subseteq S) <=> (H \subseteq users)
        OBVIOUS
    <2>8. \A i \in 1 .. Cardinality(S) :
              list[i] = [user_id |-> Rows(S)[i], password_file |-> Rows(S)[i],
                         claims |-> claims[Rows(S)[i]]]
        <3> SUFFICES ASSUME NEW i \in 1 .. Cardinality(S)
                     PROVE  list[i] = [user_id |-> Rows(S)[i],
                                       password_file |-> Rows(S)[i],
                                       claims |-> claims[Rows(S)[i]]]
            OBVIOUS
        <3>1. PICK id \in S : id = Rows(S)[i]
            BY <2>5
        <3>2. list[i] = User(id, id \in H, TRUE)
            BY <2>5, <3>1
        <3>3. id \in Ids /\ (id \notin H => claims[id] = NoClaims)
            BY <2>3 DEF Holders
        <3> QED BY <3>1, <3>2, <3>3 DEF User
    <2>9. list = [i \in 1 .. Cardinality(S) |->
                     [user_id |-> Rows(S)[i], password_file |-> Rows(S)[i],
                      claims |-> claims[Rows(S)[i]]]]
        <3> DEFINE shown == [i \in 1 .. Cardinality(S) |->
                                [user_id |-> Rows(S)[i], password_file |-> Rows(S)[i],
                                 claims |-> claims[Rows(S)[i]]]]
        <3>1. \A i \in 1 .. Cardinality(S) : list[i] = shown[i]
            BY <2>8
        <3>2. /\ DOMAIN list = 1 .. Cardinality(S) /\ DOMAIN shown = 1 .. Cardinality(S)
              /\ list = [i \in DOMAIN list |-> list[i]]
              /\ shown = [i \in DOMAIN shown |-> shown[i]]
            BY <2>5
        <3> HIDE DEF list, shown
        <3>3. list = shown
            BY <3>1, <3>2
        <3> QED BY <3>3 DEF shown
    <2>10. /\ Orphan.is = "Orphan" /\ UserList(list).is = "UserList"
           /\ UserList(list).list = list
        BY DEF Orphan, UserList
    <2>11. /\ (answer.is = "Orphan") <=> ~ (H \subseteq users)
           /\ (answer.is = "UserList") => answer.list = list
        <3> HIDE DEF list, S, H, answer
        <3>1. CASE H \subseteq S
            BY <2>6, <2>7, <2>10, <3>1
        <3>2. CASE ~ (H \subseteq S)
            BY <2>6, <2>7, <2>10, <3>2 DEF Orphan
        <3> QED BY <3>1, <3>2
    <2> HIDE DEF list
    <2> QED BY <2>9, <2>11
<1> QED
    BY <1>1, Tables, PTL

\* The states of the loop over the rows, and the state before the first row.
Scans == [sorted : BOOLEAN, next : Nat \ {0}, out : Seq(Nat)]
ScanStart == [sorted |-> TRUE, next |-> 1, out |-> <<>>]

LEMMA SelectOneType ==
    ASSUME NEW scan \in Scans, NEW row \in Nat, NEW list \in Seq(Nat)
    PROVE  SelectOne(scan, row, list) \in Scans
<1>1. Append(scan.out, row) \in Seq(Nat) /\ scan.next + 1 \in Nat \ {0}
    BY DEF Scans
<1> QED
    BY <1>1 DEF Scans, SelectOne

\* The fold of the rows, step by step.
LEMMA SelectSteps ==
    ASSUME NEW rows \in Seq(Nat), NEW list \in Seq(Nat)
    PROVE  \E h : /\ h[0] = ScanStart
                  /\ \A i \in 1 .. Len(rows) :
                         h[i] = SelectOne(h[i - 1], rows[i], list)
                  /\ h[Len(rows)] =
                         FoldLeft(LAMBDA s, row : SelectOne(s, row, list),
                                  ScanStart, rows)
<1> DEFINE n == Len(rows)
           turn == [k \in 1 .. n |-> [s \in Scans |-> SelectOne(s, rows[k], list)]]
           Step(g) == [s \in SUBSET (1 .. n) |->
                          IF s = {} THEN ScanStart
                          ELSE SelectOne(g[s \ {Max(s)}], rows[Max(s)], list)]
           iter == CHOOSE g : g = Step(g)
<1>1. n \in Nat /\ ScanStart \in Scans /\ DOMAIN rows = 1 .. n
    BY DEF Scans, ScanStart
<1>2. turn \in [1 .. n -> [Scans -> Scans]]
    BY SelectOneType
<1>3. \A s \in SUBSET (1 .. n) : s # {} => Max(s) \in 1 .. n
    <2> HIDE DEF n, turn, Step, iter
    <2> QED BY <1>1, MaxUpTo
<1>4. \E g : g = Step(g)
    <2> HIDE DEF turn
    <2>1. PICK g \in [SUBSET (1 .. n) -> Scans] :
              \A s \in SUBSET (1 .. n) :
                  g[s] = IF s = {} THEN ScanStart
                         ELSE turn[Max(s)][g[s \ {Max(s)}]]
        <3> HIDE DEF n, Step, iter
        <3>1. n \in Nat /\ ScanStart \in Scans
            BY <1>1
        <3>2. HasFold(n, Scans, ScanStart, turn)
            BY <3>1, <1>2, FoldExists
        <3> QED BY <3>2 DEF HasFold
    <2>2. ASSUME NEW s \in SUBSET (1 .. n), s # {}
          PROVE  g[s] = SelectOne(g[s \ {Max(s)}], rows[Max(s)], list)
        <3>1. Max(s) \in 1 .. n /\ s \ {Max(s)} \in SUBSET (1 .. n)
            BY <1>3, <2>2
        <3>2. g[s \ {Max(s)}] \in Scans
            BY <3>1
        <3> QED BY <2>1, <2>2, <3>1, <3>2 DEF turn
    <2>3. g = Step(g)
        BY <2>1, <2>2
    <2> HIDE DEF Step
    <2> QED BY <2>3
<1>5. iter = Step(iter)
    <2> HIDE DEF Step
    <2> QED BY <1>4
<1>6. FoldLeft(LAMBDA s, row : SelectOne(s, row, list), ScanStart, rows)
          = iter[1 .. n]
    BY <1>1 DEF FoldLeft, MapThenFoldSet
<1> DEFINE h == [i \in 0 .. n |-> iter[1 .. i]]
<1>7. h[0] = ScanStart
    <2> HIDE DEF iter
    <2>1. 1 .. 0 = {} /\ 0 \in 0 .. n /\ {} \in SUBSET (1 .. n)
        BY <1>1
    <2>2. iter[{}] = ScanStart
        BY <1>5, <2>1
    <2> QED BY <2>1, <2>2
<1>8. ASSUME NEW i \in 1 .. n
      PROVE  h[i] = SelectOne(h[i - 1], rows[i], list)
    <2> HIDE DEF iter
    <2> HIDE DEF n, h
    <2>1. /\ i \in 0 .. n /\ i - 1 \in 0 .. n
          /\ 1 .. i \in SUBSET (1 .. n) /\ 1 .. i # {}
          /\ i \in Nat \ {0}
        <3> HIDE DEF turn, Step, iter
        <3>1. n \in Nat
            BY <1>1
        <3>2. i \in Nat /\ 1 <= i /\ i <= n
            BY <3>1
        <3>3. 1 .. i \in SUBSET (1 .. n) /\ 1 .. i # {}
            <4>1. 1 \in 1 .. i /\ \A x \in 1 .. i : x \in 1 .. n
                BY <3>1, <3>2
            <4> QED BY <4>1
        <3> QED BY <3>1, <3>2, <3>3
    <2>2. Max(1 .. i) = i /\ (1 .. i) \ {i} = 1 .. (i - 1)
        BY <2>1, MaxUpTo
    <2>3. iter[1 .. i] = SelectOne(iter[1 .. (i - 1)], rows[i], list)
        BY <1>5, <2>1, <2>2
    <2> QED BY <2>1, <2>3 DEF h
<1>9. h[n] = iter[1 .. n]
    BY <1>1
<1> HIDE DEF h, iter
<1> QED BY <1>6, <1>7, <1>8, <1>9
-----------------------------------------------------------------------------
\* One row: what the loop has kept is a beginning of the list, in ascending
\* order, out of the rows it has read; and when the list ascends, the next id
\* was not among them.
Strict(list) == \A i, j \in 1 .. Len(list) : i < j => list[i] < list[j]

Kept(sorted, next, out, rows, i, list) ==
    /\ sorted \in BOOLEAN /\ next \in Nat \ {0} /\ out \in Seq(Nat)
    /\ next <= Len(list) + 1
    /\ Len(out) = next - 1
    /\ \A k \in 1 .. next - 1 : out[k] = list[k]
    /\ \A k \in 1 .. next - 1 : \E j \in 1 .. i : list[k] = rows[j]
    /\ \A k, l \in 1 .. next - 1 : k < l => list[k] < list[l]
    /\ Strict(list) =>
           /\ sorted
           /\ next <= Len(list) => \A j \in 1 .. i : rows[j] # list[next]

ScanOK(scan, rows, i, list) ==
    /\ scan \in Scans
    /\ Kept(scan.sorted, scan.next, scan.out, rows, i, list)

\* A row that is passed over, the list found out of order, a row that is kept.
LEMMA PassedRow ==
    ASSUME NEW rows \in Seq(Nat), NEW list \in Seq(Nat), NEW i \in 1 .. Len(rows),
           NEW sorted, NEW next, NEW out, Kept(sorted, next, out, rows, i - 1, list),
           Strict(list) => (next <= Len(list) => rows[i] # list[next])
    PROVE  Kept(sorted, next, out, rows, i, list)
<1>1. \A j \in 1 .. i : j = i \/ j \in 1 .. i - 1
    OBVIOUS
<1>2. \A j \in 1 .. i - 1 : j \in 1 .. i
    OBVIOUS
<1> QED BY <1>1, <1>2, Zenon DEF Kept

LEMMA UnorderedList ==
    ASSUME NEW rows \in Seq(Nat), NEW list \in Seq(Nat), NEW i \in 1 .. Len(rows),
           NEW sorted, NEW next, NEW out, Kept(sorted, next, out, rows, i - 1, list),
           next <= Len(list), next > 1, list[next - 1] > list[next]
    PROVE  Kept(FALSE, next, out, rows, i, list)
<1>1. \A j \in 1 .. i - 1 : j \in 1 .. i
    OBVIOUS
<1>2. next \in Nat \ {0}
    BY DEF Kept
<1>3. next - 1 \in 1 .. Len(list) /\ next \in 1 .. Len(list) /\ next - 1 < next
    BY <1>2
<1>4. list[next - 1] \in Nat /\ list[next] \in Nat
    BY <1>3, SMTT(30)
<1>5. ~ (list[next - 1] < list[next])
    BY <1>4, SMTT(30)
<1>6. ~ Strict(list)
    BY <1>3, <1>5 DEF Strict
<1> QED BY <1>1, <1>6, Zenon DEF Kept

LEMMA KeptRow ==
    ASSUME NEW rows \in Seq(Nat), Strict(rows),
           NEW list \in Seq(Nat), NEW i \in 1 .. Len(rows),
           NEW sorted, NEW next, NEW out, Kept(sorted, next, out, rows, i - 1, list),
           next <= Len(list), rows[i] = list[next]
    PROVE  Kept(sorted, next + 1, Append(out, rows[i]), rows, i, list)
<1> DEFINE more == Append(out, rows[i])
<1>1. /\ next \in Nat \ {0} /\ out \in Seq(Nat) /\ Len(out) = next - 1
      /\ sorted \in BOOLEAN
    BY DEF Kept
<1>2. /\ rows[i] \in Nat /\ next \in 1 .. Len(list) /\ i \in 1 .. i
    BY <1>1
<1>3. \A j \in 1 .. i : j = i \/ (j \in 1 .. i - 1 /\ rows[j] < rows[i])
    <2>1. \A j \in 1 .. i : j = i \/ (j \in 1 .. i - 1 /\ j \in 1 .. Len(rows) /\ j < i)
        OBVIOUS
    <2> QED BY <2>1 DEF Strict
<1>4. \A j \in 1 .. i - 1 : j \in 1 .. i
    OBVIOUS
<1>5. /\ more \in Seq(Nat) /\ Len(more) = next
      /\ \A k \in 1 .. next - 1 : more[k] = out[k]
      /\ more[next] = rows[i]
    BY <1>1, <1>2
<1>6. \A k \in 1 .. next : k = next \/ k \in 1 .. next - 1
    BY <1>1
<1> HIDE DEF more
<1>7. \A k \in 1 .. next : more[k] = list[k]
    BY <1>5, <1>6, Zenon DEF Kept
<1>8. \A k \in 1 .. next : \E j \in 1 .. i : list[k] = rows[j]
    <2>1. \A k \in 1 .. next - 1 : \E j \in 1 .. i - 1 : list[k] = rows[j]
        BY Zenon DEF Kept
    <2> QED BY <1>2, <1>4, <1>6, <2>1
<1>9. \A k \in 1 .. next - 1 : list[k] < list[next]
    <2> SUFFICES ASSUME NEW k \in 1 .. next - 1 PROVE list[k] < list[next]
        OBVIOUS
    <2>1. PICK j \in 1 .. i - 1 : list[k] = rows[j]
        BY Zenon DEF Kept
    <2>2. rows[j] < rows[i]
        BY <1>3, <1>4
    <2> QED BY <2>1, <2>2
<1>10. \A k, l \in 1 .. next : k < l => list[k] < list[l]
    <2> SUFFICES ASSUME NEW k \in 1 .. next, NEW l \in 1 .. next, k < l
                 PROVE  list[k] < list[l]
        OBVIOUS
    <2>1. k \in 1 .. next - 1
        BY <1>1
    <2>2. CASE l = next
        BY <1>9, <2>1, <2>2
    <2>3. CASE l # next
        <3>1. l \in 1 .. next - 1
            BY <1>6, <2>3
        <3> QED BY <2>1, <3>1, Zenon DEF Kept
    <2> QED BY <2>2, <2>3
<1>11. Strict(list) =>
           /\ sorted
           /\ next + 1 <= Len(list) => \A j \in 1 .. i : rows[j] # list[next + 1]
    <2>1. Strict(list) => sorted
        BY DEF Kept
    <2>2. ASSUME Strict(list), next + 1 <= Len(list), NEW j \in 1 .. i
          PROVE  rows[j] # list[next + 1]
        <3>1. next + 1 \in 1 .. Len(list) /\ next < next + 1
            BY <1>1, <2>2
        <3>2. list[next] < list[next + 1] /\ list[next + 1] \in Nat
            BY <1>2, <2>2, <3>1, SMTT(30) DEF Strict
        <3>3. rows[j] = rows[i] \/ rows[j] < rows[i]
            BY <1>3
        <3> QED BY <1>2, <3>2, <3>3, SMTT(30)
    <2> QED BY <2>1, <2>2
<1>12. /\ next + 1 \in Nat \ {0} /\ next + 1 <= Len(list) + 1
       /\ (next + 1) - 1 = next
    BY <1>1
<1>13. Kept(sorted, next + 1, more, rows, i, list)
    BY <1>1, <1>5, <1>7, <1>8, <1>10, <1>11, <1>12 DEF Kept
<1> QED BY <1>13 DEF more

LEMMA ScanStep ==
    ASSUME NEW rows \in Seq(Nat), Strict(rows),
           NEW list \in Seq(Nat), NEW i \in 1 .. Len(rows),
           NEW scan, ScanOK(scan, rows, i - 1, list)
    PROVE  ScanOK(SelectOne(scan, rows[i], list), rows, i, list)
<1> DEFINE after == SelectOne(scan, rows[i], list)
<1>1. PICK sorted \in BOOLEAN, next \in Nat \ {0}, out \in Seq(Nat) :
          scan = [sorted |-> sorted, next |-> next, out |-> out]
    BY DEF ScanOK, Scans
<1>2. /\ scan.sorted = sorted /\ scan.next = next /\ scan.out = out
      /\ scan \in Scans /\ Kept(sorted, next, out, rows, i - 1, list)
    BY <1>1 DEF ScanOK
<1>3. after \in Scans
    BY <1>2, SelectOneType
<1> SUFFICES Kept(after.sorted, after.next, after.out, rows, i, list)
    BY <1>3 DEF ScanOK
<1>4. CASE ~ sorted \/ next > Len(list)
    <2>1. after = scan
        BY <1>2, <1>4 DEF SelectOne
    <2>2. Strict(list) => next > Len(list)
        BY <1>2, <1>4 DEF Kept
    <2>3. Strict(list) => (next <= Len(list) => rows[i] # list[next])
        BY <2>2
    <2> HIDE DEF after
    <2> QED BY <1>2, <2>1, <2>3, PassedRow
<1>5. CASE sorted /\ next <= Len(list) /\ next > 1 /\ list[next - 1] > list[next]
    <2>1. after = [scan EXCEPT !.sorted = FALSE]
        BY <1>2, <1>5 DEF SelectOne
    <2>2. after.sorted = FALSE /\ after.next = next /\ after.out = out
        BY <1>1, <2>1
    <2> HIDE DEF after
    <2>3. next <= Len(list) /\ next > 1 /\ list[next - 1] > list[next]
        BY <1>5, Zenon
    <2>4. Kept(FALSE, next, out, rows, i, list)
        <3> HIDE DEF Kept
        <3> QED BY <1>2, <2>3, UnorderedList, Zenon
    <2> QED BY <2>2, <2>4, Zenon
<1>6. CASE /\ sorted /\ next <= Len(list)
           /\ ~ (next > 1 /\ list[next - 1] > list[next]) /\ rows[i] # list[next]
    <2>1. after = scan
        BY <1>2, <1>6 DEF SelectOne
    <2> HIDE DEF after
    <2> QED BY <1>2, <1>6, <2>1, PassedRow
<1>7. CASE /\ sorted /\ next <= Len(list)
           /\ ~ (next > 1 /\ list[next - 1] > list[next]) /\ rows[i] = list[next]
    <2>1. after = [scan EXCEPT !.next = next + 1, !.out = Append(out, rows[i])]
        <3>1. ~ (~ sorted \/ next > Len(list))
            BY <1>7
        <3> QED BY <1>2, <1>7, <3>1, Zenon DEF SelectOne
    <2>2. /\ after.sorted = sorted /\ after.next = next + 1
          /\ after.out = Append(out, rows[i])
        BY <1>1, <2>1
    <2> HIDE DEF after
    <2> QED BY <1>2, <1>7, <2>2, KeptRow
<1>8. next > Len(list) \/ next <= Len(list)
    OBVIOUS
<1> QED
    BY <1>4, <1>5, <1>6, <1>7, <1>8

LEMMA ScanEnds ==
    ASSUME NEW rows \in Seq(Nat), Strict(rows), NEW list \in Seq(Nat)
    PROVE  ScanOK(FoldLeft(LAMBDA s, row : SelectOne(s, row, list), ScanStart, rows),
                  rows, Len(rows), list)
<1>1. PICK h : /\ h[0] = ScanStart
               /\ \A i \in 1 .. Len(rows) : h[i] = SelectOne(h[i - 1], rows[i], list)
               /\ h[Len(rows)] =
                      FoldLeft(LAMBDA s, row : SelectOne(s, row, list),
                               ScanStart, rows)
    BY SelectSteps
<1> DEFINE T == {i \in 0 .. Len(rows) : ScanOK(h[i], rows, i, list)}
<1>2. 0 \in T
    <2>1. /\ ScanStart \in Scans /\ ScanStart.sorted = TRUE
          /\ ScanStart.next = 1 /\ ScanStart.out = <<>>
        BY DEF ScanStart, Scans
    <2>2. Kept(TRUE, 1, <<>>, rows, 0, list)
        BY DEF Kept
    <2>3. ScanOK(ScanStart, rows, 0, list)
        BY <2>1, <2>2 DEF ScanOK
    <2>4. 0 \in 0 .. Len(rows)
        OBVIOUS
    <2>5. ScanOK(h[0], rows, 0, list)
        BY <1>1, <2>3, Zenon
    <2> QED BY <2>4, <2>5, Zenon
<1>3. ASSUME NEW i \in 1 .. Len(rows), i - 1 \in T PROVE i \in T
    <2>1. ScanOK(h[i - 1], rows, i - 1, list)
        BY <1>3
    <2>2. ScanOK(SelectOne(h[i - 1], rows[i], list), rows, i, list)
        BY <2>1, ScanStep
    <2>3. h[i] = SelectOne(h[i - 1], rows[i], list)
        BY <1>1
    <2> QED BY <2>2, <2>3
<1>4. Len(rows) \in T
    <2> HIDE DEF T
    <2>1. Len(rows) \in Nat
        OBVIOUS
    <2>2. \A i \in 0 .. Len(rows) : i \in T
        BY <1>2, <1>3, <2>1, UpTo
    <2> QED BY <2>1, <2>2
<1> QED
    BY <1>1, <1>4

\* What select_users and select_claims answer to a selection.
SelectedOK(r, ids, list) ==
    /\ r.sorted \in BOOLEAN
    /\ r.out \in Seq(Nat)
    /\ Len(r.out) <= Len(list)
    /\ \A k \in 1 .. Len(r.out) : r.out[k] = list[k] /\ r.out[k] \in ids
    /\ Strict(r.out)
    /\ Strict(list) =>
           /\ r.sorted
           /\ Len(r.out) < Len(list) => list[Len(r.out) + 1] \notin ids

LEMMA Selected ==
    ASSUME NEW ids \in SUBSET Ids, NEW target \in Queries,
           ValidAny({"read_users"}, target), target.target = "select"
    PROVE  SelectedOK(SelectRows(ids, target), ids, target.list)
<1> DEFINE list == target.list
           r == SelectRows(ids, target)
<1>1. PICK first \in Nat, final \in Nat, n \in Nat :
          /\ list \in Seq(Nat) /\ Len(list) = n /\ n >= 1
          /\ Head(list) = first /\ Last(list) = final
          /\ list[1] = first /\ list[n] = final
    <2>1. list \in Seq(Nat)
        BY QueriesAssumption
    <2>2. list # <<>>
        BY DEF ValidAny, AnyTarget
    <2> HIDE DEF list
    <2>3. Len(list) \in Nat /\ Len(list) >= 1
        BY <2>1, <2>2
    <2>4. Head(list) = list[1] /\ Last(list) = list[Len(list)]
        BY <2>1, <2>3 DEF Last
    <2>5. list[1] \in Nat /\ list[Len(list)] \in Nat
        BY <2>1, <2>3
    <2> QED BY <2>1, <2>3, <2>4, <2>5, Zenon
<1>2. CASE first > final
    <2>1. r = [sorted |-> FALSE, out |-> <<>>]
        BY <1>1, <1>2 DEF SelectRows
    <2>2. r.sorted = FALSE /\ r.out = <<>>
        BY <2>1
    <2> HIDE DEF r, list
    <2>3. ~ Strict(list)
        <3>1. 1 \in 1 .. n /\ n \in 1 .. n /\ ~ (first <= final)
            BY <1>1, <1>2
        <3>2. 1 < n
            BY <1>1, <1>2
        <3>3. ~ (first < final)
            BY <1>2
        <3> QED BY <1>1, <3>1, <3>2, <3>3, Zenon DEF Strict
    <2>4. SelectedOK(r, ids, list)
        <3>1. /\ <<>> \in Seq(Nat) /\ Len(<<>>) = 0 /\ Strict(<<>>)
              /\ \A k \in 1 .. 0 : FALSE
              /\ 0 <= n
            BY DEF Strict
        <3> QED BY <1>1, <2>2, <2>3, <3>1, Zenon DEF SelectedOK
    <2> QED BY <2>4 DEF r, list
<1>3. CASE ~ (first > final)
    <2> DEFINE S == {id \in ids : first <= id /\ id <= final}
               rows == Rows(S)
               scan == FoldLeft(LAMBDA s, row : SelectOne(s, row, list), ScanStart, rows)
    <2>1. S \in SUBSET Nat /\ IsFiniteSet(S)
        <3>1. S \in SUBSET Ids
            OBVIOUS
        <3> HIDE DEF S
        <3> QED BY <3>1, IdsAssumption, FS_Subset
    <2>2. /\ rows \in Seq(Nat) /\ Strict(rows)
          /\ \A j \in 1 .. Len(rows) : rows[j] \in S
          /\ \A x \in S : \E j \in 1 .. Len(rows) : rows[j] = x
        <3> HIDE DEF S
        <3> QED BY <2>1, RowsAre DEF Strict
    <2>3. r = [sorted |-> scan.sorted, out |-> scan.out]
        <3>1. target.target = "select" /\ target.target # "all"
            OBVIOUS
        <3>2. InReach(ids, target) = rows
            BY <1>1, <3>1 DEF InReach
        <3>3. ~ (target.target # "all" /\ Head(target.list) > Last(target.list))
            BY <1>1, <1>3
        <3>4. r = LET s0 == FoldLeft(LAMBDA s, row : SelectOne(s, row, target.list),
                              [sorted |-> TRUE, next |-> 1, out |-> <<>>],
                              InReach(ids, target))
                  IN  [sorted |-> s0.sorted, out |-> s0.out]
            <4> HIDE DEF S, rows
            <4> QED BY <3>1, <3>3, Zenon DEF SelectRows
        <3> HIDE DEF r, S, rows
        <3> QED BY <3>2, <3>4 DEF ScanStart
    <2>4. ScanOK(scan, rows, Len(rows), list)
        <3> HIDE DEF rows, list
        <3> QED BY <1>1, <2>2, ScanEnds
    <2> HIDE DEF scan, r, rows, list
    <2>5. r.sorted = scan.sorted /\ r.out = scan.out
        BY <2>3
    <2>6. PICK sorted, next, out :
              /\ sorted = r.sorted /\ out = r.out
              /\ Kept(sorted, next, out, rows, Len(rows), list)
        BY <2>4, <2>5, Zenon DEF ScanOK
    <2>7. /\ sorted \in BOOLEAN /\ next \in Nat \ {0} /\ out \in Seq(Nat)
          /\ next <= n + 1 /\ Len(out) = next - 1
          /\ \A k \in 1 .. Len(out) : k \in 1 .. n
        BY <1>1, <2>6 DEF Kept
    <2>8. ASSUME NEW k \in 1 .. Len(out)
          PROVE  out[k] = list[k] /\ out[k] \in ids
        <3>1. PICK j \in 1 .. Len(rows) : list[k] = rows[j]
            BY <2>6, <2>7 DEF Kept
        <3>2. out[k] = list[k]
            BY <2>6, <2>7 DEF Kept
        <3>3. rows[j] \in ids
            BY <2>2
        <3> QED BY <3>1, <3>2, <3>3
    <2>9. Strict(out)
        <3>1. \A k, l \in 1 .. Len(out) : k < l => list[k] < list[l]
            BY <2>6, <2>7 DEF Kept
        <3> QED BY <2>8, <3>1 DEF Strict
    <2>10. ASSUME Strict(list)
           PROVE  sorted
        BY <2>6, <2>10 DEF Kept
    <2>11. ASSUME Strict(list), Len(out) < n
           PROVE  list[Len(out) + 1] \notin ids
        <3>1. next <= n /\ Len(out) + 1 = next /\ next \in 1 .. n /\ n \in 1 .. n /\ 1 \in 1 .. n
            BY <1>1, <2>7, <2>11
        <3>2. \A j \in 1 .. Len(rows) : rows[j] # list[next]
            BY <1>1, <2>6, <2>11, <3>1, Zenon DEF Kept
        <3>3. list[next] \notin S
            BY <2>2, <3>2
        <3>4. first <= list[next] /\ list[next] <= final
            <4>1. 1 < next => first < list[next]
                BY <1>1, <2>11, <3>1, Zenon DEF Strict
            <4>2. next < n => list[next] < final
                BY <1>1, <2>11, <3>1, Zenon DEF Strict
            <4>3. list[next] \in Nat /\ (next = 1 => list[next] = first)
                  /\ (next = n => list[next] = final)
                BY <1>1, <3>1
            <4>4. (next = 1 \/ 1 < next) /\ (next = n \/ next < n)
                BY <2>7, <3>1
            <4> QED BY <1>1, <4>1, <4>2, <4>3, <4>4
        <3> QED BY <3>1, <3>3, <3>4
    <2>12. Len(out) <= n
        BY <2>7
    <2>13. SelectedOK(r, ids, list)
        BY <1>1, <2>6, <2>7, <2>8, <2>9, <2>10, <2>11, <2>12, Zenon DEF SelectedOK
    <2> QED BY <2>13 DEF r, list
<1> QED
    BY <1>2, <1>3

\* The longest beginning of a list whose ids are all in S.
Beginning(list, S) ==
    SubSeq(list, 1, Cardinality({i \in DOMAIN list : \A j \in 1..i : list[j] \in S}))

LEMMA BeginningIs ==
    ASSUME NEW list \in Seq(Nat), NEW S, NEW out \in Seq(Nat),
           Len(out) <= Len(list),
           \A k \in 1 .. Len(out) : out[k] = list[k] /\ out[k] \in S,
           Len(out) < Len(list) => list[Len(out) + 1] \notin S
    PROVE  Beginning(list, S) = out
<1> DEFINE met == {i \in DOMAIN list : \A j \in 1..i : list[j] \in S}
           n == Len(out)
<1>1. DOMAIN list = 1 .. Len(list) /\ Len(list) \in Nat /\ n \in Nat
    OBVIOUS
<1>2. ASSUME NEW i \in met PROVE i \in 1 .. n
    <2>1. i \in 1 .. Len(list) /\ \A j \in 1 .. i : list[j] \in S
        BY <1>1
    <2>2. ~ (i > n)
        <3> SUFFICES ASSUME i > n PROVE FALSE
            OBVIOUS
        <3>1. n + 1 \in 1 .. i /\ n < Len(list)
            BY <1>1, <2>1
        <3> QED BY <2>1, <3>1
    <2> QED BY <1>1, <2>1, <2>2
<1>3. ASSUME NEW i \in 1 .. n PROVE i \in met
    <2>1. i \in DOMAIN list
        BY <1>1
    <2>2. \A j \in 1 .. i : j \in 1 .. n
        BY <1>1
    <2>3. \A j \in 1 .. i : list[j] \in S
        BY <2>2
    <2> QED BY <2>1, <2>3
<1>4. met = 1 .. n
    <2> HIDE DEF met
    <2> QED BY <1>2, <1>3
<1>5. Cardinality(met) = n
    <2> HIDE DEF met, n
    <2>1. n = 0 => 1 .. n = {}
        BY <1>1
    <2> QED BY <1>1, <1>4, FS_Interval
<1>6. SubSeq(list, 1, n) = out
    <2>1. SubSeq(list, 1, n) \in Seq(Nat) /\ Len(SubSeq(list, 1, n)) = n
        BY <1>1
    <2>2. \A k \in 1 .. n : SubSeq(list, 1, n)[k] = out[k]
        BY <1>1
    <2> HIDE DEF n
    <2> QED BY <2>1, <2>2 DEF n
<1> QED
    <2> HIDE DEF met, n
    <2>1. Beginning(list, S) = SubSeq(list, 1, Cardinality(met))
        BY DEF Beginning, met
    <2> QED BY <1>5, <1>6, <2>1
-----------------------------------------------------------------------------
\* What an administrator reads in the answer to a selection.
LEMMA SelectionAnswer ==
    ASSUME TablesOK, NEW target \in Queries,
           ValidAny({"read_users"}, target), target.target = "select"
    PROVE  \E found \in Seq(Nat), held \in Seq(Nat), sorted \in BOOLEAN, sortedHeld \in BOOLEAN :
               /\ SelectedOK([sorted |-> sorted, out |-> found], users, target.list)
               /\ SelectedOK([sorted |-> sortedHeld, out |-> held], Holders, target.list)
               /\ GetUsers(target, FALSE, FALSE) =
                      IF ~ sorted THEN Unsorted
                      ELSE UserList([i \in DOMAIN found |-> User(found[i], FALSE, FALSE)])
               /\ GetUsers(target, TRUE, FALSE) =
                      IF ~ sorted \/ ~ sortedHeld THEN Unsorted
                      ELSE IF ~ ToSet(held) \subseteq ToSet(found) THEN Orphan
                      ELSE UserList([i \in DOMAIN found |->
                                        User(found[i], found[i] \in ToSet(held), FALSE)])
<1> DEFINE selected == SelectRows(users, target)
           joined == SelectRows(Holders, target)
<1>1. users \in SUBSET Ids /\ Holders \in SUBSET Ids
    BY UsersFinite DEF TablesOK
<1>2. /\ SelectedOK(selected, users, target.list)
      /\ SelectedOK(joined, Holders, target.list)
    BY <1>1, Selected
<1>3. GetUsers(target, FALSE, FALSE) =
          IF ~ selected.sorted THEN Unsorted
          ELSE UserList([i \in DOMAIN selected.out |-> User(selected.out[i], FALSE, FALSE)])
    BY Zenon DEF GetUsers
<1>4. GetUsers(target, TRUE, FALSE) =
          IF ~ selected.sorted THEN Unsorted
          ELSE IF ~ joined.sorted THEN Unsorted
          ELSE IF ~ ToSet(joined.out) \subseteq ToSet(selected.out) THEN Orphan
          ELSE UserList([i \in DOMAIN selected.out |->
                            User(selected.out[i], selected.out[i] \in ToSet(joined.out), FALSE)])
    BY Zenon DEF GetUsers
<1> HIDE DEF selected, joined
<1>5. PICK found, held, sorted, sortedHeld :
          /\ found = selected.out /\ held = joined.out
          /\ sorted = selected.sorted /\ sortedHeld = joined.sorted
    OBVIOUS
<1>6. /\ found \in Seq(Nat) /\ held \in Seq(Nat)
      /\ sorted \in BOOLEAN /\ sortedHeld \in BOOLEAN
    BY <1>2, <1>5 DEF SelectedOK
<1>7. /\ SelectedOK([sorted |-> sorted, out |-> found], users, target.list)
      /\ SelectedOK([sorted |-> sortedHeld, out |-> held], Holders, target.list)
    <2>1. \A a, b : [sorted |-> a, out |-> b].sorted = a /\ [sorted |-> a, out |-> b].out = b
        OBVIOUS
    <2> QED BY <1>2, <1>5, <2>1, Zenon DEF SelectedOK
<1>8. GetUsers(target, FALSE, FALSE) =
          IF ~ sorted THEN Unsorted
          ELSE UserList([i \in DOMAIN found |-> User(found[i], FALSE, FALSE)])
    BY <1>3, <1>5, Zenon
<1>9. GetUsers(target, TRUE, FALSE) =
          IF ~ sorted \/ ~ sortedHeld THEN Unsorted
          ELSE IF ~ ToSet(held) \subseteq ToSet(found) THEN Orphan
          ELSE UserList([i \in DOMAIN found |->
                            User(found[i], found[i] \in ToSet(held), FALSE)])
    BY <1>4, <1>5, Zenon
<1> QED
    BY <1>6, <1>7, <1>8, <1>9, Zenon

IdsOf(reply) == [i \in DOMAIN reply.list |-> reply.list[i].user_id]

Shows(reply, found, J) ==
    /\ IdsOf(reply) = found
    /\ reply.is = "UserList"
    /\ DOMAIN reply.list = 1 .. Len(found)
    /\ \A i \in 1 .. Len(found) :
           /\ reply.list[i].user_id = found[i]
           /\ found[i] \in J => reply.list[i].claims = claims[found[i]]
           /\ found[i] \notin J => reply.list[i].claims = NoClaims

LEMMA ShownUsers ==
    ASSUME NEW found \in Seq(Nat), NEW J
    PROVE  /\ IdsOf(UserList([i \in DOMAIN found |-> User(found[i], FALSE, FALSE)])) = found
           /\ Shows(UserList([i \in DOMAIN found |-> User(found[i], found[i] \in J, FALSE)]),
                    found, J)
<1> DEFINE pl == [i \in DOMAIN found |-> User(found[i], FALSE, FALSE)]
           rl == [i \in DOMAIN found |-> User(found[i], found[i] \in J, FALSE)]
           plain == UserList(pl)
           reply == UserList(rl)
<1>1. DOMAIN found = 1 .. Len(found) /\ found = [i \in DOMAIN found |-> found[i]]
    OBVIOUS
<1>2. /\ plain.is = "UserList" /\ plain.list = pl
      /\ reply.is = "UserList" /\ reply.list = rl
    BY DEF UserList
<1>3. ASSUME NEW i \in DOMAIN found
      PROVE  /\ pl[i].user_id = found[i]
             /\ rl[i].user_id = found[i]
             /\ found[i] \in J => rl[i].claims = claims[found[i]]
             /\ found[i] \notin J => rl[i].claims = NoClaims
    <2>1. pl[i] = User(found[i], FALSE, FALSE) /\ rl[i] = User(found[i], found[i] \in J, FALSE)
        OBVIOUS
    <2>2. \A id, with : User(id, with, FALSE).user_id = id
        BY DEF User
    <2>3. \A id : User(id, TRUE, FALSE).claims = claims[id]
        BY DEF User
    <2>4. \A id : User(id, FALSE, FALSE).claims = NoClaims
        BY DEF User
    <2> HIDE DEF pl, rl
    <2>5. CASE found[i] \in J
        <3>1. User(found[i], found[i] \in J, FALSE).claims = claims[found[i]]
            BY <2>5 DEF User
        <3> QED BY <2>1, <2>2, <2>5, <3>1, Zenon
    <2>6. CASE found[i] \notin J
        <3>1. User(found[i], found[i] \in J, FALSE).claims = NoClaims
            BY <2>6 DEF User
        <3> QED BY <2>1, <2>2, <2>6, <3>1, Zenon
    <2> QED BY <2>5, <2>6
<1>4. DOMAIN pl = DOMAIN found /\ DOMAIN rl = DOMAIN found
    OBVIOUS
<1> HIDE DEF pl, rl
<1>5. IdsOf(plain) = found /\ IdsOf(reply) = found
    <2> DEFINE a == [i \in DOMAIN found |-> pl[i].user_id]
               b == [i \in DOMAIN found |-> rl[i].user_id]
    <2>1. a = found /\ b = found
        BY <1>1, <1>3
    <2>2. IdsOf(plain) = a /\ IdsOf(reply) = b
        <3> HIDE DEF plain, reply
        <3> QED BY <1>2, <1>4, Zenon DEF IdsOf
    <2> QED BY <2>1, <2>2
<1>6. /\ DOMAIN reply.list = 1 .. Len(found)
      /\ \A i \in 1 .. Len(found) :
             /\ reply.list[i].user_id = found[i]
             /\ found[i] \in J => reply.list[i].claims = claims[found[i]]
             /\ found[i] \notin J => reply.list[i].claims = NoClaims
    <2> HIDE DEF plain, reply
    <2> QED BY <1>1, <1>2, <1>3, <1>4, Zenon
<1>7. IdsOf(plain) = found /\ Shows(reply, found, J)
    <2> HIDE DEF plain, reply
    <2> QED BY <1>2, <1>5, <1>6, Zenon DEF Shows
<1> QED
    BY <1>7 DEF pl, rl

(***************************************************************************)
(* SelectionsArePrefixes holds for all users, claims and queries: a        *)
(* selection in ascending order is answered up to the first id without a   *)
(* row, and no selection shows the claims of another user.                 *)
(***************************************************************************)
THEOREM SelectionsAlways == DirectorySpec => []SelectionsArePrefixes
<1>1. ASSUME TablesOK PROVE SelectionsArePrefixes
    <2> SUFFICES ASSUME NEW target \in Queries,
                        ValidAny({"read_users"}, target), target.target = "select"
                 PROVE
            LET answer == GetUsers(target, TRUE, FALSE)
                plain  == GetUsers(target, FALSE, FALSE)
                list   == target.list
            IN  /\ ToSet(IdsOf(plain)) \subseteq ToSet(list) \cap users
                /\ IsInjective(IdsOf(plain))
                /\ answer.is = "UserList" =>
                       /\ IdsOf(answer) = IdsOf(plain)
                       /\ \A i \in DOMAIN answer.list :
                              answer.list[i].claims \in {NoClaims, claims[answer.list[i].user_id]}
                /\ (\A i, j \in DOMAIN list : i < j => list[i] < list[j]) =>
                       /\ IdsOf(plain) = Beginning(list, users)
                       /\ answer.is = "Orphan"
                              <=> ~ (ToSet(Beginning(list, Holders)) \subseteq users)
                       /\ answer.is = "UserList" =>
                              \A i \in DOMAIN answer.list :
                                  answer.list[i].claims # NoClaims
                                      <=> answer.list[i].user_id
                                              \in ToSet(Beginning(list, Holders))
        BY Zenon DEF SelectionsArePrefixes, Beginning, IdsOf
    <2> DEFINE list   == target.list
               answer == GetUsers(target, TRUE, FALSE)
               plain  == GetUsers(target, FALSE, FALSE)
    <2>1. PICK found \in Seq(Nat), held \in Seq(Nat), sorted \in BOOLEAN, sortedHeld \in BOOLEAN :
               /\ SelectedOK([sorted |-> sorted, out |-> found], users, list)
               /\ SelectedOK([sorted |-> sortedHeld, out |-> held], Holders, list)
               /\ plain = IF ~ sorted THEN Unsorted
                          ELSE UserList([i \in DOMAIN found |-> User(found[i], FALSE, FALSE)])
               /\ answer = IF ~ sorted \/ ~ sortedHeld THEN Unsorted
                      ELSE IF ~ ToSet(held) \subseteq ToSet(found) THEN Orphan
                      ELSE UserList([i \in DOMAIN found |->
                                        User(found[i], found[i] \in ToSet(held), FALSE)])
        BY <1>1, SelectionAnswer, Zenon
    <2>2. /\ Len(found) <= Len(list) /\ Strict(found)
          /\ \A k \in 1 .. Len(found) : found[k] = list[k] /\ found[k] \in users
          /\ Len(held) <= Len(list)
          /\ \A k \in 1 .. Len(held) : held[k] = list[k] /\ held[k] \in Holders
          /\ Strict(list) =>
                 /\ sorted /\ sortedHeld
                 /\ Len(found) < Len(list) => list[Len(found) + 1] \notin users
                 /\ Len(held) < Len(list) => list[Len(held) + 1] \notin Holders
        <3>1. \A a, b : [sorted |-> a, out |-> b].sorted = a /\ [sorted |-> a, out |-> b].out = b
            OBVIOUS
        <3> QED BY <2>1, <3>1, Zenon DEF SelectedOK
    <2>3. /\ Unsorted.is = "Unsorted" /\ Orphan.is = "Orphan"
          /\ IdsOf(Unsorted) = <<>>
        BY DEF Unsorted, Orphan, IdsOf
    <2>4. list \in Seq(Nat)
        BY QueriesAssumption
    <2> HIDE DEF list, answer, plain
    <2>5. /\ DOMAIN list = 1 .. Len(list) /\ DOMAIN found = 1 .. Len(found)
          /\ DOMAIN held = 1 .. Len(held)
          /\ \A k \in 1 .. Len(found) : k \in 1 .. Len(list)
          /\ \A k \in 1 .. Len(held) : k \in 1 .. Len(list)
        BY <2>2, <2>4
    <2>6. IdsOf(plain) = IF sorted THEN found ELSE <<>>
        BY <2>1, <2>3, ShownUsers, Zenon
    <2>7. /\ ToSet(found) \subseteq ToSet(list) \cap users
          /\ ToSet(held) \subseteq ToSet(list) \cap Holders
          /\ \A k \in 1 .. Len(found) : found[k] \in ToSet(found)
          /\ \A k \in 1 .. Len(held) : held[k] \in ToSet(held)
        BY <2>2, <2>4, <2>5 DEF ToSet
    <2>8. IsInjective(found) /\ IsInjective(<<>>) /\ ToSet(<<>>) = {}
        <3>1. \A k, l \in 1 .. Len(found) : found[k] = found[l] => k = l
            <4>1. \A k, l \in 1 .. Len(found) : k < l \/ l < k \/ k = l
                OBVIOUS
            <4>2. \A k \in 1 .. Len(found) : found[k] \in Nat
                OBVIOUS
            <4> QED BY <2>2, <4>1, <4>2, SMTT(30) DEF Strict
        <3> QED BY <2>5, <3>1 DEF IsInjective, ToSet
    <2>9. /\ ToSet(IdsOf(plain)) \subseteq ToSet(list) \cap users
          /\ IsInjective(IdsOf(plain))
        BY <2>6, <2>7, <2>8
    <2>10. ASSUME answer.is = "UserList"
           PROVE  /\ IdsOf(answer) = IdsOf(plain)
                  /\ DOMAIN answer.list = 1 .. Len(found)
                  /\ \A i \in 1 .. Len(found) :
                         /\ answer.list[i].user_id = found[i]
                         /\ found[i] \in ToSet(held) =>
                                answer.list[i].claims = claims[found[i]]
                         /\ found[i] \notin ToSet(held) =>
                                answer.list[i].claims = NoClaims
        <3> DEFINE shown == UserList([i \in DOMAIN found |->
                                         User(found[i], found[i] \in ToSet(held), FALSE)])
        <3>1. answer = shown /\ sorted
            <4> HIDE DEF shown
            <4>1. answer # Unsorted /\ answer # Orphan
                BY <2>3, <2>10
            <4> QED BY <2>1, <4>1, Zenon DEF shown
        <3>2. /\ IdsOf(shown) = found
              /\ DOMAIN shown.list = 1 .. Len(found)
              /\ \A i \in 1 .. Len(found) :
                     /\ shown.list[i].user_id = found[i]
                     /\ found[i] \in ToSet(held) => shown.list[i].claims = claims[found[i]]
                     /\ found[i] \notin ToSet(held) => shown.list[i].claims = NoClaims
            <4>1. Shows(shown, found, ToSet(held))
                BY ShownUsers, Zenon
            <4> HIDE DEF shown
            <4> QED BY <4>1, Zenon DEF Shows
        <3> HIDE DEF shown
        <3> QED BY <2>6, <3>1, <3>2, Zenon
    <2>11. answer.is = "UserList" =>
               /\ IdsOf(answer) = IdsOf(plain)
               /\ \A i \in DOMAIN answer.list :
                      answer.list[i].claims \in {NoClaims, claims[answer.list[i].user_id]}
        <3> SUFFICES ASSUME answer.is = "UserList", NEW i \in DOMAIN answer.list
                     PROVE  answer.list[i].claims \in {NoClaims, claims[answer.list[i].user_id]}
            BY <2>10, Zenon
        <3>1. i \in 1 .. Len(found)
            BY <2>10
        <3> QED BY <2>10, <3>1, Zenon
    <2>12. ASSUME \A i, j \in DOMAIN list : i < j => list[i] < list[j]
           PROVE  /\ IdsOf(plain) = Beginning(list, users)
                  /\ answer.is = "Orphan"
                         <=> ~ (ToSet(Beginning(list, Holders)) \subseteq users)
                  /\ answer.is = "UserList" =>
                         \A i \in DOMAIN answer.list :
                             answer.list[i].claims # NoClaims
                                 <=> answer.list[i].user_id
                                         \in ToSet(Beginning(list, Holders))
        <3>1. Strict(list)
            BY <2>5, <2>12 DEF Strict
        <3>2. Beginning(list, users) = found /\ Beginning(list, Holders) = held
            BY <2>2, <2>4, <3>1, BeginningIs
        <3>3. sorted /\ sortedHeld /\ IdsOf(plain) = found
            BY <2>2, <2>6, <3>1
        <3>4. ToSet(held) \subseteq users => ToSet(held) \subseteq ToSet(found)
            <4> SUFFICES ASSUME ToSet(held) \subseteq users
                         PROVE  ToSet(held) \subseteq ToSet(found)
                OBVIOUS
            <4>1. Len(held) <= Len(found)
                <5> SUFFICES ASSUME Len(found) < Len(held) PROVE FALSE
                    OBVIOUS
                <5>1. Len(found) + 1 \in 1 .. Len(held) /\ Len(found) < Len(list)
                    BY <2>2, <2>4
                <5>2. held[Len(found) + 1] \in users /\ held[Len(found) + 1] = list[Len(found) + 1]
                    BY <2>2, <2>7, <5>1
                <5> QED BY <2>2, <3>1, <5>1, <5>2
            <4>2. \A k \in 1 .. Len(held) : k \in 1 .. Len(found) /\ held[k] = found[k]
                BY <2>2, <4>1, SMTT(30)
            <4>3. \A x \in ToSet(held) : \E k \in 1 .. Len(held) : x = held[k]
                BY <2>5 DEF ToSet
            <4> QED BY <2>7, <4>2, <4>3
        <3>5. answer.is = "Orphan" <=> ~ (ToSet(held) \subseteq users)
            <4>1. CASE ToSet(held) \subseteq users
                <5>1. answer = UserList([i \in DOMAIN found |->
                                        User(found[i], found[i] \in ToSet(held), FALSE)])
                    BY <2>1, <3>3, <3>4, <4>1, Zenon
                <5>2. Shows(answer, found, ToSet(held))
                    BY <5>1, ShownUsers, Zenon
                <5>3. answer.is = "UserList"
                    BY <5>2, Zenon DEF Shows
                <5> QED BY <4>1, <5>3
            <4>2. CASE ~ (ToSet(held) \subseteq users)
                <5>1. ~ (ToSet(held) \subseteq ToSet(found))
                    BY <2>7, <4>2
                <5>2. answer = Orphan
                    BY <2>1, <3>3, <5>1, Zenon
                <5> QED BY <2>3, <4>2, <5>2
            <4> QED BY <4>1, <4>2
        <3>6. ASSUME answer.is = "UserList", NEW i \in DOMAIN answer.list
              PROVE  answer.list[i].claims # NoClaims
                         <=> answer.list[i].user_id \in ToSet(held)
            <4>1. i \in 1 .. Len(found)
                BY <2>10, <3>6
            <4>2. found[i] \in ToSet(held) => claims[found[i]] # NoClaims
                BY <2>7 DEF Holders
            <4> QED BY <2>10, <3>6, <4>1, <4>2, Zenon
        <3> QED BY <3>2, <3>3, <3>5, <3>6
    <2> QED BY <2>9, <2>11, <2>12 DEF list, answer, plain
<1> QED
    BY <1>1, Tables, PTL

(***************************************************************************)
(* Edits of claims.                                                        *)
(***************************************************************************)

\* Claims in order, and in a strict order: each key once.
Sorted(s) == \A i, j \in 1 .. Len(s) : i < j => s[i].key <= s[j].key
StrictKeys(s) == \A i, j \in 1 .. Len(s) : i < j => s[i].key < s[j].key

KeyedSet(C) == \A c \in C : c.key \in Nat

\* A binary search finds the first place whose key is not smaller.
LEMMA PlaceIs ==
    ASSUME NEW C, KeyedSet(C), NEW s \in Seq(C), Sorted(s), NEW k \in Nat
    PROVE  /\ Place(s, k) \in 1 .. Len(s) + 1
           /\ \A i \in 1 .. Len(s) : i < Place(s, k) => s[i].key < k
           /\ \A i \in 1 .. Len(s) : i >= Place(s, k) => ~ (s[i].key < k)
<1> DEFINE n == Len(s)
           Before == {i \in DOMAIN s : s[i].key < k}
           After == {i \in 1 .. n + 1 : i \notin Before}
<1>1. n \in Nat /\ DOMAIN s = 1 .. n /\ \A i \in 1 .. n : s[i] \in C /\ s[i].key \in Nat
    BY DEF KeyedSet
<1>2. After \in SUBSET Nat /\ After # {}
    <2>1. n + 1 \in After
        BY <1>1
    <2> QED BY <2>1
<1>3. PICK p \in After : \A i \in After : p <= i
    <2> HIDE DEF After
    <2> QED BY <1>2, LeastId
<1>4. p \in 1 .. n + 1 /\ p \notin Before
    OBVIOUS
<1>5. \A i \in 1 .. n : i < p => i \in Before
    BY <1>1, <1>3, <1>4
<1>6. \A i \in 1 .. n : i >= p => i \notin Before
    <2> SUFFICES ASSUME NEW i \in 1 .. n, i >= p, i \in Before PROVE FALSE
        OBVIOUS
    <2>1. p \in 1 .. n /\ ~ (s[p].key < k) /\ s[i].key < k
        BY <1>1, <1>4
    <2>2. s[p].key <= s[i].key \/ p = i
        BY <1>1, <2>1 DEF Sorted
    <2> QED BY <1>1, <2>1, <2>2
<1>7. Before = 1 .. p - 1
    <2>1. \A i \in Before : i \in 1 .. n
        BY <1>1
    <2>2. \A i \in 1 .. p - 1 : i \in 1 .. n /\ i < p
        BY <1>1, <1>4
    <2> HIDE DEF Before
    <2>3. \A i \in Before : i \in 1 .. p - 1
        BY <1>1, <1>4, <1>6, <2>1
    <2> QED BY <1>5, <2>2, <2>3
<1>8. Cardinality(Before) = p - 1
    <2> HIDE DEF Before
    <2>1. p = 1 => 1 .. p - 1 = {}
        BY <1>4
    <2> QED BY <1>1, <1>4, <1>7, <2>1, FS_Interval
<1>9. Place(s, k) = p
    <2>1. Place(s, k) = 1 + Cardinality(Before)
        BY DEF Place
    <2> HIDE DEF Before
    <2> QED BY <1>1, <1>4, <1>8, <2>1
<1>10. \A i \in 1 .. n : (i < p => s[i].key < k) /\ (i >= p => ~ (s[i].key < k))
    BY <1>1, <1>5, <1>6
<1> QED
    BY <1>4, <1>9, <1>10

\* Where the elements go when one is put among them.
Inserted(s, p, c, t, C) ==
    /\ t \in Seq(C)
    /\ Len(t) = Len(s) + 1
    /\ \A i \in 1 .. Len(s) + 1 :
           /\ i < p => t[i] = s[i]
           /\ i = p => t[i] = c
           /\ i > p => t[i] = s[i - 1]

LEMMA InsertedAt ==
    ASSUME NEW C, NEW s \in Seq(C), NEW p \in 1 .. Len(s) + 1, NEW c \in C
    PROVE  Inserted(s, p, c, InsertAt(s, p, c), C)
<1> DEFINE n == Len(s)
           a == SubSeq(s, 1, p - 1)
           b == <<c>>
           d == SubSeq(s, p, n)
<1>1. n \in Nat /\ p \in Int /\ p - 1 \in Int /\ 1 \in Int /\ n \in Int
    OBVIOUS
<1>2. a \in Seq(C) /\ Len(a) = p - 1 /\ \A i \in 1 .. p - 1 : a[i] = s[i]
    <2>1. \A i \in 1 .. p - 1 : s[i] \in C
        BY <1>1
    <2>2. /\ a \in Seq(C) /\ Len(a) = IF 1 <= p - 1 THEN (p - 1) - 1 + 1 ELSE 0
          /\ \A i \in 1 .. (p - 1) - 1 + 1 : a[i] = s[1 + i - 1]
        BY <1>1, <2>1, SubSeqProperties
    <2> HIDE DEF a
    <2>3. Len(a) = p - 1
        BY <1>1, <2>2
    <2>4. \A i \in 1 .. p - 1 : i \in 1 .. (p - 1) - 1 + 1 /\ 1 + i - 1 = i
        BY <1>1
    <2> QED BY <2>2, <2>3, <2>4
<1>3. b \in Seq(C) /\ Len(b) = 1 /\ b[1] = c
    OBVIOUS
<1>4. d \in Seq(C) /\ Len(d) = n - p + 1 /\ \A i \in 1 .. n - p + 1 : d[i] = s[p + i - 1]
    <2>1. \A i \in p .. n : s[i] \in C
        BY <1>1
    <2>2. /\ d \in Seq(C) /\ Len(d) = IF p <= n THEN n - p + 1 ELSE 0
          /\ \A i \in 1 .. n - p + 1 : d[i] = s[p + i - 1]
        <3> HIDE DEF n
        <3> QED BY <1>1, <2>1, SubSeqProperties
    <2> HIDE DEF d
    <2>3. Len(d) = n - p + 1
        BY <1>1, <2>2
    <2> QED BY <2>2, <2>3
<1>5. InsertAt(s, p, c) = a \o b \o d
    BY DEF InsertAt
<1> HIDE DEF a, b, d
<1>6. /\ a \o b \in Seq(C) /\ Len(a \o b) = Len(a) + Len(b)
      /\ \A i \in 1 .. Len(a) + Len(b) :
             (a \o b)[i] = IF i <= Len(a) THEN a[i] ELSE b[i - Len(a)]
    BY <1>2, <1>3, ConcatProperties
<1> DEFINE ab == a \o b
<1>7. /\ ab \in Seq(C) /\ Len(ab) = p
      /\ \A i \in 1 .. p - 1 : ab[i] = s[i]
      /\ ab[p] = c
    <2>1. Len(ab) = p
        BY <1>1, <1>2, <1>3, <1>6
    <2>2. \A i \in 1 .. p - 1 : i \in 1 .. Len(a) + Len(b) /\ i <= Len(a)
        BY <1>1, <1>2, <1>3
    <2>3. \A i \in 1 .. p - 1 : ab[i] = s[i]
        BY <1>2, <1>6, <2>2
    <2>4. p \in 1 .. Len(a) + Len(b) /\ ~ (p <= Len(a)) /\ p - Len(a) = 1
        BY <1>1, <1>2, <1>3
    <2>5. ab[p] = c
        BY <1>3, <1>6, <2>4
    <2> QED BY <1>6, <2>1, <2>3, <2>5
<1> HIDE DEF ab
<1> DEFINE all == ab \o d
<1>8. /\ all \in Seq(C) /\ Len(all) = Len(ab) + Len(d)
      /\ \A i \in 1 .. Len(ab) + Len(d) :
             all[i] = IF i <= Len(ab) THEN ab[i] ELSE d[i - Len(ab)]
    BY <1>4, <1>7, ConcatProperties
<1> HIDE DEF all
<1>9. Len(all) = n + 1
    BY <1>1, <1>4, <1>7, <1>8
<1>10. ASSUME NEW i \in 1 .. n + 1
       PROVE  /\ i < p => all[i] = s[i]
              /\ i = p => all[i] = c
              /\ i > p => all[i] = s[i - 1]
    <2>1. i \in 1 .. Len(ab) + Len(d)
        BY <1>1, <1>4, <1>7
    <2>2. CASE i < p
        <3>1. i \in 1 .. p - 1 /\ i <= Len(ab)
            BY <1>1, <1>7, <2>2
        <3> QED BY <1>1, <1>7, <1>8, <2>1, <2>2, <3>1
    <2>3. CASE i = p
        BY <1>1, <1>7, <1>8, <2>1, <2>3
    <2>4. CASE i > p
        <3>1. ~ (i <= Len(ab)) /\ i - Len(ab) = i - p /\ i - p \in 1 .. n - p + 1
              /\ p + (i - p) - 1 = i - 1
            BY <1>1, <1>7, <2>4
        <3>2. all[i] = d[i - p]
            BY <1>8, <2>1, <3>1
        <3>3. d[i - p] = s[i - 1]
            BY <1>4, <3>1
        <3> QED BY <1>1, <2>4, <3>2, <3>3
    <2> QED BY <1>1, <2>2, <2>3, <2>4
<1>11. InsertAt(s, p, c) = all
    BY <1>5 DEF all, ab
<1>12. Inserted(s, p, c, all, C)
    BY <1>8, <1>9, <1>10 DEF Inserted
<1> QED
    BY <1>11, <1>12

-----------------------------------------------------------------------------
\* The claims s with c put among them, or in the place of one with its key.
Put(s, t, c, C) ==
    /\ t \in Seq(C) /\ Sorted(t)
    /\ \A d \in ToSet(t) : d = c \/ d \in ToSet(s)
    /\ c \in ToSet(t)
    /\ \A d \in ToSet(s) : d.key # c.key => d \in ToSet(t)
    /\ StrictKeys(s) => StrictKeys(t)

LEMMA KeysOfIs ==
    ASSUME NEW C, NEW s \in Seq(C)
    PROVE  /\ \A i \in 1 .. Len(s) : s[i] \in ToSet(s) /\ s[i].key \in KeysOf(s)
           /\ \A d \in ToSet(s) : d \in C /\ \E i \in 1 .. Len(s) : d = s[i]
           /\ \A k \in KeysOf(s) : \E i \in 1 .. Len(s) : k = s[i].key
           /\ KeysOf(s) = {d.key : d \in ToSet(s)}
<1>1. DOMAIN s = 1 .. Len(s) /\ \A i \in 1 .. Len(s) : s[i] \in C
    OBVIOUS
<1> QED BY <1>1 DEF ToSet, KeysOf

LEMMA InsertedClaim ==
    ASSUME NEW C, KeyedSet(C), NEW s \in Seq(C), Sorted(s), NEW c \in C,
           c.key \notin KeysOf(s)
    PROVE  Put(s, Insert(s, c), c, C)
<1> DEFINE n == Len(s)
           p == Place(s, c.key)
           t == Insert(s, c)
<1>1. n \in Nat /\ c.key \in Nat /\ \A i \in 1 .. n : s[i] \in C /\ s[i].key \in Nat
    BY DEF KeyedSet
<1>2. /\ p \in 1 .. n + 1
      /\ \A i \in 1 .. n : i < p => s[i].key < c.key
      /\ \A i \in 1 .. n : i >= p => ~ (s[i].key < c.key)
    BY <1>1, PlaceIs
<1>3. \A i \in 1 .. n : s[i].key # c.key
    BY KeysOfIs
<1>4. t = InsertAt(s, p, c)
    BY DEF Insert
<1> HIDE DEF p, t
<1>5. /\ t \in Seq(C) /\ Len(t) = n + 1
      /\ \A i \in 1 .. n + 1 : /\ i < p => t[i] = s[i]
                               /\ i = p => t[i] = c
                               /\ i > p => t[i] = s[i - 1]
    <2>1. p \in 1 .. Len(s) + 1
        BY <1>2
    <2>2. Inserted(s, p, c, InsertAt(s, p, c), C)
        BY <2>1, InsertedAt
    <2> QED BY <1>4, <2>2, Zenon DEF Inserted
<1>6. /\ \A i \in 1 .. n + 1 : i < p => i \in 1 .. n /\ t[i] = s[i] /\ s[i].key < c.key
      /\ \A i \in 1 .. n + 1 : i > p => i - 1 \in 1 .. n /\ t[i] = s[i - 1]
                                        /\ c.key < s[i - 1].key
      /\ t[p] = c
    <2>1. \A i \in 1 .. n + 1 : i < p => i \in 1 .. n
        BY <1>1, <1>2
    <2>2. \A i \in 1 .. n + 1 : i > p => i - 1 \in 1 .. n /\ i - 1 >= p
        BY <1>1, <1>2
    <2>3. \A i \in 1 .. n : i >= p => c.key < s[i].key
        BY <1>1, <1>2, <1>3
    <2> QED BY <1>2, <1>5, <2>1, <2>2, <2>3
<1>7. ASSUME NEW i \in 1 .. n + 1, NEW j \in 1 .. n + 1, i < j
      PROVE  \/ t[i].key < t[j].key
             \/ \E a, b \in 1 .. n : a < b /\ t[i] = s[a] /\ t[j] = s[b]
    <2>1. (i < p \/ i = p \/ i > p) /\ (j < p \/ j = p \/ j > p)
        BY <1>2
    <2>2. CASE j < p
        <3>1. i < p
            BY <1>2, <1>7, <2>2
        <3> QED BY <1>6, <1>7, <2>2, <3>1
    <2>3. CASE j = p
        <3>1. i < p
            BY <1>2, <1>7, <2>3
        <3> QED BY <1>6, <2>3, <3>1
    <2>4. CASE j > p
        <3>1. CASE i < p
            <4>1. t[i].key = s[i].key /\ t[j].key = s[j - 1].key
                BY <1>6, <2>4, <3>1
            <4>2. i \in 1 .. n /\ j - 1 \in 1 .. n
                BY <1>6, <2>4, <3>1
            <4>3. s[i].key < c.key /\ c.key < s[j - 1].key
                BY <1>6, <2>4, <3>1
            <4> QED BY <1>1, <4>1, <4>2, <4>3
        <3>2. CASE i = p
            BY <1>6, <2>4, <3>2
        <3>3. CASE i > p
            <4>1. /\ t[i] = s[i - 1] /\ t[j] = s[j - 1]
                  /\ i - 1 \in 1 .. n /\ j - 1 \in 1 .. n
                BY <1>6, <2>4, <3>3
            <4>2. i - 1 < j - 1
                BY <1>2, <1>7
            <4> QED BY <4>1, <4>2
        <3> QED BY <2>1, <3>1, <3>2, <3>3
    <2> QED BY <2>1, <2>2, <2>3, <2>4
<1>8. Sorted(t)
    <2> SUFFICES ASSUME NEW i \in 1 .. n + 1, NEW j \in 1 .. n + 1, i < j
                 PROVE  t[i].key <= t[j].key
        BY <1>5 DEF Sorted
    <2>1. CASE t[i].key < t[j].key
        <3>1. t[i].key \in Nat /\ t[j].key \in Nat
            BY <1>5 DEF KeyedSet
        <3> QED BY <2>1, <3>1
    <2>2. CASE \E a, b \in 1 .. n : a < b /\ t[i] = s[a] /\ t[j] = s[b]
        BY <2>2 DEF Sorted
    <2> QED BY <1>7, <2>1, <2>2
<1>9. StrictKeys(s) => StrictKeys(t)
    <2> SUFFICES ASSUME StrictKeys(s), NEW i \in 1 .. n + 1, NEW j \in 1 .. n + 1, i < j
                 PROVE  t[i].key < t[j].key
        BY <1>5 DEF StrictKeys
    <2>1. CASE \E a, b \in 1 .. n : a < b /\ t[i] = s[a] /\ t[j] = s[b]
        BY <2>1 DEF StrictKeys
    <2> QED BY <1>7, <2>1
<1>10. \A d \in ToSet(t) : d = c \/ d \in ToSet(s)
    <2>1. ASSUME NEW d \in ToSet(t) PROVE d = c \/ d \in ToSet(s)
        <3>1. PICK i \in 1 .. n + 1 : d = t[i]
            BY <1>5, KeysOfIs
        <3>2. i < p \/ i = p \/ i > p
            BY <1>2
        <3>3. \A j \in 1 .. n : s[j] \in ToSet(s)
            BY KeysOfIs
        <3> QED BY <1>6, <3>1, <3>2, <3>3
    <2> QED BY <2>1
<1>11. c \in ToSet(t)
    BY <1>2, <1>5, <1>6, KeysOfIs
<1>12. \A d \in ToSet(s) : d \in ToSet(t)
    <2>1. ASSUME NEW d \in ToSet(s) PROVE d \in ToSet(t)
        <3>1. PICK i \in 1 .. n : d = s[i]
            BY KeysOfIs
        <3>2. \A j \in 1 .. n + 1 : t[j] \in ToSet(t)
            BY <1>5, KeysOfIs
        <3>3. CASE i < p
            <4>1. i \in 1 .. n + 1
                BY <1>1
            <4> QED BY <1>5, <3>1, <3>2, <3>3, <4>1
        <3>4. CASE ~ (i < p)
            <4>1. i + 1 \in 1 .. n + 1 /\ i + 1 > p /\ (i + 1) - 1 = i
                BY <1>1, <1>2, <3>4
            <4>2. t[i + 1] = s[i]
                BY <1>5, <4>1
            <4> QED BY <3>1, <3>2, <4>1, <4>2
        <3> QED BY <3>3, <3>4
    <2> QED BY <2>1
<1> QED
    BY <1>5, <1>8, <1>9, <1>10, <1>11, <1>12 DEF Put, t

LEMMA ReplacedClaim ==
    ASSUME NEW C, KeyedSet(C), NEW s \in Seq(C), Sorted(s), NEW c \in C,
           c.key \in KeysOf(s)
    PROVE  Put(s, [s EXCEPT ![Match(s, c.key)] = c], c, C)
<1> DEFINE n == Len(s)
           p == Match(s, c.key)
           t == [s EXCEPT ![p] = c]
<1>1. p \in 1 .. n /\ s[p].key = c.key
    <2>1. \E i \in DOMAIN s : s[i].key = c.key
        BY DEF KeysOf
    <2>2. p \in DOMAIN s /\ s[p].key = c.key
        BY <2>1 DEF Match
    <2> QED BY <2>2
<1> HIDE DEF p
<1>2. /\ t \in Seq(C) /\ Len(t) = n
      /\ \A j \in 1 .. n : t[j] = IF j = p THEN c ELSE s[j]
    BY <1>1, ExceptSeq
<1> HIDE DEF t
<1>3. \A j \in 1 .. n : t[j].key = s[j].key
    BY <1>1, <1>2
<1>4. Sorted(t) /\ (StrictKeys(s) => StrictKeys(t))
    BY <1>2, <1>3 DEF Sorted, StrictKeys
<1>5. ASSUME NEW d \in ToSet(t) PROVE d = c \/ d \in ToSet(s)
    <2>1. PICK i \in 1 .. n : d = t[i]
        BY <1>2, KeysOfIs
    <2>2. s[i] \in ToSet(s)
        BY KeysOfIs
    <2> QED BY <1>2, <2>1, <2>2
<1>6. c \in ToSet(t)
    BY <1>1, <1>2, KeysOfIs
<1>7. ASSUME NEW d \in ToSet(s), d.key # c.key PROVE d \in ToSet(t)
    <2>1. PICK i \in 1 .. n : d = s[i]
        BY KeysOfIs
    <2>2. t[i] = s[i]
        BY <1>1, <1>2, <1>7, <2>1
    <2>3. t[i] \in ToSet(t)
        BY <1>2, KeysOfIs
    <2> QED BY <2>1, <2>2, <2>3
<1> QED
    BY <1>2, <1>4, <1>5, <1>6, <1>7 DEF Put, t, p

\* Where each key is once, a claim is the only one of its key.
LEMMA OnlyOfKey ==
    ASSUME NEW C, KeyedSet(C), NEW s \in Seq(C), StrictKeys(s),
           NEW c \in ToSet(s), NEW d \in ToSet(s), c.key = d.key
    PROVE  c = d
<1>1. PICK i \in 1 .. Len(s), j \in 1 .. Len(s) : c = s[i] /\ d = s[j]
    BY KeysOfIs
<1>2. s[i].key \in Nat /\ s[j].key \in Nat
    BY DEF KeyedSet
<1>3. i < j \/ j < i \/ i = j
    OBVIOUS
<1> QED BY <1>1, <1>2, <1>3 DEF StrictKeys

\* The keys after a claim was put there.
LEMMA PutKeys ==
    ASSUME NEW C, NEW s \in Seq(C), NEW t, NEW c, Put(s, t, c, C)
    PROVE  KeysOf(t) = KeysOf(s) \cup {c.key}
<1>1. t \in Seq(C)
    BY DEF Put
<1>2. /\ KeysOf(s) = {d.key : d \in ToSet(s)}
      /\ KeysOf(t) = {d.key : d \in ToSet(t)}
    BY <1>1, KeysOfIs
<1> QED BY <1>2 DEF Put

\* The states of the loop over the claims to add.
Edits(C) == {edit \in [ok : BOOLEAN, claims : Seq(C)] : Sorted(edit.claims)}

LEMMA AddOneIs ==
    ASSUME NEW C, KeyedSet(C), NEW edit \in Edits(C), NEW c \in C
    PROVE  /\ AddOne(edit, c, TRUE) \in Edits(C) /\ AddOne(edit, c, FALSE) \in Edits(C)
           /\ edit.ok => /\ AddOne(edit, c, TRUE).ok
                         /\ Put(edit.claims, AddOne(edit, c, TRUE).claims, c, C)
           /\ edit.ok /\ c.key \in KeysOf(edit.claims) => AddOne(edit, c, FALSE) = Failed
           /\ c.key \notin KeysOf(edit.claims) =>
                  AddOne(edit, c, FALSE) = AddOne(edit, c, TRUE)
           /\ ~ edit.ok => ~ AddOne(edit, c, FALSE).ok
<1> DEFINE s == edit.claims
           put == IF c.key \notin KeysOf(s) THEN Insert(s, c)
                  ELSE [s EXCEPT ![Match(s, c.key)] = c]
<1>1. s \in Seq(C) /\ Sorted(s) /\ edit.ok \in BOOLEAN
    BY DEF Edits
<1>2. Put(s, put, c, C)
    <2> HIDE DEF s
    <2>1. CASE c.key \notin KeysOf(s)
        BY <1>1, <2>1, InsertedClaim
    <2>2. CASE c.key \in KeysOf(s)
        BY <1>1, <2>2, ReplacedClaim
    <2> QED BY <2>1, <2>2
<1>3. put \in Seq(C) /\ Sorted(put)
    BY <1>2 DEF Put
<1>4. /\ AddOne(edit, c, TRUE) = IF ~ edit.ok THEN edit ELSE Edited(put)
      /\ AddOne(edit, c, FALSE) = IF ~ edit.ok THEN edit
                                  ELSE IF c.key \notin KeysOf(s) THEN Edited(put)
                                  ELSE Failed
    BY DEF AddOne
<1>5. c.key \notin KeysOf(s) => AddOne(edit, c, FALSE) = AddOne(edit, c, TRUE)
    BY DEF AddOne
<1> HIDE DEF put, s
<1>6. /\ Edited(put).ok /\ Edited(put).claims = put /\ Edited(put) \in Edits(C)
      /\ ~ Failed.ok /\ Failed \in Edits(C)
    <2>1. Edited(put).ok /\ Edited(put).claims = put /\ Edited(put) \in [ok : BOOLEAN, claims : Seq(C)]
        BY <1>3 DEF Edited
    <2>2. /\ ~ Failed.ok /\ Failed.claims = <<>> /\ Failed \in [ok : BOOLEAN, claims : Seq(C)]
        BY DEF Failed
    <2>3. Sorted(<<>>)
        BY DEF Sorted
    <2> QED BY <1>3, <2>1, <2>2, <2>3 DEF Edits
<1> QED
    BY <1>2, <1>4, <1>5, <1>6, Zenon DEF s

-----------------------------------------------------------------------------
\* The fold of the claims to add, step by step.
LEMMA AddSteps ==
    ASSUME NEW C, KeyedSet(C), NEW self \in Seq(C), Sorted(self),
           NEW rows \in Seq(C), NEW exists_ok \in BOOLEAN
    PROVE  \E h : /\ h[0] = Edited(self)
                  /\ \A i \in 1 .. Len(rows) :
                         h[i] = AddOne(h[i - 1], rows[i], exists_ok)
                  /\ h[Len(rows)] =
                         FoldLeft(LAMBDA edit, claim : AddOne(edit, claim, exists_ok),
                                  Edited(self), rows)
<1> DEFINE n == Len(rows)
           turn == [k \in 1 .. n |-> [s \in Edits(C) |-> AddOne(s, rows[k], exists_ok)]]
           Step(g) == [s \in SUBSET (1 .. n) |->
                          IF s = {} THEN Edited(self)
                          ELSE AddOne(g[s \ {Max(s)}], rows[Max(s)], exists_ok)]
           iter == CHOOSE g : g = Step(g)
<1>1. n \in Nat /\ Edited(self) \in Edits(C) /\ DOMAIN rows = 1 .. n
    BY DEF Edits, Edited
<1>2. turn \in [1 .. n -> [Edits(C) -> Edits(C)]]
    <2>1. \A k \in 1 .. n : rows[k] \in C
        BY <1>1
    <2>2. \A k \in 1 .. n : \A s \in Edits(C) :
              AddOne(s, rows[k], exists_ok) \in Edits(C)
        <3>1. \A k \in 1 .. n : \A s \in Edits(C) :
                  /\ AddOne(s, rows[k], TRUE) \in Edits(C)
                  /\ AddOne(s, rows[k], FALSE) \in Edits(C)
            BY <2>1, AddOneIs
        <3> QED BY <3>1
    <2> QED BY <2>2
<1>3. \A s \in SUBSET (1 .. n) : s # {} => Max(s) \in 1 .. n
    <2> HIDE DEF n, turn, Step, iter
    <2> QED BY <1>1, MaxUpTo
<1>4. \E g : g = Step(g)
    <2> HIDE DEF turn
    <2>1. PICK g \in [SUBSET (1 .. n) -> Edits(C)] :
              \A s \in SUBSET (1 .. n) :
                  g[s] = IF s = {} THEN Edited(self)
                         ELSE turn[Max(s)][g[s \ {Max(s)}]]
        <3> HIDE DEF n, Step, iter
        <3>1. n \in Nat /\ Edited(self) \in Edits(C)
            BY <1>1
        <3>2. HasFold(n, Edits(C), Edited(self), turn)
            BY <3>1, <1>2, FoldExists
        <3> QED BY <3>2 DEF HasFold
    <2>2. ASSUME NEW s \in SUBSET (1 .. n), s # {}
          PROVE  g[s] = AddOne(g[s \ {Max(s)}], rows[Max(s)], exists_ok)
        <3>1. Max(s) \in 1 .. n /\ s \ {Max(s)} \in SUBSET (1 .. n)
            BY <1>3, <2>2
        <3>2. g[s \ {Max(s)}] \in Edits(C)
            BY <3>1
        <3> QED BY <2>1, <2>2, <3>1, <3>2 DEF turn
    <2>3. g = Step(g)
        BY <2>1, <2>2
    <2> HIDE DEF Step
    <2> QED BY <2>3
<1>5. iter = Step(iter)
    <2> HIDE DEF Step
    <2> QED BY <1>4
<1>6. FoldLeft(LAMBDA edit, claim : AddOne(edit, claim, exists_ok), Edited(self), rows)
          = iter[1 .. n]
    BY <1>1 DEF FoldLeft, MapThenFoldSet
<1> DEFINE h == [i \in 0 .. n |-> iter[1 .. i]]
<1>7. h[0] = Edited(self)
    <2> HIDE DEF iter
    <2>1. 1 .. 0 = {} /\ 0 \in 0 .. n /\ {} \in SUBSET (1 .. n)
        BY <1>1
    <2>2. iter[{}] = Edited(self)
        BY <1>5, <2>1
    <2> QED BY <2>1, <2>2
<1>8. ASSUME NEW i \in 1 .. n
      PROVE  h[i] = AddOne(h[i - 1], rows[i], exists_ok)
    <2> HIDE DEF iter
    <2> HIDE DEF n, h
    <2>1. /\ i \in 0 .. n /\ i - 1 \in 0 .. n
          /\ 1 .. i \in SUBSET (1 .. n) /\ 1 .. i # {}
          /\ i \in Nat \ {0}
        <3> HIDE DEF turn, Step, iter
        <3>1. n \in Nat
            BY <1>1
        <3>2. i \in Nat /\ 1 <= i /\ i <= n
            BY <3>1
        <3>3. 1 .. i \in SUBSET (1 .. n) /\ 1 .. i # {}
            <4>1. 1 \in 1 .. i /\ \A x \in 1 .. i : x \in 1 .. n
                BY <3>1, <3>2
            <4> QED BY <4>1
        <3> QED BY <3>1, <3>2, <3>3
    <2>2. Max(1 .. i) = i /\ (1 .. i) \ {i} = 1 .. (i - 1)
        BY <2>1, MaxUpTo
    <2>3. iter[1 .. i] = AddOne(iter[1 .. (i - 1)], rows[i], exists_ok)
        BY <1>5, <2>1, <2>2
    <2> QED BY <2>1, <2>3 DEF h
<1>9. h[n] = iter[1 .. n]
    BY <1>1
<1> HIDE DEF h, iter
<1> QED BY <1>6, <1>7, <1>8, <1>9

\* The states of the loop over the claims to keep, and the first.
Removals(C, keys) == [ok : BOOLEAN, next : 1 .. Len(keys), claims : Seq(C)]
RemoveStart == [ok |-> TRUE, next |-> 1, claims |-> <<>>]

LEMMA RemoveOneType ==
    ASSUME NEW C, NEW keys \in Seq(Nat), NEW scan \in Removals(C, keys), NEW c \in C
    PROVE  RemoveOne(scan, c, keys) \in Removals(C, keys)
<1>1. /\ scan.ok \in BOOLEAN /\ scan.next \in 1 .. Len(keys) /\ scan.claims \in Seq(C)
      /\ scan = [ok |-> scan.ok, next |-> scan.next, claims |-> scan.claims]
    BY DEF Removals
<1>2. CASE ~ scan.ok
    BY <1>2 DEF RemoveOne
<1>3. CASE scan.ok /\ c.key # keys[scan.next]
    <2>1. Append(scan.claims, c) \in Seq(C)
        BY <1>1
    <2>2. RemoveOne(scan, c, keys) = [scan EXCEPT !.claims = Append(@, c)]
        BY <1>3 DEF RemoveOne
    <2> QED BY <2>1, <2>2 DEF Removals
<1>4. CASE scan.ok /\ c.key = keys[scan.next] /\ scan.next = Len(keys)
    BY <1>4 DEF RemoveOne
<1>5. CASE scan.ok /\ c.key = keys[scan.next] /\ scan.next # Len(keys)
    <2>1. scan.next + 1 \in 1 .. Len(keys)
        BY <1>1, <1>5
    <2>2. RemoveOne(scan, c, keys) =
              [scan EXCEPT !.next = @ + 1, !.ok = keys[scan.next] <= keys[scan.next + 1]]
        BY <1>5 DEF RemoveOne
    <2>3. (keys[scan.next] <= keys[scan.next + 1]) \in BOOLEAN
        BY <1>1, <2>1
    <2> QED BY <2>1, <2>2, <2>3 DEF Removals
<1> QED
    BY <1>2, <1>3, <1>4, <1>5

\* The fold of the claims to keep or remove, step by step.
LEMMA RemoveSteps ==
    ASSUME NEW C, NEW rows \in Seq(C), NEW keys \in Seq(Nat), keys # <<>>
    PROVE  \E h : /\ h[0] = RemoveStart
                  /\ \A i \in 1 .. Len(rows) :
                         h[i] = RemoveOne(h[i - 1], rows[i], keys)
                  /\ h[Len(rows)] =
                         FoldLeft(LAMBDA s, claim : RemoveOne(s, claim, keys),
                                  RemoveStart, rows)
<1> DEFINE n == Len(rows)
           turn == [k \in 1 .. n |-> [s \in Removals(C, keys) |-> RemoveOne(s, rows[k], keys)]]
           Step(g) == [s \in SUBSET (1 .. n) |->
                          IF s = {} THEN RemoveStart
                          ELSE RemoveOne(g[s \ {Max(s)}], rows[Max(s)], keys)]
           iter == CHOOSE g : g = Step(g)
<1>1. n \in Nat /\ RemoveStart \in Removals(C, keys) /\ DOMAIN rows = 1 .. n
    BY DEF Removals, RemoveStart
<1>2. turn \in [1 .. n -> [Removals(C, keys) -> Removals(C, keys)]]
    BY RemoveOneType
<1>3. \A s \in SUBSET (1 .. n) : s # {} => Max(s) \in 1 .. n
    <2> HIDE DEF n, turn, Step, iter
    <2> QED BY <1>1, MaxUpTo
<1>4. \E g : g = Step(g)
    <2> HIDE DEF turn
    <2>1. PICK g \in [SUBSET (1 .. n) -> Removals(C, keys)] :
              \A s \in SUBSET (1 .. n) :
                  g[s] = IF s = {} THEN RemoveStart
                         ELSE turn[Max(s)][g[s \ {Max(s)}]]
        <3> HIDE DEF n, Step, iter
        <3>1. n \in Nat /\ RemoveStart \in Removals(C, keys)
            BY <1>1
        <3>2. HasFold(n, Removals(C, keys), RemoveStart, turn)
            BY <3>1, <1>2, FoldExists
        <3> QED BY <3>2 DEF HasFold
    <2>2. ASSUME NEW s \in SUBSET (1 .. n), s # {}
          PROVE  g[s] = RemoveOne(g[s \ {Max(s)}], rows[Max(s)], keys)
        <3>1. Max(s) \in 1 .. n /\ s \ {Max(s)} \in SUBSET (1 .. n)
            BY <1>3, <2>2
        <3>2. g[s \ {Max(s)}] \in Removals(C, keys)
            BY <3>1
        <3> QED BY <2>1, <2>2, <3>1, <3>2 DEF turn
    <2>3. g = Step(g)
        BY <2>1, <2>2
    <2> HIDE DEF Step
    <2> QED BY <2>3
<1>5. iter = Step(iter)
    <2> HIDE DEF Step
    <2> QED BY <1>4
<1>6. FoldLeft(LAMBDA s, claim : RemoveOne(s, claim, keys), RemoveStart, rows)
          = iter[1 .. n]
    BY <1>1 DEF FoldLeft, MapThenFoldSet
<1> DEFINE h == [i \in 0 .. n |-> iter[1 .. i]]
<1>7. h[0] = RemoveStart
    <2> HIDE DEF iter
    <2>1. 1 .. 0 = {} /\ 0 \in 0 .. n /\ {} \in SUBSET (1 .. n)
        BY <1>1
    <2>2. iter[{}] = RemoveStart
        BY <1>5, <2>1
    <2> QED BY <2>1, <2>2
<1>8. ASSUME NEW i \in 1 .. n
      PROVE  h[i] = RemoveOne(h[i - 1], rows[i], keys)
    <2> HIDE DEF iter
    <2> HIDE DEF n, h
    <2>1. /\ i \in 0 .. n /\ i - 1 \in 0 .. n
          /\ 1 .. i \in SUBSET (1 .. n) /\ 1 .. i # {}
          /\ i \in Nat \ {0}
        <3> HIDE DEF turn, Step, iter
        <3>1. n \in Nat
            BY <1>1
        <3>2. i \in Nat /\ 1 <= i /\ i <= n
            BY <3>1
        <3>3. 1 .. i \in SUBSET (1 .. n) /\ 1 .. i # {}
            <4>1. 1 \in 1 .. i /\ \A x \in 1 .. i : x \in 1 .. n
                BY <3>1, <3>2
            <4> QED BY <4>1
        <3> QED BY <3>1, <3>2, <3>3
    <2>2. Max(1 .. i) = i /\ (1 .. i) \ {i} = 1 .. (i - 1)
        BY <2>1, MaxUpTo
    <2>3. iter[1 .. i] = RemoveOne(iter[1 .. (i - 1)], rows[i], keys)
        BY <1>5, <2>1, <2>2
    <2> QED BY <2>1, <2>3 DEF h
<1>9. h[n] = iter[1 .. n]
    BY <1>1
<1> HIDE DEF h, iter
<1> QED BY <1>6, <1>7, <1>8, <1>9

-----------------------------------------------------------------------------
\* Of the claims of one key among the first i to add, the last.
LastOfKey(other, j, i) == \A k \in 1 .. i : j < k => other[k].key # other[j].key

\* After i of the claims to add: the newest of those i, and the old claims of
\* other keys.  Where each key was there once, nothing else.
AddedSoFar(edit, self, other, i, C) ==
    /\ edit \in Edits(C) /\ edit.ok
    /\ KeysOf(edit.claims) = KeysOf(self) \cup {other[j].key : j \in 1 .. i}
    /\ \A d \in ToSet(edit.claims) : d \in ToSet(self) \/ \E j \in 1 .. i : d = other[j]
    /\ \A j \in 1 .. i : LastOfKey(other, j, i) => other[j] \in ToSet(edit.claims)
    /\ \A d \in ToSet(self) :
           (\A j \in 1 .. i : d.key # other[j].key) => d \in ToSet(edit.claims)
    /\ StrictKeys(self) =>
           /\ StrictKeys(edit.claims)
           /\ \A d \in ToSet(edit.claims) :
                  \/ d \in ToSet(self) /\ \A j \in 1 .. i : d.key # other[j].key
                  \/ \E j \in 1 .. i : d = other[j] /\ LastOfKey(other, j, i)

\* A claim stays the newest of its key until one of its key is added.
LEMMA LastOfKeyStep ==
    ASSUME NEW other, NEW n \in Nat, NEW i \in 1 .. n
    PROVE  /\ LastOfKey(other, i, i)
           /\ \A j \in 1 .. i - 1 :
                  LastOfKey(other, j, i) <=> /\ LastOfKey(other, j, i - 1)
                                          /\ other[j].key # other[i].key
<1>1. \A k \in 1 .. i : ~ (i < k)
    OBVIOUS
<1>2. \A j \in 1 .. i - 1 : j < i
    OBVIOUS
<1>3. /\ i \in 1 .. i /\ \A k \in 1 .. i : k = i \/ k \in 1 .. i - 1
      /\ \A k \in 1 .. i - 1 : k \in 1 .. i
    OBVIOUS
<1> QED BY <1>1, <1>2, <1>3, Zenon DEF LastOfKey

LEMMA AddedStep ==
    ASSUME NEW C, KeyedSet(C), NEW self \in Seq(C), NEW other \in Seq(C),
           NEW i \in 1 .. Len(other), NEW edit, AddedSoFar(edit, self, other, i - 1, C)
    PROVE  AddedSoFar(AddOne(edit, other[i], TRUE), self, other, i, C)
<1> DEFINE c == other[i]
           after == AddOne(edit, c, TRUE)
<1>1. c \in C /\ edit \in Edits(C) /\ edit.ok /\ edit.claims \in Seq(C)
    BY DEF AddedSoFar, Edits
<1>2. after \in Edits(C) /\ after.ok /\ Put(edit.claims, after.claims, c, C)
    BY <1>1, AddOneIs
<1> HIDE DEF after
<1>3. /\ after.claims \in Seq(C) /\ c \in ToSet(after.claims)
      /\ \A d \in ToSet(after.claims) : d = c \/ d \in ToSet(edit.claims)
      /\ \A d \in ToSet(edit.claims) : d.key # c.key => d \in ToSet(after.claims)
      /\ StrictKeys(edit.claims) => StrictKeys(after.claims)
    BY <1>2, Zenon DEF Put
<1>4. KeysOf(after.claims) = KeysOf(edit.claims) \cup {c.key}
    BY <1>1, <1>2, PutKeys
<1>5. /\ \A j \in 1 .. i : j = i \/ j \in 1 .. i - 1
      /\ \A j \in 1 .. i - 1 : j \in 1 .. i
      /\ i \in 1 .. i
    OBVIOUS
<1>6. /\ LastOfKey(other, i, i)
      /\ \A j \in 1 .. i - 1 :
             LastOfKey(other, j, i) <=> LastOfKey(other, j, i - 1) /\ other[j].key # c.key
    <2>1. Len(other) \in Nat
        OBVIOUS
    <2> QED BY <2>1, LastOfKeyStep
<1>7. /\ KeysOf(edit.claims) = KeysOf(self) \cup {other[j].key : j \in 1 .. i - 1}
      /\ \A d \in ToSet(edit.claims) :
             d \in ToSet(self) \/ \E j \in 1 .. i - 1 : d = other[j]
      /\ \A j \in 1 .. i - 1 : LastOfKey(other, j, i - 1) => other[j] \in ToSet(edit.claims)
      /\ \A d \in ToSet(self) :
             (\A j \in 1 .. i - 1 : d.key # other[j].key) => d \in ToSet(edit.claims)
      /\ StrictKeys(self) =>
             /\ StrictKeys(edit.claims)
             /\ \A d \in ToSet(edit.claims) :
                    \/ d \in ToSet(self) /\ \A j \in 1 .. i - 1 : d.key # other[j].key
                    \/ \E j \in 1 .. i - 1 : d = other[j] /\ LastOfKey(other, j, i - 1)
    BY Zenon DEF AddedSoFar
<1>8. KeysOf(after.claims) = KeysOf(self) \cup {other[j].key : j \in 1 .. i}
    <2>1. {other[j].key : j \in 1 .. i} = {other[j].key : j \in 1 .. i - 1} \cup {c.key}
        BY <1>5
    <2> HIDE DEF c
    <2> QED BY <1>4, <1>7, <2>1
<1>9. \A d \in ToSet(after.claims) : d \in ToSet(self) \/ \E j \in 1 .. i : d = other[j]
    BY <1>3, <1>5, <1>7
<1>10. ASSUME NEW j \in 1 .. i, LastOfKey(other, j, i) PROVE other[j] \in ToSet(after.claims)
    <2>1. CASE j = i
        BY <1>3, <2>1
    <2>2. CASE j \in 1 .. i - 1
        BY <1>3, <1>6, <1>7, <1>10, <2>2
    <2> QED BY <1>5, <2>1, <2>2
<1>11. ASSUME NEW d \in ToSet(self), \A j \in 1 .. i : d.key # other[j].key
       PROVE  d \in ToSet(after.claims)
    BY <1>3, <1>5, <1>7, <1>11
<1>12. ASSUME StrictKeys(self)
       PROVE  StrictKeys(after.claims)
    BY <1>3, <1>7, <1>12
<1>13. ASSUME StrictKeys(self), NEW d \in ToSet(after.claims)
       PROVE  \/ d \in ToSet(self) /\ \A j \in 1 .. i : d.key # other[j].key
              \/ \E j \in 1 .. i : d = other[j] /\ LastOfKey(other, j, i)
    <2>1. CASE d = c
        BY <1>5, <1>6, <2>1
    <2>2. CASE d # c
        <3>1. d.key # c.key
            BY <1>3, <1>12, <1>13, <2>2, OnlyOfKey
        <3>2. d \in ToSet(edit.claims)
            BY <1>3, <2>2
        <3>3. CASE d \in ToSet(self) /\ \A j \in 1 .. i - 1 : d.key # other[j].key
            BY <1>5, <3>1, <3>3
        <3>4. CASE \E j \in 1 .. i - 1 : d = other[j] /\ LastOfKey(other, j, i - 1)
            BY <1>5, <1>6, <3>1, <3>4
        <3> QED BY <1>7, <1>13, <3>2, <3>3, <3>4
    <2> QED BY <2>1, <2>2
<1>14. AddedSoFar(after, self, other, i, C)
    BY <1>2, <1>8, <1>9, <1>10, <1>11, <1>12, <1>13, Zenon DEF AddedSoFar
<1> QED
    BY <1>14 DEF after

\* Where nothing may exist: the same, until a key exists or is given again.
AllNew(self, other, i) ==
    \A j \in 1 .. i : /\ other[j].key \notin KeysOf(self)
                      /\ \A k \in 1 .. i : k < j => other[k].key # other[j].key

StrictSoFar(strict, edit, self, other, i, C) ==
    /\ strict \in Edits(C)
    /\ AllNew(self, other, i) => strict = edit
    /\ ~ AllNew(self, other, i) => ~ strict.ok

LEMMA StrictStep ==
    ASSUME NEW C, KeyedSet(C), NEW self \in Seq(C), NEW other \in Seq(C),
           NEW i \in 1 .. Len(other), NEW edit, AddedSoFar(edit, self, other, i - 1, C),
           NEW strict, StrictSoFar(strict, edit, self, other, i - 1, C)
    PROVE  StrictSoFar(AddOne(strict, other[i], FALSE), AddOne(edit, other[i], TRUE),
                       self, other, i, C)
<1> DEFINE c == other[i]
           after == AddOne(strict, c, FALSE)
<1>1. c \in C /\ strict \in Edits(C) /\ edit \in Edits(C) /\ edit.ok
    BY DEF AddedSoFar, StrictSoFar
<1>2. /\ after \in Edits(C)
      /\ ~ strict.ok => ~ after.ok
      /\ strict.ok /\ c.key \in KeysOf(strict.claims) => after = Failed
      /\ c.key \notin KeysOf(strict.claims) => after = AddOne(strict, c, TRUE)
    BY <1>1, AddOneIs
<1>3. AllNew(self, other, i) <=> /\ AllNew(self, other, i - 1)
                                 /\ c.key \notin KeysOf(self)
                                 /\ \A k \in 1 .. i - 1 : other[k].key # c.key
    <2>1. /\ i \in 1 .. i
          /\ \A j \in 1 .. i : j = i \/ j \in 1 .. i - 1
          /\ \A j \in 1 .. i - 1 : j \in 1 .. i
          /\ \A k \in 1 .. i - 1 : k < i
          /\ \A k \in 1 .. i : k < i => k \in 1 .. i - 1
          /\ \A j \in 1 .. i - 1 : \A k \in 1 .. i : k < j => k \in 1 .. i - 1
        OBVIOUS
    <2> QED BY <2>1, Zenon DEF AllNew
<1>4. KeysOf(edit.claims) = KeysOf(self) \cup {other[j].key : j \in 1 .. i - 1}
    BY Zenon DEF AddedSoFar
<1>5. c.key \in KeysOf(edit.claims) <=>
          c.key \in KeysOf(self) \/ \E k \in 1 .. i - 1 : other[k].key = c.key
    BY <1>4
<1> HIDE DEF after
<1>6. CASE ~ AllNew(self, other, i - 1)
    <2>1. ~ after.ok
        BY <1>2, <1>6 DEF StrictSoFar
    <2>2. ~ AllNew(self, other, i)
        BY <1>3, <1>6
    <2> QED BY <1>2, <2>1, <2>2 DEF StrictSoFar, after
<1>7. CASE AllNew(self, other, i - 1)
    <2>1. strict = edit
        BY <1>7 DEF StrictSoFar
    <2>2. CASE c.key \in KeysOf(edit.claims)
        <3>1. ~ after.ok
            BY <1>1, <1>2, <2>1, <2>2 DEF Failed
        <3>2. ~ AllNew(self, other, i)
            BY <1>3, <1>5, <2>2
        <3> QED BY <1>2, <3>1, <3>2 DEF StrictSoFar, after
    <2>3. CASE c.key \notin KeysOf(edit.claims)
        <3>1. after = AddOne(edit, c, TRUE)
            BY <1>2, <2>1, <2>3
        <3>2. AllNew(self, other, i)
            BY <1>3, <1>5, <1>7, <2>3
        <3> QED BY <1>2, <3>1, <3>2 DEF StrictSoFar, after
    <2> QED BY <2>2, <2>3
<1> QED
    BY <1>6, <1>7

LEMMA SortedAscend ==
    ASSUME NEW C, KeyedSet(C), NEW s \in Seq(C)
    PROVE  AscendingClaims(s) <=> Sorted(s)
<1>1. /\ DOMAIN s = 1 .. Len(s) /\ DOMAIN [i \in DOMAIN s |-> s[i].key] = 1 .. Len(s)
      /\ \A i \in 1 .. Len(s) : [k \in DOMAIN s |-> s[k].key][i] = s[i].key
    OBVIOUS
<1> QED
    BY <1>1 DEF AscendingClaims, Ascending, Sorted

LEMMA AddsAre ==
    ASSUME NEW C, KeyedSet(C), NEW self \in Seq(C), NEW other \in Seq(C), Sorted(self)
    PROVE  /\ AddedSoFar(AddClaims(self, other, TRUE), self, other, Len(other), C)
           /\ StrictSoFar(AddClaims(self, other, FALSE), AddClaims(self, other, TRUE),
                          self, other, Len(other), C)
<1>1. PICK h : /\ h[0] = Edited(self)
               /\ \A i \in 1 .. Len(other) : h[i] = AddOne(h[i - 1], other[i], TRUE)
               /\ h[Len(other)] =
                      FoldLeft(LAMBDA edit, claim : AddOne(edit, claim, TRUE),
                               Edited(self), other)
    BY AddSteps
<1>2. PICK u : /\ u[0] = Edited(self)
               /\ \A i \in 1 .. Len(other) : u[i] = AddOne(u[i - 1], other[i], FALSE)
               /\ u[Len(other)] =
                      FoldLeft(LAMBDA edit, claim : AddOne(edit, claim, FALSE),
                               Edited(self), other)
    BY AddSteps
<1> DEFINE T == {i \in 0 .. Len(other) : /\ AddedSoFar(h[i], self, other, i, C)
                                         /\ StrictSoFar(u[i], h[i], self, other, i, C)}
<1>3. 0 \in T
    <2>1. Edited(self) \in Edits(C) /\ Edited(self).ok /\ Edited(self).claims = self
        BY DEF Edited, Edits
    <2>2. 1 .. 0 = {}
        OBVIOUS
    <2>3. \A d \in ToSet(self) : \A j \in 1 .. 0 : d.key # other[j].key
        BY <2>2
    <2>4. KeysOf(self) = KeysOf(self) \cup {other[j].key : j \in 1 .. 0}
        BY <2>2
    <2>5. \A j \in 1 .. 0 : LastOfKey(other, j, 0) => other[j] \in ToSet(self)
        BY <2>2
    <2>6. AddedSoFar(Edited(self), self, other, 0, C)
        BY <2>1, <2>3, <2>4, <2>5, Zenon DEF AddedSoFar
    <2>7. AllNew(self, other, 0)
        BY <2>2 DEF AllNew
    <2>8. StrictSoFar(Edited(self), Edited(self), self, other, 0, C)
        BY <2>1, <2>7 DEF StrictSoFar
    <2>9. 0 \in 0 .. Len(other)
        OBVIOUS
    <2> QED BY <1>1, <1>2, <2>6, <2>8, <2>9, Zenon
<1>4. ASSUME NEW i \in 1 .. Len(other), i - 1 \in T PROVE i \in T
    <2>1. /\ AddedSoFar(h[i - 1], self, other, i - 1, C)
          /\ StrictSoFar(u[i - 1], h[i - 1], self, other, i - 1, C)
        BY <1>4
    <2>2. /\ AddedSoFar(AddOne(h[i - 1], other[i], TRUE), self, other, i, C)
          /\ StrictSoFar(AddOne(u[i - 1], other[i], FALSE), AddOne(h[i - 1], other[i], TRUE),
                         self, other, i, C)
        BY <2>1, AddedStep, StrictStep
    <2>3. i \in 0 .. Len(other)
        OBVIOUS
    <2>4. h[i] = AddOne(h[i - 1], other[i], TRUE) /\ u[i] = AddOne(u[i - 1], other[i], FALSE)
        BY <1>1, <1>2
    <2> QED BY <2>2, <2>3, <2>4, Zenon
<1>5. Len(other) \in T
    <2> HIDE DEF T
    <2>1. Len(other) \in Nat
        OBVIOUS
    <2>2. \A i \in 0 .. Len(other) : i \in T
        BY <1>3, <1>4, <2>1, UpTo
    <2> QED BY <2>1, <2>2
<1>6. /\ AddClaims(self, other, TRUE) = h[Len(other)]
      /\ AddClaims(self, other, FALSE) = u[Len(other)]
    <2>1. AscendingClaims(self)
        BY SortedAscend
    <2> QED BY <1>1, <1>2, <2>1, Zenon DEF AddClaims
<1>7. /\ AddedSoFar(h[Len(other)], self, other, Len(other), C)
      /\ StrictSoFar(u[Len(other)], h[Len(other)], self, other, Len(other), C)
    BY <1>5
<1> QED
    BY <1>6, <1>7, Zenon
-----------------------------------------------------------------------------
\* After i claims: those are kept whose key is none of the keys that were
\* looked for so far, and all but the last of these were met.  Where each key is
\* once among the claims and the keys, no other claims are kept.
KeptParts(next, s, self, keys, i) ==
    /\ Sorted(s)
    /\ \A d \in ToSet(s) : \E j \in 1 .. i : d = self[j]
    /\ \A j \in 1 .. i : (\A k \in 1 .. next : self[j].key # keys[k]) => self[j] \in ToSet(s)
    /\ \A k \in 1 .. next - 1 : \E j \in 1 .. i : self[j].key = keys[k]
    /\ StrictKeys(self) /\ Strict(keys) =>
           /\ next < Len(keys) => \A j \in 1 .. i : self[j].key # keys[next]
           /\ \A d \in ToSet(s) : \A k \in 1 .. next : d.key # keys[k]

KeptSoFar(scan, self, keys, i, C) ==
    /\ scan \in Removals(C, keys) /\ scan.ok
    /\ KeptParts(scan.next, scan.claims, self, keys, i)

LEMMA AppendedLast ==
    ASSUME NEW C, KeyedSet(C), NEW s \in Seq(C), Sorted(s), NEW c \in C,
           \A d \in ToSet(s) : d.key <= c.key
    PROVE  /\ Append(s, c) \in Seq(C) /\ Sorted(Append(s, c))
           /\ \A d : d \in ToSet(Append(s, c)) <=> d = c \/ d \in ToSet(s)
<1> DEFINE t == Append(s, c)
           n == Len(s)
<1>1. /\ n \in Nat /\ t \in Seq(C) /\ Len(t) = n + 1
      /\ \A i \in 1 .. n : t[i] = s[i]
      /\ t[n + 1] = c
    OBVIOUS
<1>2. \A i \in 1 .. n + 1 : i = n + 1 \/ i \in 1 .. n
    BY <1>1
<1>3. \A i \in 1 .. n : i \in 1 .. n + 1 /\ s[i] \in ToSet(s)
    BY <1>1, KeysOfIs
<1> HIDE DEF t, n
<1>4. Sorted(t)
    <2> SUFFICES ASSUME NEW i \in 1 .. n + 1, NEW j \in 1 .. n + 1, i < j
                 PROVE  t[i].key <= t[j].key
        BY <1>1 DEF Sorted
    <2>1. i \in 1 .. n
        BY <1>1
    <2>2. CASE j = n + 1
        BY <1>1, <1>3, <2>1, <2>2
    <2>3. CASE j # n + 1
        <3>1. j \in 1 .. n
            BY <1>2, <2>3
        <3> QED BY <1>1, <2>1, <3>1 DEF Sorted, n
    <2> QED BY <2>2, <2>3
<1>5. ASSUME NEW d PROVE d \in ToSet(t) <=> d = c \/ d \in ToSet(s)
    <2>1. d \in ToSet(t) => \E i \in 1 .. n + 1 : d = t[i]
        BY <1>1, KeysOfIs
    <2>2. d \in ToSet(s) => \E i \in 1 .. n : d = s[i]
        BY KeysOfIs DEF n
    <2>3. \A i \in 1 .. n + 1 : t[i] \in ToSet(t)
        BY <1>1, KeysOfIs
    <2>4. n + 1 \in 1 .. n + 1
        BY <1>1
    <2> QED BY <1>1, <1>2, <1>3, <2>1, <2>2, <2>3, <2>4
<1> QED
    BY <1>1, <1>4, <1>5 DEF t

LEMMA KeptStep ==
    ASSUME NEW C, KeyedSet(C), NEW self \in Seq(C), Sorted(self),
           NEW keys \in Seq(Nat), keys # <<>>, Ascending(keys),
           NEW i \in 1 .. Len(self), NEW scan, KeptSoFar(scan, self, keys, i - 1, C)
    PROVE  KeptSoFar(RemoveOne(scan, self[i], keys), self, keys, i, C)
<1> DEFINE c == self[i]
           after == RemoveOne(scan, c, keys)
<1>1. PICK next \in 1 .. Len(keys), s \in Seq(C) :
          /\ scan = [ok |-> TRUE, next |-> next, claims |-> s]
          /\ scan.next = next /\ scan.claims = s /\ scan.ok
          /\ scan \in Removals(C, keys)
    <2>1. scan \in Removals(C, keys) /\ scan.ok
        BY DEF KeptSoFar
    <2>2. PICK ok \in BOOLEAN, next \in 1 .. Len(keys), s \in Seq(C) :
              scan = [ok |-> ok, next |-> next, claims |-> s]
        BY <2>1 DEF Removals
    <2>3. ok = TRUE /\ scan.next = next /\ scan.claims = s
        BY <2>1, <2>2
    <2> QED BY <2>1, <2>2, <2>3
<1>2. /\ Len(keys) \in Nat /\ next \in Nat
      /\ \A k \in 1 .. Len(keys) : keys[k] \in Nat
      /\ c \in C /\ c.key \in Nat
      /\ \A j \in 1 .. i - 1 : /\ j \in 1 .. i /\ self[j] \in C
                              /\ self[j].key <= c.key /\ self[j].key \in Nat
      /\ \A j \in 1 .. i : j = i \/ j \in 1 .. i - 1
      /\ i \in 1 .. i
    <2>1. \A j \in 1 .. i - 1 : j \in 1 .. i /\ j \in 1 .. Len(self) /\ j < i
        OBVIOUS
    <2>2. \A j \in 1 .. Len(self) : self[j] \in C /\ self[j].key \in Nat
        BY DEF KeyedSet
    <2>3. \A j \in 1 .. i - 1 : self[j].key <= self[i].key
        BY <2>1 DEF Sorted
    <2>4. \A j \in 1 .. i : j = i \/ j \in 1 .. i - 1
        OBVIOUS
    <2>5. /\ Len(keys) \in Nat /\ next \in Nat /\ i \in 1 .. i
          /\ \A k \in 1 .. Len(keys) : keys[k] \in Nat
        OBVIOUS
    <2> QED BY <2>1, <2>2, <2>3, <2>4, <2>5
<1>3. /\ Sorted(s)
      /\ \A d \in ToSet(s) : \E j \in 1 .. i - 1 : d = self[j]
      /\ \A j \in 1 .. i - 1 :
             (\A k \in 1 .. next : self[j].key # keys[k]) => self[j] \in ToSet(s)
      /\ \A k \in 1 .. next - 1 : \E j \in 1 .. i - 1 : self[j].key = keys[k]
      /\ StrictKeys(self) /\ Strict(keys) =>
             /\ next < Len(keys) => \A j \in 1 .. i - 1 : self[j].key # keys[next]
             /\ \A d \in ToSet(s) : \A k \in 1 .. next : d.key # keys[k]
    <2>1. KeptParts(next, s, self, keys, i - 1)
        BY <1>1, Zenon DEF KeptSoFar
    <2> QED BY <2>1, Zenon DEF KeptParts
<1>4. \A k \in 1 .. next - 1 : \E j \in 1 .. i : self[j].key = keys[k]
    BY <1>2, <1>3
<1>5. after \in Removals(C, keys)
    BY <1>1, <1>2, RemoveOneType
<1>6. /\ \A k \in 1 .. next : k = next \/ k \in 1 .. next - 1
      /\ next \in 1 .. next
    BY <1>2
<1>7. ASSUME StrictKeys(self), NEW j \in 1 .. i - 1 PROVE self[j].key < c.key
    <2>1. j \in 1 .. Len(self) /\ j < i
        OBVIOUS
    <2> QED BY <1>7, <2>1 DEF StrictKeys
<1>8. CASE c.key # keys[next]
    <2>1. after = [scan EXCEPT !.claims = Append(s, c)]
        BY <1>1, <1>8 DEF RemoveOne
    <2>2. after.next = next /\ after.ok = TRUE /\ after.claims = Append(s, c)
        BY <1>1, <2>1
    <2>3. \A d \in ToSet(s) : d.key <= c.key
        BY <1>2, <1>3
    <2>4. /\ Append(s, c) \in Seq(C) /\ Sorted(Append(s, c))
          /\ \A d : d \in ToSet(Append(s, c)) <=> d = c \/ d \in ToSet(s)
        BY <1>2, <1>3, <2>3, AppendedLast
    <2>5. \A d \in ToSet(Append(s, c)) : \E j \in 1 .. i : d = self[j]
        BY <1>2, <1>3, <2>4
    <2>6. \A j \in 1 .. i : (\A k \in 1 .. next : self[j].key # keys[k]) =>
                                self[j] \in ToSet(Append(s, c))
        BY <1>2, <1>3, <2>4
    <2>7. ASSUME StrictKeys(self), Strict(keys)
          PROVE  /\ next < Len(keys) => \A j \in 1 .. i : self[j].key # keys[next]
                 /\ \A d \in ToSet(Append(s, c)) : \A k \in 1 .. next : d.key # keys[k]
        <3>1. next < Len(keys) => \A j \in 1 .. i : self[j].key # keys[next]
            BY <1>2, <1>3, <1>8, <2>7
        <3>2. \A k \in 1 .. next - 1 : c.key # keys[k]
            <4>1. \A j \in 1 .. i - 1 : self[j].key # c.key
                BY <1>2, <1>7, <2>7
            <4> QED BY <1>3, <4>1
        <3>3. \A k \in 1 .. next : c.key # keys[k]
            BY <1>6, <1>8, <3>2
        <3> QED BY <1>3, <2>4, <2>7, <3>1, <3>3
    <2>8. KeptParts(next, Append(s, c), self, keys, i)
        BY <1>4, <2>4, <2>5, <2>6, <2>7, Zenon DEF KeptParts
    <2>9. after.ok /\ KeptParts(after.next, after.claims, self, keys, i)
        <3> HIDE DEF after
        <3> QED BY <2>2, <2>8
    <2> QED BY <1>5, <2>9, Zenon DEF KeptSoFar
<1>9. CASE c.key = keys[next] /\ next = Len(keys)
    <2>1. after = scan
        BY <1>1, <1>9 DEF RemoveOne
    <2>2. \A d \in ToSet(s) : \E j \in 1 .. i : d = self[j]
        BY <1>2, <1>3
    <2>3. \A j \in 1 .. i : (\A k \in 1 .. next : self[j].key # keys[k]) => self[j] \in ToSet(s)
        BY <1>2, <1>3, <1>6, <1>9
    <2>4. ~ (next < Len(keys))
        BY <1>2, <1>9
    <2>5. KeptParts(next, s, self, keys, i)
        BY <1>3, <1>4, <2>2, <2>3, <2>4, Zenon DEF KeptParts
    <2>6. after.ok /\ KeptParts(after.next, after.claims, self, keys, i)
        <3> HIDE DEF after
        <3> QED BY <1>1, <2>1, <2>5
    <2> QED BY <1>5, <2>6, Zenon DEF KeptSoFar
<1>10. CASE c.key = keys[next] /\ next # Len(keys)
    <2>1. next + 1 \in 1 .. Len(keys) /\ next < next + 1
        BY <1>2, <1>10, SMTT(30)
    <2>2. keys[next] <= keys[next + 1]
        <3>1. next \in DOMAIN keys /\ next + 1 \in DOMAIN keys
            BY <2>1
        <3> QED BY <2>1, <3>1, Zenon DEF Ascending
    <2>3. after = [scan EXCEPT !.next = next + 1, !.ok = keys[next] <= keys[next + 1]]
        BY <1>1, <1>10 DEF RemoveOne
    <2>4. after.next = next + 1 /\ after.ok /\ after.claims = s
        BY <1>1, <2>2, <2>3, ZenonT(30)
    <2>5. /\ \A k \in 1 .. next : k \in 1 .. next + 1
          /\ \A k \in 1 .. next + 1 : k = next + 1 \/ k \in 1 .. next
          /\ \A k \in 1 .. (next + 1) - 1 : k = next \/ k \in 1 .. next - 1
          /\ next \in 1 .. next + 1
        BY <1>2
    <2>6. \A d \in ToSet(s) : \E j \in 1 .. i : d = self[j]
        BY <1>2, <1>3
    <2>7. \A j \in 1 .. i : (\A k \in 1 .. next + 1 : self[j].key # keys[k]) =>
                                self[j] \in ToSet(s)
        BY <1>2, <1>3, <1>10, <2>5
    <2>8. \A k \in 1 .. (next + 1) - 1 : \E j \in 1 .. i : self[j].key = keys[k]
        <3>1. i \in 1 .. i /\ self[i].key = keys[next]
            BY <1>2, <1>10
        <3> HIDE DEF c
        <3> QED BY <1>4, <2>5, <3>1, Zenon
    <2>9. ASSUME StrictKeys(self), Strict(keys), NEW j \in 1 .. i
          PROVE  self[j].key # keys[next + 1]
        <3>1. PICK a \in Nat, b \in Nat, v \in Nat :
                  a = keys[next] /\ b = keys[next + 1] /\ v = self[j].key
            BY <1>2, <2>1
        <3>2. a < b
            BY <2>1, <2>9, <3>1 DEF Strict
        <3>3. v <= a
            BY <1>2, <1>10, <3>1
        <3>4. v # b
            BY <3>2, <3>3
        <3> QED BY <3>1, <3>4
    <2>10. ASSUME StrictKeys(self), Strict(keys)
           PROVE  \A d \in ToSet(s) : \A k \in 1 .. next + 1 : d.key # keys[k]
        <3>1. ASSUME NEW d \in ToSet(s), NEW k \in 1 .. next + 1 PROVE d.key # keys[k]
            <4>1. PICK j \in 1 .. i : d = self[j]
                BY <2>6
            <4>2. d.key # keys[next + 1]
                BY <2>9, <2>10, <4>1
            <4>3. \A x \in 1 .. next : d.key # keys[x]
                BY <1>3, <2>10
            <4> QED BY <2>5, <4>2, <4>3
        <3> QED BY <3>1
    <2>11. KeptParts(next + 1, s, self, keys, i)
        BY <1>3, <2>6, <2>7, <2>8, <2>9, <2>10, Zenon DEF KeptParts
    <2>12. after.ok /\ KeptParts(after.next, after.claims, self, keys, i)
        <3> HIDE DEF after
        <3> QED BY <2>4, <2>11
    <2> QED BY <1>5, <2>12, Zenon DEF KeptSoFar
<1> QED
    BY <1>8, <1>9, <1>10

LEMMA RemovesAre ==
    ASSUME NEW C, KeyedSet(C), NEW self \in Seq(C), Sorted(self),
           NEW keys \in Seq(Nat), keys # <<>>, Ascending(keys)
    PROVE  \E scan : /\ KeptSoFar(scan, self, keys, Len(self), C)
                     /\ RemoveClaims(self, keys) = Edited(scan.claims)
<1>1. PICK h : /\ h[0] = RemoveStart
               /\ \A i \in 1 .. Len(self) : h[i] = RemoveOne(h[i - 1], self[i], keys)
               /\ h[Len(self)] =
                      FoldLeft(LAMBDA s, claim : RemoveOne(s, claim, keys), RemoveStart, self)
    BY RemoveSteps
<1> DEFINE T == {i \in 0 .. Len(self) : KeptSoFar(h[i], self, keys, i, C)}
<1>2. 0 \in T
    <2>1. /\ RemoveStart.ok /\ RemoveStart.next = 1 /\ RemoveStart.claims = <<>>
          /\ RemoveStart \in Removals(C, keys)
        BY DEF RemoveStart, Removals
    <2>2. KeptParts(1, <<>>, self, keys, 0)
        <3>1. ToSet(<<>>) = {} /\ Len(<<>>) = 0
            BY DEF ToSet
        <3>2. Sorted(<<>>)
            BY <3>1 DEF Sorted
        <3>3. 1 .. 0 = {} /\ 1 .. 1 - 1 = {}
            OBVIOUS
        <3> QED BY <3>1, <3>2, <3>3 DEF KeptParts
    <2>3. KeptSoFar(RemoveStart, self, keys, 0, C)
        BY <2>1, <2>2 DEF KeptSoFar
    <2>4. 0 \in 0 .. Len(self)
        OBVIOUS
    <2>5. KeptSoFar(h[0], self, keys, 0, C)
        BY <1>1, <2>3, Zenon
    <2> QED BY <2>4, <2>5, Zenon
<1>3. ASSUME NEW i \in 1 .. Len(self), i - 1 \in T PROVE i \in T
    <2>1. KeptSoFar(h[i - 1], self, keys, i - 1, C)
        BY <1>3
    <2>2. KeptSoFar(RemoveOne(h[i - 1], self[i], keys), self, keys, i, C)
        BY <2>1, KeptStep
    <2>3. h[i] = RemoveOne(h[i - 1], self[i], keys)
        BY <1>1
    <2>4. i \in 0 .. Len(self)
        OBVIOUS
    <2> QED BY <2>2, <2>3, <2>4, Zenon
<1>4. Len(self) \in T
    <2> HIDE DEF T
    <2>1. Len(self) \in Nat
        OBVIOUS
    <2>2. \A i \in 0 .. Len(self) : i \in T
        BY <1>2, <1>3, <2>1, UpTo
    <2> QED BY <2>1, <2>2
<1>5. KeptSoFar(h[Len(self)], self, keys, Len(self), C) /\ h[Len(self)].ok
    BY <1>4 DEF KeptSoFar
<1>6. RemoveClaims(self, keys) = Edited(h[Len(self)].claims)
    BY <1>1, <1>5, Zenon DEF RemoveClaims, RemoveStart
<1> QED
    BY <1>5, <1>6, Zenon

\* What is removed, in the words of the property.
RemovedUpTo(self, keys) ==
    LET left == RemoveClaims(self, keys)
        met  == {i \in DOMAIN keys : \A j \in 1..i : keys[j] \in KeysOf(self)}
        gone == {keys[i] : i \in met}
        kept == {c \in ToSet(self) : c.key \notin gone}
    IN  /\ left.ok /\ AscendingClaims(left.claims)
        /\ kept \subseteq ToSet(left.claims) /\ ToSet(left.claims) \subseteq ToSet(self)
        /\ StrictKeys(self) /\ Strict(keys) => ToSet(left.claims) = kept

LEMMA RemovedKeys ==
    ASSUME NEW C, KeyedSet(C), NEW self \in Seq(C), Sorted(self),
           NEW keys \in Seq(Nat), Ascending(keys)
    PROVE  RemovedUpTo(self, keys)
<1> DEFINE left == RemoveClaims(self, keys)
           met  == {i \in DOMAIN keys : \A j \in 1..i : keys[j] \in KeysOf(self)}
           gone == {keys[i] : i \in met}
           kept == {c \in ToSet(self) : c.key \notin gone}
<1> SUFFICES /\ left.ok /\ AscendingClaims(left.claims)
             /\ kept \subseteq ToSet(left.claims) /\ ToSet(left.claims) \subseteq ToSet(self)
             /\ StrictKeys(self) /\ Strict(keys) => ToSet(left.claims) = kept
    BY Zenon DEF RemovedUpTo
<1>1. DOMAIN keys = 1 .. Len(keys) /\ Len(keys) \in Nat
    OBVIOUS
<1>2. CASE keys = <<>>
    <2>1. AscendingClaims(self)
        BY SortedAscend
    <2>2. left = Edited(self)
        BY <1>2, <2>1 DEF RemoveClaims
    <2>3. left.ok /\ left.claims = self
        BY <2>2 DEF Edited
    <2>4. met = {}
        BY <1>1, <1>2
    <2>5. gone = {}
        <3> HIDE DEF met
        <3> QED BY <2>4
    <2>6. kept = ToSet(self)
        <3> HIDE DEF gone
        <3> QED BY <2>5
    <2> HIDE DEF kept, left
    <2> QED BY <2>1, <2>3, <2>6
<1>3. CASE keys # <<>>
    <2>1. PICK scan : /\ KeptSoFar(scan, self, keys, Len(self), C)
                      /\ left = Edited(scan.claims)
        BY <1>3, RemovesAre
    <2>2. PICK next \in 1 .. Len(keys), s \in Seq(C) :
              next = scan.next /\ s = scan.claims
        BY <2>1 DEF KeptSoFar, Removals
    <2>3. KeptParts(next, s, self, keys, Len(self)) /\ left = Edited(s)
        BY <2>1, <2>2, Zenon DEF KeptSoFar
    <2>4. left.ok /\ left.claims = s
        BY <2>3 DEF Edited
    <2>5. /\ Sorted(s)
          /\ \A d \in ToSet(s) : \E j \in 1 .. Len(self) : d = self[j]
          /\ \A j \in 1 .. Len(self) :
                 (\A k \in 1 .. next : self[j].key # keys[k]) => self[j] \in ToSet(s)
          /\ \A k \in 1 .. next - 1 : \E j \in 1 .. Len(self) : self[j].key = keys[k]
          /\ StrictKeys(self) /\ Strict(keys) =>
                 /\ next < Len(keys) => \A j \in 1 .. Len(self) : self[j].key # keys[next]
                 /\ \A d \in ToSet(s) : \A k \in 1 .. next : d.key # keys[k]
        BY <2>3, Zenon DEF KeptParts
    <2>6. AscendingClaims(s)
        BY <2>5, SortedAscend
    <2>7. \A k \in 1 .. next - 1 : keys[k] \in KeysOf(self)
        BY <2>5, KeysOfIs
    <2>8. ASSUME NEW k \in 1 .. next, keys[k] \in KeysOf(self) PROVE k \in met
        <3>1. k \in DOMAIN keys
            BY <1>1
        <3>2. \A j \in 1 .. k : keys[j] \in KeysOf(self)
            <4>1. \A j \in 1 .. k : j = k \/ j \in 1 .. next - 1
                BY <1>1
            <4> QED BY <2>7, <2>8, <4>1
        <3> QED BY <3>1, <3>2
    <2>9. ASSUME NEW d \in kept PROVE d \in ToSet(s)
        <3> HIDE DEF gone
        <3>1. PICK j \in 1 .. Len(self) : d = self[j] /\ d.key \in KeysOf(self) /\ d.key \notin gone
            <4>1. d \in ToSet(self) /\ d.key \notin gone
                BY <2>9
            <4>2. PICK j \in 1 .. Len(self) : d = self[j]
                BY <4>1, KeysOfIs
            <4> QED BY <4>1, <4>2, KeysOfIs
        <3> USE DEF gone
        <3>2. \A k \in 1 .. next : self[j].key # keys[k]
            <4> SUFFICES ASSUME NEW k \in 1 .. next, self[j].key = keys[k] PROVE FALSE
                OBVIOUS
            <4> HIDE DEF met
            <4>1. keys[k] \in KeysOf(self) /\ keys[k] \notin gone
                <5> HIDE DEF gone
                <5> QED BY <3>1
            <4>2. k \in met
                BY <2>8, <4>1
            <4> QED BY <4>1, <4>2
        <3> HIDE DEF gone
        <3>3. self[j] \in ToSet(s)
            BY <2>5, <3>2
        <3> QED BY <3>1, <3>3
    <2>10. \A d \in ToSet(s) : d \in ToSet(self)
        BY <2>5, KeysOfIs
    <2>11. ASSUME StrictKeys(self), Strict(keys), NEW d \in ToSet(s) PROVE d \in kept
        <3> SUFFICES ASSUME NEW k \in met, d.key = keys[k] PROVE FALSE
            BY <2>10
        <3>1. k \in 1 .. Len(keys) /\ \A j \in 1 .. k : keys[j] \in KeysOf(self)
            BY <1>1
        <3>2. ~ (k \in 1 .. next)
            BY <2>5, <2>11
        <3>3. next \in 1 .. k /\ next < Len(keys)
            BY <1>1, <3>1, <3>2
        <3>4. \E j \in 1 .. Len(self) : keys[next] = self[j].key
            BY <3>1, <3>3, KeysOfIs
        <3> QED BY <2>5, <2>11, <3>3, <3>4
    <2> HIDE DEF kept, left
    <2> QED BY <2>4, <2>6, <2>9, <2>10, <2>11
<1> QED
    BY <1>2, <1>3
-----------------------------------------------------------------------------
\* A list that ascends and repeats nothing ascends strictly.
LEMMA StrictList ==
    ASSUME NEW keys \in Seq(Nat), IsInjective(keys), Ascending(keys)
    PROVE  Strict(keys)
<1>1. DOMAIN keys = 1 .. Len(keys) /\ \A i \in 1 .. Len(keys) : keys[i] \in Nat
    OBVIOUS
<1>2. \A i, j \in 1 .. Len(keys) : i < j => keys[i] <= keys[j] /\ keys[i] # keys[j]
    <2>1. \A i, j \in 1 .. Len(keys) : i < j => i # j
        OBVIOUS
    <2> QED BY <1>1, <2>1 DEF IsInjective, Ascending
<1> QED BY <1>1, <1>2 DEF Strict

\* The keys of claims.
LEMMA KeysAre ==
    ASSUME NEW C, KeyedSet(C), NEW s \in Seq(C), Sorted(s)
    PROVE  LET keys == [i \in DOMAIN s |-> s[i].key]
           IN  /\ keys \in Seq(Nat) /\ DOMAIN keys = 1 .. Len(s)
               /\ \A i \in 1 .. Len(s) : keys[i] = s[i].key
               /\ Ascending(keys)
               /\ IsInjective(keys) => Strict(keys) /\ StrictKeys(s)
<1> DEFINE keys == [i \in DOMAIN s |-> s[i].key]
<1>1. keys \in [1 .. Len(s) -> Nat] /\ \A i \in 1 .. Len(s) : keys[i] = s[i].key
    BY DEF KeyedSet
<1>2. Len(s) \in Nat
    OBVIOUS
<1> HIDE DEF keys
<1>3. keys \in Seq(Nat) /\ Len(keys) = Len(s) /\ DOMAIN keys = 1 .. Len(s)
    BY <1>1, <1>2
<1>4. Ascending(keys)
    BY <1>1, <1>3 DEF Ascending, Sorted
<1>5. IsInjective(keys) => Strict(keys)
    BY <1>3, <1>4, StrictList
<1>6. Strict(keys) => StrictKeys(s)
    BY <1>1, <1>3 DEF Strict, StrictKeys
<1> QED
    BY <1>1, <1>3, <1>4, <1>5, <1>6 DEF keys

AllClaims == UNION {UNION {{new[i] : i \in 1 .. Len(new)} : new \in ClaimsFor[id]} : id \in Ids}

LEMMA StoredAre ==
    ASSUME TablesOK
    PROVE  /\ KeyedSet(AllClaims)
           /\ \A s \in Stored : s \in Seq(AllClaims) /\ Sorted(s)
<1>1. KeyedSet(AllClaims)
    BY ClaimsAssumption DEF KeyedSet, AllClaims
<1>2. ASSUME NEW s \in Stored PROVE s \in Seq(AllClaims) /\ Sorted(s)
    <2>1. PICK id \in Ids : s = claims[id] /\ s \in ClaimsFor[id] /\ AscendingClaims(s)
        BY DEF Stored, Holders, TablesOK
    <2>2. PICK n \in Nat : n = Len(s) /\ s = [i \in 1 .. n |-> Claim(s[i].key, s[i].value)]
        BY <2>1, ClaimsAssumption, ZenonT(30)
    <2>3. \A i \in 1 .. n : s[i].key \in Nat /\ s[i] \in AllClaims
        BY <2>1, <2>2, ClaimsAssumption DEF AllClaims
    <2>4. DOMAIN s = 1 .. n /\ s = [i \in 1 .. n |-> s[i]]
        BY <2>2
    <2>5. s \in [1 .. n -> AllClaims]
        BY <2>3, <2>4
    <2>6. s \in Seq(AllClaims)
        BY <2>5
    <2> QED BY <1>1, <2>1, <2>6, SortedAscend
<1> QED
    BY <1>1, <1>2

\* What EditsAgree says of two rows of claims.
EditOK(owned, other) ==
    LET keys   == [i \in DOMAIN other |-> other[i].key]
        once   == IsInjective([i \in DOMAIN owned |-> owned[i].key])
        added  == AddClaims(owned, other, TRUE)
        strict == AddClaims(owned, other, FALSE)
        left   == RemoveClaims(owned, keys)
        newest == {other[i] : i \in {j \in DOMAIN other :
                       \A k \in DOMAIN other : j < k => other[k].key # other[j].key}}
        alone  == {c \in ToSet(owned) : c.key \notin KeysOf(other)}
        met    == {i \in DOMAIN keys : \A j \in 1..i : keys[j] \in KeysOf(owned)}
        gone   == {keys[i] : i \in met}
        kept   == {c \in ToSet(owned) : c.key \notin gone}
    IN  /\ added.ok /\ AscendingClaims(added.claims)
        /\ newest \cup alone \subseteq ToSet(added.claims)
        /\ ToSet(added.claims) \subseteq ToSet(owned) \cup ToSet(other)
        /\ once => ToSet(added.claims) = newest \cup alone
        /\ IF KeysOf(other) \cap KeysOf(owned) = {} /\ IsInjective(keys)
           THEN strict = added ELSE ~ strict.ok
        /\ left.ok /\ AscendingClaims(left.claims)
        /\ kept \subseteq ToSet(left.claims) /\ ToSet(left.claims) \subseteq ToSet(owned)
        /\ once /\ IsInjective(keys) => ToSet(left.claims) = kept

(***************************************************************************)
(* EditsAgree holds for all claims, also where keys repeat: adding and     *)
(* removing claims are edits of a map, and keep the order that the         *)
(* searches rely on.                                                       *)
(***************************************************************************)
THEOREM EditsAlways == DirectorySpec => []EditsAgree
<1>1. ASSUME TablesOK, NEW owned \in Stored, NEW other \in Stored PROVE EditOK(owned, other)
    <2> DEFINE keys   == [i \in DOMAIN other |-> other[i].key]
               mine   == [i \in DOMAIN owned |-> owned[i].key]
               added  == AddClaims(owned, other, TRUE)
               strict == AddClaims(owned, other, FALSE)
               newest == {other[i] : i \in {j \in DOMAIN other :
                              \A k \in DOMAIN other : j < k => other[k].key # other[j].key}}
               alone  == {c \in ToSet(owned) : c.key \notin KeysOf(other)}
               n == Len(other)
    <2>1. PICK C : /\ KeyedSet(C)
                   /\ owned \in Seq(C) /\ Sorted(owned)
                   /\ other \in Seq(C) /\ Sorted(other)
        BY <1>1, StoredAre
    <2>2. /\ AddedSoFar(added, owned, other, n, C)
          /\ StrictSoFar(strict, added, owned, other, n, C)
        BY <2>1, AddsAre
    <2>3. DOMAIN other = 1 .. n /\ n \in Nat
        BY <2>1
    <2>4. /\ keys \in Seq(Nat) /\ DOMAIN keys = 1 .. n /\ Ascending(keys)
          /\ \A i \in 1 .. n : keys[i] = other[i].key
          /\ IsInjective(keys) => Strict(keys)
          /\ IsInjective(mine) => StrictKeys(owned)
        BY <2>1, KeysAre
    <2>5. newest = {other[j] : j \in {k \in 1 .. n : LastOfKey(other, k, n)}}
        BY <2>3, Zenon DEF LastOfKey
    <2> HIDE DEF added, strict, keys, mine, newest
    <2>6. /\ added.ok /\ added.claims \in Seq(C) /\ Sorted(added.claims)
          /\ \A d \in ToSet(added.claims) : d \in ToSet(owned) \/ \E j \in 1 .. n : d = other[j]
          /\ \A j \in 1 .. n : LastOfKey(other, j, n) => other[j] \in ToSet(added.claims)
          /\ \A d \in ToSet(owned) :
                 (\A j \in 1 .. n : d.key # other[j].key) => d \in ToSet(added.claims)
          /\ StrictKeys(owned) => \A d \in ToSet(added.claims) :
                 \/ d \in ToSet(owned) /\ \A j \in 1 .. n : d.key # other[j].key
                 \/ \E j \in 1 .. n : d = other[j] /\ LastOfKey(other, j, n)
        BY <2>2 DEF AddedSoFar, Edits
    <2>7. AscendingClaims(added.claims)
        BY <2>1, <2>6, SortedAscend
    <2>8. /\ \A d : d \in ToSet(other) <=> \E j \in 1 .. n : d = other[j]
          /\ \A k : k \in KeysOf(other) <=> \E j \in 1 .. n : k = other[j].key
        BY <2>1, KeysOfIs
    <2>9. /\ newest \cup alone \subseteq ToSet(added.claims)
          /\ ToSet(added.claims) \subseteq ToSet(owned) \cup ToSet(other)
        BY <2>5, <2>6, <2>8
    <2>10. ASSUME StrictKeys(owned) PROVE ToSet(added.claims) \subseteq newest \cup alone
        BY <2>5, <2>6, <2>8, <2>10
    <2>11. AllNew(owned, other, n) <=> KeysOf(other) \cap KeysOf(owned) = {} /\ IsInjective(keys)
        <3>1. (\A j \in 1 .. n : other[j].key \notin KeysOf(owned)) <=>
                  KeysOf(other) \cap KeysOf(owned) = {}
            BY <2>8
        <3>2. (\A j \in 1 .. n : \A k \in 1 .. n : k < j => other[k].key # other[j].key) <=>
                  IsInjective(keys)
            <4>1. \A j, k \in 1 .. n : k < j \/ j < k \/ j = k
                BY <2>3
            <4>2. \A j, k \in 1 .. n : k < j => j # k
                BY <2>3
            <4>3. ASSUME IsInjective(keys), NEW j \in 1 .. n, NEW k \in 1 .. n, k < j
                  PROVE  other[k].key # other[j].key
                <5>1. k # j /\ k \in DOMAIN keys /\ j \in DOMAIN keys
                    BY <2>4, <4>2, <4>3
                <5>2. keys[k] # keys[j]
                    BY <4>3, <5>1 DEF IsInjective
                <5> QED BY <2>4, <5>2
            <4>4. ASSUME \A j \in 1 .. n : \A k \in 1 .. n : k < j => other[k].key # other[j].key
                  PROVE  IsInjective(keys)
                <5> SUFFICES ASSUME NEW a \in 1 .. n, NEW b \in 1 .. n, keys[a] = keys[b]
                             PROVE  a = b
                    BY <2>4 DEF IsInjective
                <5>1. other[a].key = other[b].key
                    BY <2>4
                <5> QED BY <4>1, <4>4, <5>1
            <4> QED BY <4>3, <4>4
        <3> QED BY <3>1, <3>2, Zenon DEF AllNew
    <2>12. IF KeysOf(other) \cap KeysOf(owned) = {} /\ IsInjective(keys)
           THEN strict = added ELSE ~ strict.ok
        BY <2>2, <2>11, Zenon DEF StrictSoFar
    <2>13. RemovedUpTo(owned, keys)
        BY <2>1, <2>4, RemovedKeys
    <2>14. IsInjective(mine) => ToSet(added.claims) = newest \cup alone
        <3> HIDE DEF alone
        <3> QED BY <2>4, <2>9, <2>10
    <2> DEFINE left == RemoveClaims(owned, keys)
               met  == {i \in DOMAIN keys : \A j \in 1..i : keys[j] \in KeysOf(owned)}
               gone == {keys[i] : i \in met}
               kept == {c \in ToSet(owned) : c.key \notin gone}
    <2>15. /\ left.ok /\ AscendingClaims(left.claims)
           /\ kept \subseteq ToSet(left.claims) /\ ToSet(left.claims) \subseteq ToSet(owned)
           /\ StrictKeys(owned) /\ Strict(keys) => ToSet(left.claims) = kept
        BY <2>13, Zenon DEF RemovedUpTo
    <2> HIDE DEF left, kept
    <2>16. IsInjective(mine) /\ IsInjective(keys) => ToSet(left.claims) = kept
        BY <2>4, <2>15
    <2> HIDE DEF alone
    <2> QED BY <2>6, <2>7, <2>9, <2>12, <2>14, <2>15, <2>16, Zenon
             DEF EditOK, added, strict, keys, mine, newest, alone, left, kept
<1>2. TablesOK => EditsAgree
    BY <1>1, Zenon DEF EditsAgree, EditOK
<1> QED
    BY <1>2, Tables, PTL

(***************************************************************************)
(* The two searches for a subset.                                          *)
(***************************************************************************)

\* What a search answers.
Results(C) == [found : Seq(C), missing : Seq(Nat)]

LEMMA ResultsJoined ==
    ASSUME NEW C, NEW r \in Results(C), NEW s \in Results(C)
    PROVE  /\ Joined(r, s) \in Results(C)
           /\ Joined(r, s).found = r.found \o s.found
           /\ Joined(r, s).missing = r.missing \o s.missing
<1>1. /\ r.found \in Seq(C) /\ s.found \in Seq(C)
      /\ r.missing \in Seq(Nat) /\ s.missing \in Seq(Nat)
    BY DEF Results
<1>2. r.found \o s.found \in Seq(C) /\ r.missing \o s.missing \in Seq(Nat)
    BY <1>1
<1> QED BY <1>2 DEF Joined, Result, Results

LEMMA ResultsOfOne ==
    ASSUME NEW C
    PROVE  /\ Nothing \in Results(C)
           /\ Nothing.found = <<>> /\ Nothing.missing = <<>>
           /\ \A c \in C : /\ Found(c) \in Results(C)
                           /\ Found(c).found = <<c>> /\ Found(c).missing = <<>>
           /\ \A key \in Nat : /\ NotFound(key) \in Results(C)
                               /\ NotFound(key).found = <<>> /\ NotFound(key).missing = <<key>>
BY DEF Nothing, Found, NotFound, Result, Results

LEMMA ElementsJoined ==
    ASSUME NEW C, NEW s \in Seq(C), NEW t \in Seq(C)
    PROVE  ToSet(s \o t) = ToSet(s) \cup ToSet(t)
<1>1. /\ DOMAIN s = 1 .. Len(s) /\ DOMAIN t = 1 .. Len(t)
      /\ s \o t \in Seq(C) /\ Len(s \o t) = Len(s) + Len(t)
      /\ DOMAIN (s \o t) = 1 .. Len(s) + Len(t)
      /\ Len(s) \in Nat /\ Len(t) \in Nat
    OBVIOUS
<1>2. \A i \in 1 .. Len(s) : i \in 1 .. Len(s) + Len(t) /\ (s \o t)[i] = s[i]
    BY <1>1
<1>3. \A i \in 1 .. Len(t) : /\ Len(s) + i \in 1 .. Len(s) + Len(t)
                             /\ (s \o t)[Len(s) + i] = t[i]
    BY <1>1
<1>4. \A i \in 1 .. Len(s) + Len(t) :
          i \in 1 .. Len(s) \/ (i - Len(s) \in 1 .. Len(t) /\ i = Len(s) + (i - Len(s)))
    BY <1>1
<1>5. ASSUME NEW x \in ToSet(s \o t) PROVE x \in ToSet(s) \/ x \in ToSet(t)
    <2>1. PICK i \in 1 .. Len(s) + Len(t) : x = (s \o t)[i]
        BY <1>1 DEF ToSet
    <2>2. CASE i \in 1 .. Len(s)
        BY <1>1, <1>2, <2>1, <2>2 DEF ToSet
    <2>3. CASE i - Len(s) \in 1 .. Len(t) /\ i = Len(s) + (i - Len(s))
        <3>1. x = t[i - Len(s)]
            BY <1>3, <2>1, <2>3
        <3> QED BY <1>1, <2>3, <3>1 DEF ToSet
    <2> QED BY <1>4, <2>2, <2>3
<1>6. ASSUME NEW x \in ToSet(s) PROVE x \in ToSet(s \o t)
    BY <1>1, <1>2 DEF ToSet
<1>7. ASSUME NEW x \in ToSet(t) PROVE x \in ToSet(s \o t)
    BY <1>1, <1>3 DEF ToSet
<1> QED BY <1>5, <1>6, <1>7

\* What was found lies at places in J, and nothing was found twice unless it is
\* there twice.
Differ(s) == \A i, j \in 1 .. Len(s) : i # j => s[i] # s[j]

Picked(found, self, J) ==
    /\ \A i \in 1 .. Len(found) : \E j \in J : found[i] = self[j]
    /\ Differ(self) => Differ(found)

LEMMA PickedJoined ==
    ASSUME NEW C, NEW self \in Seq(C), NEW s \in Seq(C), NEW t \in Seq(C),
           NEW J \in SUBSET (1 .. Len(self)), NEW K \in SUBSET (1 .. Len(self)),
           J \cap K = {}, Picked(s, self, J), Picked(t, self, K)
    PROVE  Picked(s \o t, self, J \cup K)
<1> DEFINE n == Len(s)
           m == Len(t)
           st == s \o t
<1>1. /\ n \in Nat /\ m \in Nat /\ st \in Seq(C) /\ Len(st) = n + m
      /\ \A i \in 1 .. n : st[i] = s[i]
      /\ \A i \in 1 .. m : st[n + i] = t[i]
    OBVIOUS
<1>2. \A i \in 1 .. n + m : i \in 1 .. n \/ (i - n \in 1 .. m /\ i = n + (i - n))
    BY <1>1
<1>3. Differ(self) => \A i, j \in 1 .. Len(self) : self[i] = self[j] => i = j
    BY Zenon DEF Differ
<1> HIDE DEF n, m, st
<1>4. \A i \in 1 .. n : \E j \in J : st[i] = self[j]
    <2>1. \A i \in 1 .. n : \E j \in J : s[i] = self[j]
        BY Zenon DEF Picked, n
    <2>2. \A i \in 1 .. n : st[i] = s[i]
        BY <1>1
    <2> QED BY <2>1, <2>2
<1>5. \A i \in 1 .. n + m : i - n \in 1 .. m /\ i = n + (i - n) =>
          st[i] = t[i - n] /\ \E j \in K : st[i] = self[j]
    <2>1. \A i \in 1 .. m : \E j \in K : t[i] = self[j]
        BY Zenon DEF Picked, m
    <2> QED BY <1>1, <2>1
<1>6. \A i \in 1 .. n + m : \E j \in J \cup K : st[i] = self[j]
    BY <1>2, <1>4, <1>5
<1>7. ASSUME Differ(self), NEW i \in 1 .. n + m, NEW j \in 1 .. n + m, i # j
      PROVE  st[i] # st[j]
    <2> Differ(s) /\ Differ(t)
        BY <1>7, Zenon DEF Picked
    <2>1. CASE i \in 1 .. n /\ j \in 1 .. n
        BY <1>1, <1>7, <2>1 DEF Differ, n
    <2>2. CASE i \in 1 .. n /\ j - n \in 1 .. m /\ j = n + (j - n)
        BY <1>3, <1>4, <1>5, <1>7, <2>2
    <2>3. CASE i - n \in 1 .. m /\ i = n + (i - n) /\ j \in 1 .. n
        BY <1>3, <1>4, <1>5, <1>7, <2>3
    <2>4. CASE /\ i - n \in 1 .. m /\ i = n + (i - n)
               /\ j - n \in 1 .. m /\ j = n + (j - n)
        <3>1. i - n # j - n
            BY <1>1, <1>7
        <3>2. t[i - n] # t[j - n]
            BY <2>4, <3>1 DEF Differ, m
        <3> QED BY <1>5, <2>4, <3>2
    <2> QED BY <1>2, <2>1, <2>2, <2>3, <2>4
<1>8. Differ(self) => Differ(st)
    BY <1>1, <1>7 DEF Differ
<1> QED
    BY <1>1, <1>6, <1>8 DEF Picked, st

-----------------------------------------------------------------------------
\* A task that is not empty is split at its middle: both parts are smaller tasks.
Halves(task, half, self, subset) ==
    /\ half \in 0 .. task.n - 1
    /\ task.from + half \in 1 .. Len(subset)
    /\ task.n \in Nat /\ task.from \in Nat /\ task.left \in Nat /\ task.right \in Nat
    /\ \A k \in task.left .. task.right :
           /\ k \in 1 .. Len(self)
           /\ Task(half, task.from, task.left, k - 1) \in Tasks(self, subset)
           /\ Task(task.n - half - 1, task.from + half + 1, k + 1, task.right)
                  \in Tasks(self, subset)

LEMMA HalfIs ==
    ASSUME NEW n \in Nat \ {0}
    PROVE  n \div 2 \in 0 .. n - 1
OBVIOUS

LEMMA TaskHalves ==
    ASSUME NEW C, NEW self \in Seq(C), NEW subset \in Seq(Nat),
           NEW task \in Tasks(self, subset), task.n # 0
    PROVE  Halves(task, task.n \div 2, self, subset)
<1>1. PICK n \in Nat, from \in Nat, left \in Nat, right \in Nat, N \in Nat, M \in Nat :
          /\ N = Len(subset) /\ M = Len(self)
          /\ task.n = n /\ task.from = from /\ task.left = left /\ task.right = right
          /\ n <= N /\ n # 0 /\ from >= 1 /\ from + n <= N + 1
          /\ left >= 1 /\ left <= M + 1 /\ right <= M
    <2>1. /\ task.n \in 0 .. Len(subset) /\ task.from \in 1 .. Len(subset) + 1
          /\ task.left \in 1 .. Len(self) + 1 /\ task.right \in 0 .. Len(self)
          /\ task.from + task.n <= Len(subset) + 1
        BY DEF Tasks
    <2>2. Len(subset) \in Nat /\ Len(self) \in Nat
        OBVIOUS
    <2>3. /\ task.n \in Nat /\ task.from \in Nat /\ task.left \in Nat /\ task.right \in Nat
          /\ task.n <= Len(subset) /\ task.from >= 1 /\ task.from + task.n <= Len(subset) + 1
          /\ task.left >= 1 /\ task.left <= Len(self) + 1 /\ task.right <= Len(self)
        BY <2>1, <2>2
    <2> QED BY <2>2, <2>3
<1>2. PICK half \in Nat : half = n \div 2 /\ half <= n - 1
    <2>1. n \div 2 \in 0 .. n - 1
        BY <1>1, HalfIs
    <2> QED BY <1>1, <2>1
<1>3. /\ half \in 0 .. n - 1 /\ half \in 0 .. N /\ n - half - 1 \in 0 .. N
      /\ from + half \in 1 .. N
      /\ from \in 1 .. N + 1 /\ from + half + 1 \in 1 .. N + 1
      /\ left \in 1 .. M + 1 /\ right \in 0 .. M
      /\ from + half <= N + 1
      /\ (from + half + 1) + (n - half - 1) <= N + 1
    BY <1>1, <1>2, SMTT(30)
<1>4. \A k \in left .. right : k \in 1 .. M /\ k - 1 \in 0 .. M /\ k + 1 \in 1 .. M + 1
    BY <1>1
<1>5. ASSUME NEW k \in left .. right
      PROVE  /\ Task(half, from, left, k - 1) \in Tasks(self, subset)
             /\ Task(n - half - 1, from + half + 1, k + 1, right)
                    \in Tasks(self, subset)
    BY <1>1, <1>3, <1>4 DEF Tasks, Task
<1> QED
    BY <1>1, <1>2, <1>3, <1>4, <1>5 DEF Halves

\* A turn of the loop: nothing to look for, not found, or found at k with the
\* answers to both parts.
LEMMA SplitAtHalf ==
    ASSUME NEW C, NEW self \in Seq(C), NEW subset \in Seq(Nat),
           NEW task \in Tasks(self, subset), NEW split
    PROVE  \/ task.n = 0 /\ SplitOne(split, task, self, subset) = Nothing
           \/ \E half \in Nat :
                  /\ Halves(task, half, self, subset) /\ half = task.n \div 2 /\ task.n # 0
                  /\ \A k \in task.left .. task.right : self[k].key # subset[task.from + half]
                  /\ SplitOne(split, task, self, subset) = NotFound(subset[task.from + half])
           \/ \E half \in Nat, k \in task.left .. task.right :
                  /\ Halves(task, half, self, subset) /\ half = task.n \div 2 /\ task.n # 0
                  /\ self[k].key = subset[task.from + half]
                  /\ SplitOne(split, task, self, subset) =
                         Joined(Joined(Found(self[k]),
                                       split[Task(task.n - half - 1, task.from + half + 1,
                                                  k + 1, task.right)]),
                                split[Task(half, task.from, task.left, k - 1)])
<1> DEFINE half == task.n \div 2
           hits == Hits(self, subset[task.from + half], task.left, task.right)
           k == CHOOSE hit \in hits : TRUE
<1>1. CASE task.n = 0
    BY <1>1 DEF SplitOne
<1>2. CASE task.n # 0
    <2>1. Halves(task, half, self, subset)
        BY <1>2, TaskHalves
    <2>2. half \in Nat
        <3> HIDE DEF half
        <3> QED BY <2>1 DEF Halves
    <2>3. CASE hits = {}
        <3>1. SplitOne(split, task, self, subset) = NotFound(subset[task.from + half])
            BY <1>2, <2>3, Zenon DEF SplitOne
        <3>2. \A i \in task.left .. task.right : self[i].key # subset[task.from + half]
            <4> HIDE DEF half
            <4> QED BY <2>3 DEF Hits
        <3> QED BY <1>2, <2>1, <2>2, <3>1, <3>2, Zenon
    <2>4. CASE hits # {}
        <3>1. k \in hits
            <4> HIDE DEF hits
            <4> QED BY <2>4
        <3>2. k \in task.left .. task.right /\ self[k].key = subset[task.from + half]
            <4> HIDE DEF k, half
            <4> QED BY <3>1 DEF Hits
        <3>3. SplitOne(split, task, self, subset) =
                  Joined(Joined(Found(self[k]),
                                split[Task(task.n - half - 1, task.from + half + 1,
                                           k + 1, task.right)]),
                         split[Task(half, task.from, task.left, k - 1)])
            BY <1>2, <2>4, Zenon DEF SplitOne
        <3> HIDE DEF k, half
        <3> QED BY <1>2, <2>1, <2>2, <3>2, <3>3, Zenon DEF half
    <2> QED BY <2>3, <2>4
<1> QED BY <1>1, <1>2

-----------------------------------------------------------------------------
\* A turn uses what is answered to smaller tasks only, ...
LEMMA SplitOneSame ==
    ASSUME NEW C, NEW self \in Seq(C), NEW subset \in Seq(Nat),
           NEW task \in Tasks(self, subset), NEW g, NEW h,
           \A t \in Tasks(self, subset) : t.n < task.n => g[t] = h[t]
    PROVE  SplitOne(g, task, self, subset) = SplitOne(h, task, self, subset)
<1>1. CASE task.n = 0
    BY <1>1 DEF SplitOne
<1>2. CASE task.n # 0
    <2> DEFINE half == task.n \div 2
               hits == Hits(self, subset[task.from + half], task.left, task.right)
               k == CHOOSE hit \in hits : TRUE
               right == Task(task.n - half - 1, task.from + half + 1, k + 1, task.right)
               left == Task(half, task.from, task.left, k - 1)
    <2>1. Halves(task, half, self, subset)
        BY <1>2, TaskHalves
    <2>2. CASE hits = {}
        BY <1>2, <2>2, Zenon DEF SplitOne
    <2>3. CASE hits # {}
        <3>1. k \in task.left .. task.right
            <4>1. k \in hits
                <5> HIDE DEF hits
                <5> QED BY <2>3
            <4> HIDE DEF k, half
            <4> QED BY <4>1 DEF Hits
        <3>2. /\ left \in Tasks(self, subset) /\ right \in Tasks(self, subset)
              /\ left.n < task.n /\ right.n < task.n
            <4> HIDE DEF k, half
            <4>1. left \in Tasks(self, subset) /\ right \in Tasks(self, subset)
                BY <2>1, <3>1 DEF Halves
            <4>2. left.n = half /\ right.n = task.n - half - 1
                BY DEF Task
            <4>3. half < task.n /\ task.n - half - 1 < task.n
                BY <2>1, SMTT(30) DEF Halves
            <4> HIDE DEF left, right
            <4> QED BY <4>1, <4>2, <4>3
        <3>3. g[left] = h[left] /\ g[right] = h[right]
            <4> HIDE DEF left, right
            <4> QED BY <3>2
        <3>4. /\ SplitOne(g, task, self, subset) = Joined(Joined(Found(self[k]), g[right]), g[left])
              /\ SplitOne(h, task, self, subset) = Joined(Joined(Found(self[k]), h[right]), h[left])
            BY <1>2, <2>3, Zenon DEF SplitOne
        <3> HIDE DEF left, right, k
        <3> QED BY <3>3, <3>4
    <2> QED BY <2>2, <2>3
<1> QED BY <1>1, <1>2

\* ... and makes an answer of answers.
LEMMA SplitOneType ==
    ASSUME NEW C, NEW self \in Seq(C), NEW subset \in Seq(Nat),
           NEW task \in Tasks(self, subset),
           NEW split \in [Tasks(self, subset) -> Results(C)]
    PROVE  SplitOne(split, task, self, subset) \in Results(C)
<1>1. CASE task.n = 0 /\ SplitOne(split, task, self, subset) = Nothing
    BY <1>1, ResultsOfOne
<1>2. ASSUME NEW half \in Nat, Halves(task, half, self, subset),
             SplitOne(split, task, self, subset) = NotFound(subset[task.from + half])
      PROVE  SplitOne(split, task, self, subset) \in Results(C)
    <2>1. task.from + half \in 1 .. Len(subset)
        BY <1>2, Zenon DEF Halves
    <2>2. subset[task.from + half] \in Nat
        BY <2>1
    <2> QED BY <1>2, <2>2, ResultsOfOne
<1>3. ASSUME NEW half \in Nat, NEW k \in task.left .. task.right,
             Halves(task, half, self, subset),
             SplitOne(split, task, self, subset) =
                 Joined(Joined(Found(self[k]),
                               split[Task(task.n - half - 1, task.from + half + 1,
                                          k + 1, task.right)]),
                        split[Task(half, task.from, task.left, k - 1)])
      PROVE  SplitOne(split, task, self, subset) \in Results(C)
    <2> DEFINE right == split[Task(task.n - half - 1, task.from + half + 1, k + 1, task.right)]
               left == split[Task(half, task.from, task.left, k - 1)]
    <2>1. /\ k \in 1 .. Len(self)
          /\ Task(half, task.from, task.left, k - 1) \in Tasks(self, subset)
          /\ Task(task.n - half - 1, task.from + half + 1, k + 1, task.right)
                 \in Tasks(self, subset)
        BY <1>3, Zenon DEF Halves
    <2>2. left \in Results(C) /\ right \in Results(C) /\ self[k] \in C
        BY <2>1
    <2> HIDE DEF left, right
    <2>3. Joined(Found(self[k]), right) \in Results(C)
        BY <2>2, ResultsOfOne, ResultsJoined
    <2>4. Joined(Joined(Found(self[k]), right), left) \in Results(C)
        BY <2>2, <2>3, ResultsJoined
    <2> QED BY <1>3, <2>4 DEF left, right
<1> QED BY <1>1, <1>2, <1>3, SplitAtHalf, Zenon

\* What is answered to every task.
IsSplit(split, self, subset, C) ==
    /\ split \in [Tasks(self, subset) -> Results(C)]
    /\ \A task \in Tasks(self, subset) : split[task] = SplitOne(split, task, self, subset)

LEMMA SplitExists ==
    ASSUME NEW C, NEW self \in Seq(C), NEW subset \in Seq(Nat)
    PROVE  \E split : IsSplit(split, self, subset, C)
<1> DEFINE all == Tasks(self, subset)
           N == Len(subset)
           Is(g, m) == /\ g \in [all -> Results(C)]
                       /\ \A task \in all : task.n <= m =>
                              g[task] = SplitOne(g, task, self, subset)
           T == {m \in 0 .. N : \E g : Is(g, m)}
<1>1. N \in Nat /\ \A task \in all : task.n \in 0 .. N
    BY DEF Tasks
<1>2. 0 \in T
    <2> DEFINE g == [task \in all |-> Nothing]
    <2>1. \A task \in all : task.n <= 0 => SplitOne(g, task, self, subset) = Nothing
        <3>1. ASSUME NEW task \in all, task.n <= 0
              PROVE  SplitOne(g, task, self, subset) = Nothing
            <4>1. task.n = 0
                BY <1>1, <3>1
            <4> HIDE DEF g
            <4> QED BY <4>1 DEF SplitOne
        <3> QED BY <3>1
    <2>2. g \in [all -> Results(C)] /\ \A task \in all : g[task] = Nothing
        BY ResultsOfOne
    <2> HIDE DEF g
    <2>3. Is(g, 0)
        BY <2>1, <2>2
    <2>4. 0 \in 0 .. N
        BY <1>1
    <2> HIDE DEF Is
    <2> QED BY <2>3, <2>4
<1>3. ASSUME NEW m \in 1 .. N, m - 1 \in T PROVE m \in T
    <2>1. PICK g : Is(g, m - 1)
        BY <1>3
    <2> DEFINE h == [task \in all |-> IF task.n = m THEN SplitOne(g, task, self, subset)
                                      ELSE g[task]]
    <2>2. \A task \in all : SplitOne(g, task, self, subset) \in Results(C) /\ g[task] \in Results(C)
        BY <2>1, SplitOneType
    <2>3. /\ h \in [all -> Results(C)]
          /\ \A task \in all : /\ task.n = m => h[task] = SplitOne(g, task, self, subset)
                               /\ task.n # m => h[task] = g[task]
        BY <2>2
    <2> HIDE DEF h
    <2>4. ASSUME NEW task \in all, task.n <= m
          PROVE  h[task] = SplitOne(h, task, self, subset)
        <3>1. \A t \in all : t.n < task.n => h[t] = g[t]
            BY <1>1, <2>3, <2>4
        <3>2. SplitOne(h, task, self, subset) = SplitOne(g, task, self, subset)
            <4> HIDE DEF Is
            <4> QED BY <3>1, SplitOneSame
        <3>3. task.n = m \/ task.n <= m - 1
            BY <1>1, <2>4
        <3>4. task.n # m => h[task] = SplitOne(g, task, self, subset)
            BY <2>1, <2>3, <3>3
        <3> QED BY <2>3, <3>2, <3>4
    <2>5. Is(h, m)
        BY <2>3, <2>4
    <2> HIDE DEF Is
    <2> QED BY <2>5
<1>4. \A m \in 0 .. N : m \in T
    <2> HIDE DEF T
    <2> QED BY <1>1, <1>2, <1>3, UpTo
<1>5. PICK g : Is(g, N)
    <2>1. N \in T
        <3> HIDE DEF T
        <3> QED BY <1>1, <1>4
    <2> QED BY <2>1
<1>6. \A task \in all : task.n <= N
    BY <1>1
<1> QED
    BY <1>5, <1>6, Zenon DEF IsSplit

\* Two answers that agree turn by turn agree.
LEMMA SplitUnique ==
    ASSUME NEW C, NEW self \in Seq(C), NEW subset \in Seq(Nat), NEW g, NEW h,
           \A task \in Tasks(self, subset) :
               /\ g[task] = SplitOne(g, task, self, subset)
               /\ h[task] = SplitOne(h, task, self, subset)
    PROVE  \A task \in Tasks(self, subset) : g[task] = h[task]
<1> DEFINE N == Len(subset)
           all == Tasks(self, subset)
           T == {m \in 0 .. N : \A task \in all : task.n <= m => g[task] = h[task]}
<1>1. N \in Nat /\ \A task \in all : task.n \in 0 .. N
    BY DEF Tasks
<1> HIDE DEF N, all
<1>2. 0 \in T
    <2>1. ASSUME NEW task \in all, task.n <= 0 PROVE g[task] = h[task]
        <3>1. task.n = 0
            BY <1>1, <2>1
        <3>2. SplitOne(g, task, self, subset) = Nothing /\ SplitOne(h, task, self, subset) = Nothing
            BY <3>1 DEF SplitOne
        <3> QED BY <3>2 DEF all
    <2>2. 0 \in 0 .. N
        BY <1>1
    <2> QED BY <2>1, <2>2
<1>3. ASSUME NEW m \in 1 .. N, m - 1 \in T PROVE m \in T
    <2>1. ASSUME NEW task \in all, task.n <= m PROVE g[task] = h[task]
        <3>1. \A t \in all : t.n < task.n => t.n <= m - 1
            BY <1>1, <2>1
        <3>2. \A t \in all : t.n < task.n => g[t] = h[t]
            BY <1>3, <3>1
        <3>3. SplitOne(g, task, self, subset) = SplitOne(h, task, self, subset)
            BY <3>2, SplitOneSame DEF all
        <3> QED BY <3>3 DEF all
    <2>2. m \in 0 .. N
        BY <1>1
    <2> QED BY <2>1, <2>2
<1>4. \A m \in 0 .. N : m \in T
    <2> HIDE DEF T
    <2> QED BY <1>1, <1>2, <1>3, UpTo
<1>5. N \in T
    <2> HIDE DEF T
    <2> QED BY <1>1, <1>4
<1>6. \A task \in all : task.n <= N
    BY <1>1
<1> QED
    BY <1>5, <1>6 DEF all

LEMMA SplitIs ==
    ASSUME NEW C, NEW self \in Seq(C), NEW subset \in Seq(Nat)
    PROVE  \E split : /\ IsSplit(split, self, subset, C)
                      /\ SubsetBinarySplit(self, subset) = split[Task(Len(subset), 1, 1, Len(self))]
<1> DEFINE Step(g) == [task \in Tasks(self, subset) |-> SplitOne(g, task, self, subset)]
           split == CHOOSE g : g = Step(g)
<1>1. PICK g : IsSplit(g, self, subset, C)
    BY SplitExists
<1>2. g = Step(g)
    BY <1>1 DEF IsSplit
<1>3. split = Step(split)
    <2> HIDE DEF Step
    <2> QED BY <1>2
<1>4. SubsetBinarySplit(self, subset) = split[Task(Len(subset), 1, 1, Len(self))]
    BY DEF SubsetBinarySplit
<1> HIDE DEF split
<1>5. /\ DOMAIN split = Tasks(self, subset)
      /\ \A task \in Tasks(self, subset) : split[task] = SplitOne(split, task, self, subset)
    <2>1. /\ DOMAIN Step(split) = Tasks(self, subset)
          /\ \A task \in Tasks(self, subset) :
                 Step(split)[task] = SplitOne(split, task, self, subset)
        OBVIOUS
    <2> HIDE DEF Step
    <2> QED BY <1>3, <2>1
<1>6. \A task \in Tasks(self, subset) : split[task] = g[task]
    BY <1>1, <1>5, SplitUnique DEF IsSplit
<1>7. split \in [Tasks(self, subset) -> Results(C)]
    <2>1. split = [task \in Tasks(self, subset) |-> split[task]]
        <3>1. Step(split) = [task \in Tasks(self, subset) |-> Step(split)[task]]
            OBVIOUS
        <3> HIDE DEF Step
        <3> QED BY <1>3, <3>1
    <2>2. \A task \in Tasks(self, subset) : split[task] \in Results(C)
        BY <1>1, <1>6 DEF IsSplit
    <2> QED BY <2>1, <2>2
<1>8. IsSplit(split, self, subset, C)
    BY <1>5, <1>7 DEF IsSplit
<1> QED
    BY <1>4, <1>8

-----------------------------------------------------------------------------
\* An answer where the keys at the places Q are looked for among the claims at J:
\* claims at J, each once, that were asked for.
AnswerOK(r, Q, J, self, subset, C) ==
    /\ r \in Results(C)
    /\ Picked(r.found, self, J)
    /\ \A c \in ToSet(r.found) : \E q \in Q : c.key = subset[q]

\* If those that are there at all are at J, what is reported missing is, and
\* nothing is left out where all are there.
WellPlaced(Q, J, self, subset) ==
    \A q \in Q : subset[q] \in KeysOf(self) => \E j \in J : self[j].key = subset[q]

CompleteOK(r, Q, J, self, subset) ==
    WellPlaced(Q, J, self, subset) =>
        /\ \A key \in ToSet(r.missing) : key \notin KeysOf(self)
        /\ (\A q \in Q : subset[q] \in KeysOf(self)) =>
               \A q \in Q : \E c \in ToSet(r.found) : c.key = subset[q]

LEMMA ElementsOfOne ==
    /\ ToSet(<<>>) = {}
    /\ \A x : ToSet(<<x>>) = {x}
<1>1. DOMAIN <<>> = 1 .. 0
    OBVIOUS
<1>2. \A x : DOMAIN <<x>> = {1} /\ <<x>>[1] = x
    OBVIOUS
<1> QED BY <1>1, <1>2 DEF ToSet

LEMMA PickedOne ==
    ASSUME NEW C, NEW self \in Seq(C), NEW J
    PROVE  /\ Picked(<<>>, self, J)
           /\ \A k : Picked(<<self[k]>>, self, {k})
<1>1. Len(<<>>) = 0 /\ 1 .. 0 = {}
    OBVIOUS
<1>2. \A x : Len(<<x>>) = 1 /\ <<x>>[1] = x
    OBVIOUS
<1>3. 1 .. 1 = {1}
    OBVIOUS
<1> QED BY <1>1, <1>2, <1>3 DEF Picked, Differ

\* What was found and missed in the order middle, right part, left part.
Parts(r, c, a, b, C) ==
    /\ r \in Results(C)
    /\ ToSet(r.found) = {c} \cup ToSet(b.found) \cup ToSet(a.found)
    /\ ToSet(r.missing) = ToSet(b.missing) \cup ToSet(a.missing)

LEMMA ThreeParts ==
    ASSUME NEW C, KeyedSet(C), NEW self \in Seq(C), Sorted(self),
           NEW left \in Nat \ {0}, NEW right \in 0 .. Len(self), NEW k \in left .. right,
           NEW a \in Results(C), Picked(a.found, self, left .. k - 1),
           NEW b \in Results(C), Picked(b.found, self, k + 1 .. right)
    PROVE  /\ Parts(Joined(Joined(Found(self[k]), b), a), self[k], a, b, C)
           /\ Picked(Joined(Joined(Found(self[k]), b), a).found, self, left .. right)
<1> DEFINE one == Found(self[k])
           two == Joined(one, b)
           three == Joined(two, a)
           J == k + 1 .. right
           K == left .. k - 1
<1>1. k \in 1 .. Len(self) /\ self[k] \in C
    <2>1. k \in 1 .. Len(self)
        OBVIOUS
    <2> QED BY <2>1
<1>2. one \in Results(C) /\ one.found = <<self[k]>> /\ one.missing = <<>>
    BY <1>1, ResultsOfOne
<1> HIDE DEF one
<1>3. /\ two \in Results(C)
      /\ two.found = one.found \o b.found /\ two.missing = one.missing \o b.missing
    BY <1>2, ResultsJoined
<1> HIDE DEF two
<1>4. /\ three \in Results(C)
      /\ three.found = two.found \o a.found /\ three.missing = two.missing \o a.missing
    BY <1>3, ResultsJoined
<1> HIDE DEF three
<1>5. /\ one.found \in Seq(C) /\ two.found \in Seq(C)
      /\ a.found \in Seq(C) /\ b.found \in Seq(C)
      /\ one.missing \in Seq(Nat) /\ two.missing \in Seq(Nat)
      /\ a.missing \in Seq(Nat) /\ b.missing \in Seq(Nat)
    BY <1>2, <1>3 DEF Results
<1>6. /\ ToSet(one.found) = {self[k]} /\ ToSet(one.missing) = {}
    BY <1>2, ElementsOfOne
<1>7. /\ ToSet(one.found \o b.found) = ToSet(one.found) \cup ToSet(b.found)
      /\ ToSet(two.found \o a.found) = ToSet(two.found) \cup ToSet(a.found)
    BY <1>5, ElementsJoined, SMTT(30)
<1>8. /\ ToSet(one.missing \o b.missing) = ToSet(one.missing) \cup ToSet(b.missing)
      /\ ToSet(two.missing \o a.missing) = ToSet(two.missing) \cup ToSet(a.missing)
    BY <1>5, ElementsJoined
<1>9. Parts(three, self[k], a, b, C)
    <2>1. ToSet(three.found) = {self[k]} \cup ToSet(b.found) \cup ToSet(a.found)
        BY <1>3, <1>4, <1>6, <1>7
    <2>2. ToSet(three.missing) = ToSet(b.missing) \cup ToSet(a.missing)
        BY <1>3, <1>4, <1>6, <1>8
    <2> QED BY <1>4, <2>1, <2>2 DEF Parts
<1>10. /\ {k} \in SUBSET (1 .. Len(self)) /\ J \in SUBSET (1 .. Len(self))
       /\ K \in SUBSET (1 .. Len(self))
       /\ {k} \cup J \in SUBSET (1 .. Len(self))
       /\ {k} \cap J = {} /\ ({k} \cup J) \cap K = {}
       /\ ({k} \cup J) \cup K = left .. right
    OBVIOUS
<1> HIDE DEF J, K
<1>11. Picked(one.found, self, {k})
    BY <1>2, PickedOne
<1>12. Picked(one.found \o b.found, self, {k} \cup J)
    <2>1. Picked(b.found, self, J)
        BY DEF J
    <2> QED BY <1>5, <1>10, <1>11, <2>1, PickedJoined
<1>13. Picked(two.found \o a.found, self, ({k} \cup J) \cup K)
    <2>1. Picked(a.found, self, K)
        BY DEF K
    <2>2. Picked(two.found, self, {k} \cup J)
        BY <1>3, <1>12
    <2> QED BY <1>5, <1>10, <2>1, <2>2, PickedJoined
<1>14. Picked(three.found, self, left .. right)
    BY <1>4, <1>10, <1>13
<1> QED
    BY <1>9, <1>14 DEF three, two, one

-----------------------------------------------------------------------------
\* The middle of the keys splits the claims: what is sought before it is found
\* before the claim it is found at, and behind it behind.
LEMMA FoundAnswer ==
    ASSUME NEW C, KeyedSet(C), NEW self \in Seq(C), Sorted(self), NEW subset \in Seq(Nat),
           NEW left \in Nat \ {0}, NEW right \in 0 .. Len(self), NEW k \in left .. right,
           NEW m, self[k].key = subset[m], NEW P, NEW Q,
           NEW a, AnswerOK(a, P, left .. k - 1, self, subset, C),
           NEW b, AnswerOK(b, Q, k + 1 .. right, self, subset, C)
    PROVE  /\ AnswerOK(Joined(Joined(Found(self[k]), b), a), P \cup {m} \cup Q,
                       left .. right, self, subset, C)
           /\ Parts(Joined(Joined(Found(self[k]), b), a), self[k], a, b, C)
<1> DEFINE r == Joined(Joined(Found(self[k]), b), a)
<1>1. /\ a \in Results(C) /\ Picked(a.found, self, left .. k - 1)
      /\ \A c \in ToSet(a.found) : \E q \in P : c.key = subset[q]
    BY Zenon DEF AnswerOK
<1>2. /\ b \in Results(C) /\ Picked(b.found, self, k + 1 .. right)
      /\ \A c \in ToSet(b.found) : \E q \in Q : c.key = subset[q]
    BY Zenon DEF AnswerOK
<1>3. Parts(r, self[k], a, b, C) /\ Picked(r.found, self, left .. right)
    BY <1>1, <1>2, ThreeParts
<1> HIDE DEF r
<1>4. \A c \in ToSet(r.found) : \E q \in P \cup {m} \cup Q : c.key = subset[q]
    <2>1. \A c \in ToSet(r.found) : c = self[k] \/ c \in ToSet(b.found) \/ c \in ToSet(a.found)
        BY <1>3, Zenon DEF Parts
    <2> QED BY <1>1, <1>2, <2>1, Zenon
<1>5. AnswerOK(r, P \cup {m} \cup Q, left .. right, self, subset, C)
    BY <1>3, <1>4, Zenon DEF AnswerOK, Parts
<1> QED
    BY <1>3, <1>5 DEF r

LEMMA FoundComplete ==
    ASSUME NEW C, KeyedSet(C), NEW self \in Seq(C), Sorted(self),
           NEW subset \in Seq(Nat), Strict(subset),
           NEW left \in Nat \ {0}, NEW right \in 0 .. Len(self), NEW k \in left .. right,
           NEW m \in 1 .. Len(subset), self[k].key = subset[m],
           NEW P \in SUBSET (1 .. m - 1), NEW Q \in SUBSET (m + 1 .. Len(subset)),
           NEW r, NEW a, NEW b, Parts(r, self[k], a, b, C),
           CompleteOK(a, P, left .. k - 1, self, subset),
           CompleteOK(b, Q, k + 1 .. right, self, subset)
    PROVE  CompleteOK(r, P \cup {m} \cup Q, left .. right, self, subset)
<1> DEFINE all == P \cup {m} \cup Q
<1> SUFFICES ASSUME WellPlaced(all, left .. right, self, subset)
             PROVE  /\ \A key \in ToSet(r.missing) : key \notin KeysOf(self)
                    /\ (\A q \in all : subset[q] \in KeysOf(self)) =>
                           \A q \in all : \E c \in ToSet(r.found) : c.key = subset[q]
    BY Zenon DEF CompleteOK
<1>1. \A j \in left .. right : j \in 1 .. Len(self) /\ self[j].key \in Nat
    <2>1. \A j \in left .. right : j \in 1 .. Len(self)
        OBVIOUS
    <2>2. \A j \in 1 .. Len(self) : self[j] \in C
        OBVIOUS
    <2> QED BY <2>1, <2>2 DEF KeyedSet
<1>2. /\ \A q \in P : subset[q] < subset[m]
      /\ \A q \in Q : subset[m] < subset[q]
      /\ \A q \in 1 .. Len(subset) : subset[q] \in Nat
      /\ \A q \in all : q \in 1 .. Len(subset)
    <2>1. \A q \in P : q \in 1 .. Len(subset) /\ q < m
        OBVIOUS
    <2>2. \A q \in Q : q \in 1 .. Len(subset) /\ m < q
        OBVIOUS
    <2>3. \A q \in 1 .. Len(subset) : subset[q] \in Nat
        BY SMTT(30)
    <2> QED BY <2>1, <2>2, <2>3 DEF Strict
<1>3. \A j \in left .. right : /\ j < k => self[j].key <= self[k].key
                               /\ k < j => self[k].key <= self[j].key
                               /\ j < k \/ j = k \/ k < j
    BY <1>1 DEF Sorted
<1>4. \A q \in all : subset[q] \in KeysOf(self) =>
          \E j \in left .. right : self[j].key = subset[q]
    BY Zenon DEF WellPlaced
<1>5. WellPlaced(P, left .. k - 1, self, subset)
    <2> SUFFICES ASSUME NEW q \in P, subset[q] \in KeysOf(self)
                 PROVE  \E j \in left .. k - 1 : self[j].key = subset[q]
        BY Zenon DEF WellPlaced
    <2>1. PICK j \in left .. right : self[j].key = subset[q]
        BY <1>4
    <2>2. PICK x \in Nat, y \in Nat : x = self[j].key /\ y = self[k].key
        BY <1>1
    <2>3. x < y
        BY <1>2, <2>1, <2>2
    <2>4. ~ (k < j) /\ j # k
        <3>1. k < j => y <= x
            BY <1>3, <2>2
        <3>2. j = k => x = y
            BY <2>2
        <3>3. ~ (y <= x) /\ x # y
            BY <2>3
        <3> QED BY <3>1, <3>2, <3>3, Zenon
    <2>5. j \in left .. k - 1
        BY <1>3, <2>4
    <2> QED BY <2>1, <2>5
<1>6. WellPlaced(Q, k + 1 .. right, self, subset)
    <2> SUFFICES ASSUME NEW q \in Q, subset[q] \in KeysOf(self)
                 PROVE  \E j \in k + 1 .. right : self[j].key = subset[q]
        BY Zenon DEF WellPlaced
    <2>1. PICK j \in left .. right : self[j].key = subset[q]
        BY <1>4
    <2>2. PICK x \in Nat, y \in Nat : x = self[j].key /\ y = self[k].key
        BY <1>1
    <2>3. y < x
        BY <1>2, <2>1, <2>2
    <2>4. ~ (j < k) /\ j # k
        <3>1. j < k => x <= y
            BY <1>3, <2>2
        <3>2. j = k => x = y
            BY <2>2
        <3>3. ~ (x <= y) /\ x # y
            BY <2>3
        <3> QED BY <3>1, <3>2, <3>3, Zenon
    <2>5. j \in k + 1 .. right
        BY <1>3, <2>4
    <2> QED BY <2>1, <2>5
<1>7. /\ \A key \in ToSet(a.missing) : key \notin KeysOf(self)
      /\ (\A q \in P : subset[q] \in KeysOf(self)) =>
             \A q \in P : \E c \in ToSet(a.found) : c.key = subset[q]
    BY <1>5, Zenon DEF CompleteOK
<1>8. /\ \A key \in ToSet(b.missing) : key \notin KeysOf(self)
      /\ (\A q \in Q : subset[q] \in KeysOf(self)) =>
             \A q \in Q : \E c \in ToSet(b.found) : c.key = subset[q]
    BY <1>6, Zenon DEF CompleteOK
<1>9. /\ ToSet(r.found) = {self[k]} \cup ToSet(b.found) \cup ToSet(a.found)
      /\ ToSet(r.missing) = ToSet(b.missing) \cup ToSet(a.missing)
    BY Zenon DEF Parts
<1> QED
    BY <1>7, <1>8, <1>9

-----------------------------------------------------------------------------
\* The places of the keys that a task looks for, and of the claims it looks at.
Sought(task) == task.from .. task.from + task.n - 1
Reach(task) == task.left .. task.right

TaskOK(split, task, self, subset, C) ==
    /\ AnswerOK(split[task], Sought(task), Reach(task), self, subset, C)
    /\ Strict(subset) => CompleteOK(split[task], Sought(task), Reach(task), self, subset)

LEMMA IntervalHalves ==
    ASSUME NEW n \in Nat, NEW from \in Nat, NEW half \in Nat, NEW N \in Nat,
           half <= n - 1, from >= 1, from + n <= N + 1
    PROVE  /\ from .. from + n - 1 =
                  (from .. from + half - 1) \cup {from + half}
                      \cup ((from + half + 1) .. (from + half + 1) + (n - half - 1) - 1)
           /\ (from .. from + half - 1) \in SUBSET (1 .. (from + half) - 1)
           /\ ((from + half + 1) .. (from + half + 1) + (n - half - 1) - 1)
                  \in SUBSET ((from + half) + 1 .. N)
<1>1. \A i : i \in from .. from + n - 1 <=>
             \/ i \in from .. from + half - 1
             \/ i = from + half
             \/ i \in (from + half + 1) .. (from + half + 1) + (n - half - 1) - 1
    OBVIOUS
<1>2. \A i \in from .. from + half - 1 : i \in 1 .. (from + half) - 1
    OBVIOUS
<1>3. \A i \in (from + half + 1) .. (from + half + 1) + (n - half - 1) - 1 :
          i \in (from + half) + 1 .. N
    OBVIOUS
<1> QED BY <1>1, <1>2, <1>3

\* Both parts of a task, by numbers.
LEMMA PartsOfTask ==
    ASSUME NEW C, NEW self \in Seq(C), NEW subset \in Seq(Nat),
           NEW task \in Tasks(self, subset), NEW half \in Nat,
           Halves(task, half, self, subset), NEW k \in Reach(task)
    PROVE  LET a == Task(half, task.from, task.left, k - 1)
               b == Task(task.n - half - 1, task.from + half + 1, k + 1, task.right)
               m == task.from + half
           IN  /\ a \in Tasks(self, subset) /\ b \in Tasks(self, subset)
               /\ a.n < task.n /\ b.n < task.n
               /\ Reach(a) = task.left .. k - 1 /\ Reach(b) = k + 1 .. task.right
               /\ Sought(task) = Sought(a) \cup {m} \cup Sought(b)
               /\ Sought(a) \in SUBSET (1 .. m - 1)
               /\ Sought(b) \in SUBSET (m + 1 .. Len(subset))
               /\ m \in 1 .. Len(subset)
               /\ task.left \in Nat \ {0} /\ task.right \in 0 .. Len(self)
<1> DEFINE a == Task(half, task.from, task.left, k - 1)
           b == Task(task.n - half - 1, task.from + half + 1, k + 1, task.right)
<1>1. /\ half \in 0 .. task.n - 1 /\ task.from + half \in 1 .. Len(subset)
      /\ task.n \in Nat /\ task.from \in Nat /\ task.left \in Nat /\ task.right \in Nat
      /\ a \in Tasks(self, subset) /\ b \in Tasks(self, subset)
    BY Zenon DEF Halves, Reach
<1>2. /\ a.n = half /\ a.from = task.from /\ a.left = task.left /\ a.right = k - 1
      /\ b.n = task.n - half - 1 /\ b.from = task.from + half + 1
      /\ b.left = k + 1 /\ b.right = task.right
    BY DEF Task
<1> HIDE DEF a, b
<1>3. PICK n \in Nat, from \in Nat, N \in Nat :
          /\ n = task.n /\ from = task.from /\ N = Len(subset)
          /\ half <= n - 1 /\ from >= 1 /\ from + n <= N + 1
    <2>1. /\ task.from \in 1 .. Len(subset) + 1 /\ task.from + task.n <= Len(subset) + 1
          /\ Len(subset) \in Nat
        BY DEF Tasks
    <2> QED BY <1>1, <2>1
<1>4. /\ Sought(a) = from .. from + half - 1
      /\ Sought(b) = (from + half + 1) .. (from + half + 1) + (n - half - 1) - 1
      /\ Sought(task) = from .. from + n - 1
    BY <1>2, <1>3 DEF Sought
<1>5. /\ from .. from + n - 1 =
             (from .. from + half - 1) \cup {from + half}
                 \cup ((from + half + 1) .. (from + half + 1) + (n - half - 1) - 1)
      /\ (from .. from + half - 1) \in SUBSET (1 .. (from + half) - 1)
      /\ ((from + half + 1) .. (from + half + 1) + (n - half - 1) - 1)
             \in SUBSET ((from + half) + 1 .. N)
    BY <1>3, IntervalHalves
<1>6. a.n < task.n /\ b.n < task.n
    <2>1. half < n /\ n - half - 1 < n
        BY <1>3, SMTT(30)
    <2>2. a.n = half /\ b.n = n - half - 1 /\ task.n = n
        BY <1>2, <1>3, Zenon
    <2> QED BY <2>1, <2>2, Zenon
<1>7. Reach(a) = task.left .. k - 1 /\ Reach(b) = k + 1 .. task.right
    BY <1>2 DEF Reach
<1>8. task.left \in Nat \ {0} /\ task.right \in 0 .. Len(self)
    BY DEF Tasks
<1>9. /\ Sought(task) = Sought(a) \cup {task.from + half} \cup Sought(b)
      /\ Sought(a) \in SUBSET (1 .. (task.from + half) - 1)
      /\ Sought(b) \in SUBSET ((task.from + half) + 1 .. Len(subset))
    BY <1>3, <1>4, <1>5
<1> QED
    BY <1>1, <1>6, <1>7, <1>8, <1>9, Zenon DEF a, b

\* A task is answered well where smaller ones are.
LEMMA SplitStep ==
    ASSUME NEW C, KeyedSet(C), NEW self \in Seq(C), Sorted(self), NEW subset \in Seq(Nat),
           NEW split, IsSplit(split, self, subset, C), NEW task \in Tasks(self, subset),
           \A t \in Tasks(self, subset) : t.n < task.n => TaskOK(split, t, self, subset, C)
    PROVE  TaskOK(split, task, self, subset, C)
<1>1. split[task] = SplitOne(split, task, self, subset)
    BY Zenon DEF IsSplit
<1>2. CASE task.n = 0 /\ SplitOne(split, task, self, subset) = Nothing
    <2>1. /\ split[task] \in Results(C)
          /\ split[task].found = <<>> /\ split[task].missing = <<>>
        BY <1>1, <1>2, ResultsOfOne
    <2>2. Sought(task) = {}
        <3>1. task.from \in Nat
            BY DEF Tasks
        <3> QED BY <1>2, <3>1 DEF Sought
    <2>3. Picked(split[task].found, self, Reach(task))
        BY <2>1, PickedOne
    <2>4. ToSet(split[task].found) = {} /\ ToSet(split[task].missing) = {}
        BY <2>1, ElementsOfOne
    <2> QED BY <2>1, <2>2, <2>3, <2>4 DEF TaskOK, AnswerOK, CompleteOK
<1>3. ASSUME NEW half \in Nat, Halves(task, half, self, subset), task.n # 0,
             \A k \in task.left .. task.right : self[k].key # subset[task.from + half],
             SplitOne(split, task, self, subset) = NotFound(subset[task.from + half])
      PROVE  TaskOK(split, task, self, subset, C)
    <2> DEFINE m == task.from + half
    <2>1. /\ m \in 1 .. Len(subset) /\ subset[m] \in Nat
          /\ half \in 0 .. task.n - 1 /\ task.from \in Nat /\ task.n \in Nat
        BY <1>3, SMTT(30) DEF Halves
    <2>2. m \in Sought(task)
        BY <2>1 DEF Sought
    <2> HIDE DEF m
    <2>3. /\ split[task] \in Results(C)
          /\ split[task].found = <<>> /\ split[task].missing = <<subset[m]>>
        BY <1>1, <1>3, <2>1, ResultsOfOne DEF m
    <2>4. Picked(split[task].found, self, Reach(task))
        BY <2>3, PickedOne
    <2>5. ToSet(split[task].found) = {} /\ ToSet(split[task].missing) = {subset[m]}
        BY <2>3, ElementsOfOne
    <2>6. WellPlaced(Sought(task), Reach(task), self, subset) => subset[m] \notin KeysOf(self)
        BY <1>3, <2>2 DEF WellPlaced, Reach, m
    <2>7. CompleteOK(split[task], Sought(task), Reach(task), self, subset)
        BY <2>2, <2>5, <2>6 DEF CompleteOK
    <2> QED BY <2>3, <2>4, <2>5, <2>7 DEF TaskOK, AnswerOK
<1>4. ASSUME NEW half \in Nat, NEW k \in task.left .. task.right,
             Halves(task, half, self, subset),
             self[k].key = subset[task.from + half],
             SplitOne(split, task, self, subset) =
                 Joined(Joined(Found(self[k]),
                               split[Task(task.n - half - 1, task.from + half + 1,
                                          k + 1, task.right)]),
                        split[Task(half, task.from, task.left, k - 1)])
      PROVE  TaskOK(split, task, self, subset, C)
    <2> DEFINE a == Task(half, task.from, task.left, k - 1)
               b == Task(task.n - half - 1, task.from + half + 1, k + 1, task.right)
               m == task.from + half
    <2>1. /\ a \in Tasks(self, subset) /\ b \in Tasks(self, subset)
          /\ a.n < task.n /\ b.n < task.n
          /\ Reach(a) = task.left .. k - 1 /\ Reach(b) = k + 1 .. task.right
          /\ Sought(task) = Sought(a) \cup {m} \cup Sought(b)
          /\ Sought(a) \in SUBSET (1 .. m - 1)
          /\ Sought(b) \in SUBSET (m + 1 .. Len(subset))
          /\ m \in 1 .. Len(subset)
          /\ task.left \in Nat \ {0} /\ task.right \in 0 .. Len(self)
        <3>1. k \in Reach(task)
            BY DEF Reach
        <3> QED BY <1>4, <3>1, PartsOfTask
    <2>2. self[k].key = subset[m] /\ split[task] = Joined(Joined(Found(self[k]), split[b]), split[a])
        BY <1>1, <1>4
    <2> HIDE DEF a, b, m
    <2>3. TaskOK(split, a, self, subset, C) /\ TaskOK(split, b, self, subset, C)
        BY <2>1
    <2>4. /\ AnswerOK(split[a], Sought(a), task.left .. k - 1, self, subset, C)
          /\ AnswerOK(split[b], Sought(b), k + 1 .. task.right, self, subset, C)
        BY <2>1, <2>3 DEF TaskOK
    <2>5. /\ AnswerOK(split[task], Sought(task), Reach(task), self, subset, C)
          /\ Parts(split[task], self[k], split[a], split[b], C)
        <3>1. /\ AnswerOK(Joined(Joined(Found(self[k]), split[b]), split[a]),
                          Sought(a) \cup {m} \cup Sought(b),
                          task.left .. task.right, self, subset, C)
              /\ Parts(Joined(Joined(Found(self[k]), split[b]), split[a]),
                       self[k], split[a], split[b], C)
            BY <2>1, <2>2, <2>4, FoundAnswer
        <3> QED BY <2>1, <2>2, <3>1 DEF Reach
    <2>6. ASSUME Strict(subset)
          PROVE  CompleteOK(split[task], Sought(task), Reach(task), self, subset)
        <3>1. /\ CompleteOK(split[a], Sought(a), task.left .. k - 1, self, subset)
              /\ CompleteOK(split[b], Sought(b), k + 1 .. task.right, self, subset)
            BY <2>1, <2>3, <2>6 DEF TaskOK
        <3>2. CompleteOK(split[task], Sought(a) \cup {m} \cup Sought(b),
                         task.left .. task.right, self, subset)
            BY <2>1, <2>2, <2>5, <2>6, <3>1, FoundComplete
        <3> QED BY <2>1, <3>2 DEF Reach
    <2> QED BY <2>5, <2>6 DEF TaskOK
<1> QED BY <1>2, <1>3, <1>4, SplitAtHalf, Zenon

LEMMA SplitAnswers ==
    ASSUME NEW C, KeyedSet(C), NEW self \in Seq(C), Sorted(self), NEW subset \in Seq(Nat),
           NEW split, IsSplit(split, self, subset, C)
    PROVE  \A task \in Tasks(self, subset) : TaskOK(split, task, self, subset, C)
<1> DEFINE N == Len(subset)
           all == Tasks(self, subset)
           T == {i \in 0 .. N : \A task \in all :
                     task.n <= i => TaskOK(split, task, self, subset, C)}
<1>1. N \in Nat /\ \A task \in all : task.n \in 0 .. N
    BY DEF Tasks
<1> HIDE DEF N
<1>2. 0 \in T
    <2>1. ASSUME NEW task \in all, task.n <= 0 PROVE TaskOK(split, task, self, subset, C)
        <3>1. \A t \in all : ~ (t.n < task.n)
            BY <1>1, <2>1
        <3> QED BY <3>1, SplitStep
    <2>2. 0 \in 0 .. N
        BY <1>1
    <2> HIDE DEF all
    <2> QED BY <2>1, <2>2
<1>3. ASSUME NEW i \in 1 .. N, i - 1 \in T PROVE i \in T
    <2>1. ASSUME NEW task \in all, task.n <= i PROVE TaskOK(split, task, self, subset, C)
        <3>1. \A t \in all : t.n < task.n => t.n <= i - 1
            BY <1>1, <2>1
        <3>2. \A t \in all : t.n < task.n => TaskOK(split, t, self, subset, C)
            BY <1>3, <3>1
        <3> QED BY <3>2, SplitStep
    <2>2. i \in 0 .. N
        BY <1>1
    <2> HIDE DEF all
    <2> QED BY <2>1, <2>2
<1>4. \A i \in 0 .. N : i \in T
    <2> HIDE DEF T
    <2> QED BY <1>1, <1>2, <1>3, UpTo
<1>5. N \in T
    <2> HIDE DEF T
    <2> QED BY <1>1, <1>4
<1>6. \A task \in all : task.n <= N
    BY <1>1
<1> QED
    BY <1>5, <1>6

-----------------------------------------------------------------------------
\* The states of the loop of subset_linear, and the first.
LinearScans(C, subset) == [next : 1 .. Len(subset) + 1, result : Results(C)]
LinearStart == [next |-> 1, result |-> Nothing]

\* A turn, by what it looks at.
Turned(scan, t, c, subset) ==
    \/ scan.next > Len(subset) /\ t = scan
    \/ /\ scan.next <= Len(subset) /\ c.key = subset[scan.next]
       /\ t.next = scan.next + 1 /\ t.result = Joined(scan.result, Found(c))
    \/ /\ scan.next <= Len(subset) /\ c.key > subset[scan.next]
       /\ t.next = scan.next /\ t.result = Joined(scan.result, NotFound(subset[scan.next]))
    \/ scan.next <= Len(subset) /\ c.key < subset[scan.next] /\ t = scan

LEMMA LinearOneType ==
    ASSUME NEW C, KeyedSet(C), NEW subset \in Seq(Nat), NEW scan \in LinearScans(C, subset), NEW c \in C
    PROVE  /\ LinearOne(scan, c, subset) \in LinearScans(C, subset)
           /\ Turned(scan, LinearOne(scan, c, subset), c, subset)
<1> DEFINE t == LinearOne(scan, c, subset)
<1>1. /\ scan.next \in 1 .. Len(subset) + 1 /\ scan.result \in Results(C)
      /\ Len(subset) \in Nat /\ c.key \in Nat
    BY DEF LinearScans, KeyedSet
<1>2. CASE scan.next > Len(subset)
    BY <1>2 DEF LinearOne, Turned
<1>3. CASE ~ (scan.next > Len(subset))
    <2>1. /\ scan.next \in 1 .. Len(subset) /\ scan.next <= Len(subset)
          /\ scan.next + 1 \in 1 .. Len(subset) + 1
        BY <1>1, <1>3
    <2>2. subset[scan.next] \in Nat
        BY <2>1
    <2>3. /\ Joined(scan.result, Found(c)) \in Results(C)
          /\ Joined(scan.result, NotFound(subset[scan.next])) \in Results(C)
        BY <1>1, <2>2, ResultsOfOne, ResultsJoined
    <2>4. CASE c.key = subset[scan.next]
        <3>1. t = [next |-> scan.next + 1, result |-> Joined(scan.result, Found(c))]
            BY <1>3, <2>4 DEF LinearOne
        <3> HIDE DEF t
        <3>2. t \in LinearScans(C, subset) /\ t.next = scan.next + 1 /\ t.result = Joined(scan.result, Found(c))
            BY <2>1, <2>3, <3>1 DEF LinearScans
        <3>3. Turned(scan, t, c, subset)
            BY <2>1, <2>4, <3>2, Zenon DEF Turned
        <3> QED BY <3>2, <3>3 DEF t
    <2>5. CASE c.key # subset[scan.next] /\ c.key > subset[scan.next]
        <3>1. t = [scan EXCEPT !.result = Joined(scan.result, NotFound(subset[scan.next]))]
            BY <1>3, <2>5 DEF LinearOne
        <3> HIDE DEF t
        <3>2. /\ t \in LinearScans(C, subset) /\ t.next = scan.next
              /\ t.result = Joined(scan.result, NotFound(subset[scan.next]))
            BY <2>1, <2>3, <3>1 DEF LinearScans
        <3>3. Turned(scan, t, c, subset)
            BY <2>1, <2>5, <3>2, Zenon DEF Turned
        <3> QED BY <3>2, <3>3 DEF t
    <2>6. CASE c.key # subset[scan.next] /\ ~ (c.key > subset[scan.next])
        <3>1. t = scan
            BY <1>3, <2>6 DEF LinearOne
        <3>2. c.key < subset[scan.next]
            BY <1>1, <2>2, <2>6
        <3> HIDE DEF t
        <3>3. Turned(scan, t, c, subset)
            BY <2>1, <3>1, <3>2, Zenon DEF Turned
        <3> QED BY <3>1, <3>3 DEF t
    <2> QED BY <2>4, <2>5, <2>6, Zenon
<1> QED BY <1>2, <1>3, Zenon

\* The fold over the claims, step by step.
LEMMA LinearSteps ==
    ASSUME NEW C, KeyedSet(C), NEW rows \in Seq(C), NEW subset \in Seq(Nat)
    PROVE  \E h : /\ h[0] = LinearStart
                  /\ \A i \in 1 .. Len(rows) :
                         h[i] = LinearOne(h[i - 1], rows[i], subset)
                  /\ h[Len(rows)] =
                         FoldLeft(LAMBDA scan, claim : LinearOne(scan, claim, subset),
                                  LinearStart, rows)
<1> DEFINE n == Len(rows)
           turn == [k \in 1 .. n |-> [s \in LinearScans(C, subset) |-> LinearOne(s, rows[k], subset)]]
           Step(g) == [s \in SUBSET (1 .. n) |->
                          IF s = {} THEN LinearStart
                          ELSE LinearOne(g[s \ {Max(s)}], rows[Max(s)], subset)]
           iter == CHOOSE g : g = Step(g)
<1>1. n \in Nat /\ LinearStart \in LinearScans(C, subset) /\ DOMAIN rows = 1 .. n
    BY ResultsOfOne DEF LinearScans, LinearStart
<1>2. turn \in [1 .. n -> [LinearScans(C, subset) -> LinearScans(C, subset)]]
    BY LinearOneType
<1>3. \A s \in SUBSET (1 .. n) : s # {} => Max(s) \in 1 .. n
    <2> HIDE DEF n, turn, Step, iter
    <2> QED BY <1>1, MaxUpTo
<1>4. \E g : g = Step(g)
    <2> HIDE DEF turn
    <2>1. PICK g \in [SUBSET (1 .. n) -> LinearScans(C, subset)] :
              \A s \in SUBSET (1 .. n) :
                  g[s] = IF s = {} THEN LinearStart
                         ELSE turn[Max(s)][g[s \ {Max(s)}]]
        <3> HIDE DEF n, Step, iter
        <3>1. n \in Nat /\ LinearStart \in LinearScans(C, subset)
            BY <1>1
        <3>2. HasFold(n, LinearScans(C, subset), LinearStart, turn)
            BY <3>1, <1>2, FoldExists
        <3> QED BY <3>2 DEF HasFold
    <2>2. ASSUME NEW s \in SUBSET (1 .. n), s # {}
          PROVE  g[s] = LinearOne(g[s \ {Max(s)}], rows[Max(s)], subset)
        <3>1. Max(s) \in 1 .. n /\ s \ {Max(s)} \in SUBSET (1 .. n)
            BY <1>3, <2>2
        <3>2. g[s \ {Max(s)}] \in LinearScans(C, subset)
            BY <3>1
        <3> QED BY <2>1, <2>2, <3>1, <3>2 DEF turn
    <2>3. g = Step(g)
        BY <2>1, <2>2
    <2> HIDE DEF Step
    <2> QED BY <2>3
<1>5. iter = Step(iter)
    <2> HIDE DEF Step
    <2> QED BY <1>4
<1>6. FoldLeft(LAMBDA scan, claim : LinearOne(scan, claim, subset), LinearStart, rows)
          = iter[1 .. n]
    BY <1>1 DEF FoldLeft, MapThenFoldSet
<1> DEFINE h == [i \in 0 .. n |-> iter[1 .. i]]
<1>7. h[0] = LinearStart
    <2> HIDE DEF iter
    <2>1. 1 .. 0 = {} /\ 0 \in 0 .. n /\ {} \in SUBSET (1 .. n)
        BY <1>1
    <2>2. iter[{}] = LinearStart
        BY <1>5, <2>1
    <2> QED BY <2>1, <2>2
<1>8. ASSUME NEW i \in 1 .. n
      PROVE  h[i] = LinearOne(h[i - 1], rows[i], subset)
    <2> HIDE DEF iter
    <2> HIDE DEF n, h
    <2>1. /\ i \in 0 .. n /\ i - 1 \in 0 .. n
          /\ 1 .. i \in SUBSET (1 .. n) /\ 1 .. i # {}
          /\ i \in Nat \ {0}
        <3> HIDE DEF turn, Step, iter
        <3>1. n \in Nat
            BY <1>1
        <3>2. i \in Nat /\ 1 <= i /\ i <= n
            BY <3>1
        <3>3. 1 .. i \in SUBSET (1 .. n) /\ 1 .. i # {}
            <4>1. 1 \in 1 .. i /\ \A x \in 1 .. i : x \in 1 .. n
                BY <3>1, <3>2
            <4> QED BY <4>1
        <3> QED BY <3>1, <3>2, <3>3
    <2>2. Max(1 .. i) = i /\ (1 .. i) \ {i} = 1 .. (i - 1)
        BY <2>1, MaxUpTo
    <2>3. iter[1 .. i] = LinearOne(iter[1 .. (i - 1)], rows[i], subset)
        BY <1>5, <2>1, <2>2
    <2> QED BY <2>1, <2>3 DEF h
<1>9. h[n] = iter[1 .. n]
    BY <1>1
<1> HIDE DEF h, iter
<1> QED BY <1>6, <1>7, <1>8, <1>9

-----------------------------------------------------------------------------
\* After i claims with the first next - 1 keys behind it.
LinearOK(next, r, self, subset, i, C) ==
    /\ AnswerOK(r, 1 .. next - 1, 1 .. i, self, subset, C)
    /\ Strict(subset) =>
           /\ next <= Len(subset) => \A j \in 1 .. i : self[j].key # subset[next]
           /\ \A q \in 1 .. next - 1 : \E c \in ToSet(r.found) : c.key = subset[q]
           /\ \A key \in ToSet(r.missing) : key \notin KeysOf(self)

LEMMA LinearStep ==
    ASSUME NEW C, KeyedSet(C), NEW self \in Seq(C), Sorted(self), NEW subset \in Seq(Nat),
           NEW i \in 1 .. Len(self),
           NEW scan \in LinearScans(C, subset),
           LinearOK(scan.next, scan.result, self, subset, i - 1, C),
           NEW t, Turned(scan, t, self[i], subset)
    PROVE  LinearOK(t.next, t.result, self, subset, i, C)
<1> DEFINE c == self[i]
           r == scan.result
<1>1. PICK next \in Nat, N \in Nat :
          next = scan.next /\ N = Len(subset) /\ next >= 1 /\ next <= N + 1
    BY DEF LinearScans
<1>2. /\ \A j \in 1 .. Len(self) : self[j] \in C /\ self[j].key \in Nat
      /\ \A q \in 1 .. N : subset[q] \in Nat
      /\ c \in C /\ c.key \in Nat
    <2>1. \A j \in 1 .. Len(self) : self[j] \in C
        OBVIOUS
    <2>2. \A q \in 1 .. N : subset[q] \in Nat
        BY <1>1
    <2> QED BY <2>1, <2>2 DEF KeyedSet
<1>3. /\ r \in Results(C) /\ r.found \in Seq(C) /\ r.missing \in Seq(Nat)
      /\ Picked(r.found, self, 1 .. i - 1)
      /\ \A d \in ToSet(r.found) : \E q \in 1 .. next - 1 : d.key = subset[q]
    <2>1. AnswerOK(r, 1 .. next - 1, 1 .. i - 1, self, subset, C)
        BY <1>1, Zenon DEF LinearOK
    <2>2. /\ r \in Results(C) /\ Picked(r.found, self, 1 .. i - 1)
          /\ \A d \in ToSet(r.found) : \E q \in 1 .. next - 1 : d.key = subset[q]
        BY <2>1, Zenon DEF AnswerOK
    <2>3. r.found \in Seq(C) /\ r.missing \in Seq(Nat)
        BY <2>2 DEF Results
    <2> QED BY <2>2, <2>3
<1>4. Strict(subset) =>
          /\ next <= N => \A j \in 1 .. i - 1 : self[j].key # subset[next]
          /\ \A q \in 1 .. next - 1 : \E d \in ToSet(r.found) : d.key = subset[q]
          /\ \A key \in ToSet(r.missing) : key \notin KeysOf(self)
    BY <1>1, Zenon DEF LinearOK
<1>5. /\ \A j \in 1 .. i : j \in 1 .. Len(self) /\ (j = i \/ j \in 1 .. i - 1)
      /\ \A j \in 1 .. i - 1 : j \in 1 .. i /\ self[j].key <= c.key
      /\ \A j \in 1 .. Len(self) : j \in 1 .. i - 1 \/ j = i \/ c.key <= self[j].key
    <2>1. /\ \A j \in 1 .. i : j \in 1 .. Len(self) /\ (j = i \/ j \in 1 .. i - 1)
          /\ \A j \in 1 .. i - 1 : j \in 1 .. i /\ j \in 1 .. Len(self) /\ j < i
          /\ \A j \in 1 .. Len(self) : j \in 1 .. i - 1 \/ j = i \/ i < j
        OBVIOUS
    <2> QED BY <2>1 DEF Sorted
<1>6. Picked(r.found, self, 1 .. i)
    BY <1>3, <1>5 DEF Picked
<1> HIDE DEF c, r
<1>7. CASE t = scan /\ (next > N \/ c.key < subset[next])
    <2>1. t.next = next /\ t.result = r
        BY <1>1, <1>7 DEF r
    <2>2. AnswerOK(r, 1 .. next - 1, 1 .. i, self, subset, C)
        BY <1>3, <1>6, Zenon DEF AnswerOK
    <2>3. ASSUME next <= N PROVE c.key # subset[next]
        <3>1. next \in 1 .. N
            BY <1>1, <2>3
        <3>2. c.key < subset[next] /\ subset[next] \in Nat
            BY <1>1, <1>2, <1>7, <2>3, <3>1
        <3> QED BY <1>2, <3>2
    <2>4. Strict(subset) =>
              (next <= N => \A j \in 1 .. i : self[j].key # subset[next])
        BY <1>4, <1>5, <2>3 DEF c
    <2> QED BY <1>1, <1>4, <2>1, <2>2, <2>4, Zenon DEF LinearOK
<1>8. CASE /\ next <= N /\ c.key = subset[next]
           /\ t.next = next + 1 /\ t.result = Joined(r, Found(c))
    <2>1. /\ Found(c) \in Results(C) /\ Found(c).found = <<c>> /\ Found(c).missing = <<>>
        BY <1>2, ResultsOfOne
    <2>2. /\ t.result \in Results(C)
          /\ t.result.found = r.found \o <<c>>
          /\ t.result.missing = r.missing \o <<>>
        <3> DEFINE one == Found(c)
        <3> HIDE DEF one
        <3>1. one \in Results(C) /\ one.found = <<c>> /\ one.missing = <<>>
            BY <2>1 DEF one
        <3>2. /\ Joined(r, one) \in Results(C)
              /\ Joined(r, one).found = r.found \o one.found
              /\ Joined(r, one).missing = r.missing \o one.missing
            BY <1>3, <3>1, ResultsJoined
        <3>3. t.result = Joined(r, one)
            BY <1>8 DEF one
        <3> QED BY <3>1, <3>2, <3>3
    <2>3. /\ <<c>> \in Seq(C) /\ <<>> \in Seq(Nat)
          /\ ToSet(<<c>>) = {c} /\ ToSet(<<>>) = {}
        BY <1>2, ElementsOfOne
    <2>4. ToSet(t.result.found) = ToSet(r.found) \cup {c}
        <3>1. ToSet(r.found \o <<c>>) = ToSet(r.found) \cup ToSet(<<c>>)
            <4>1. PICK one \in Seq(C) : one = <<c>>
                BY <1>3, <2>3
            <4>2. ToSet(r.found \o one) = ToSet(r.found) \cup ToSet(one)
                BY <1>3, ElementsJoined
            <4> QED BY <4>1, <4>2
        <3> QED BY <2>2, <2>3, <3>1
    <2>5. ToSet(t.result.missing) = ToSet(r.missing)
        <3>1. ToSet(r.missing \o <<>>) = ToSet(r.missing) \cup ToSet(<<>>)
            BY <1>3, <2>3, ElementsJoined
        <3> QED BY <2>2, <2>3, <3>1
    <2>6. Picked(t.result.found, self, 1 .. i)
        <3>1. /\ (1 .. i - 1) \in SUBSET (1 .. Len(self)) /\ {i} \in SUBSET (1 .. Len(self))
              /\ (1 .. i - 1) \cap {i} = {} /\ (1 .. i - 1) \cup {i} = 1 .. i
            OBVIOUS
        <3>2. Picked(<<c>>, self, {i})
            BY PickedOne DEF c
        <3>3. Picked(r.found \o <<c>>, self, (1 .. i - 1) \cup {i})
            BY <1>3, <2>3, <3>1, <3>2, PickedJoined
        <3> QED BY <2>2, <3>1, <3>3
    <2>7. /\ next \in 1 .. (next + 1) - 1 /\ next \in 1 .. N
          /\ \A q \in 1 .. next - 1 : q \in 1 .. (next + 1) - 1
          /\ \A q \in 1 .. (next + 1) - 1 : q = next \/ q \in 1 .. next - 1
        BY <1>1, <1>8, SMTT(30)
    <2>8. \A d \in ToSet(t.result.found) : \E q \in 1 .. (next + 1) - 1 : d.key = subset[q]
        BY <1>3, <1>8, <2>4, <2>7
    <2>9. AnswerOK(t.result, 1 .. (next + 1) - 1, 1 .. i, self, subset, C)
        BY <2>2, <2>6, <2>8, Zenon DEF AnswerOK
    <2>10. ASSUME Strict(subset)
           PROVE  \A q \in 1 .. (next + 1) - 1 : \E d \in ToSet(t.result.found) : d.key = subset[q]
        BY <1>4, <1>8, <2>4, <2>7, <2>10
    <2>11. ASSUME Strict(subset), next + 1 <= N, NEW j \in 1 .. i
           PROVE  self[j].key # subset[next + 1]
        <3>1. next + 1 \in 1 .. N /\ next < next + 1
            BY <1>1, <2>11
        <3>2. subset[next] < subset[next + 1] /\ subset[next + 1] \in Nat /\ subset[next] \in Nat
            BY <1>1, <1>2, <2>7, <2>11, <3>1 DEF Strict
        <3>3. PICK x \in Nat, y \in Nat : x = c.key /\ y = subset[next + 1]
            BY <1>2, <3>2
        <3>4. x < y
            BY <1>8, <3>2, <3>3
        <3>5. PICK z \in Nat : z = self[j].key
            BY <1>2, <1>5
        <3>6. z <= x
            BY <1>5, <3>3, <3>5 DEF c
        <3>7. z # y
            BY <3>4, <3>6
        <3> QED BY <3>3, <3>5, <3>7
    <2>12. Strict(subset) => \A key \in ToSet(t.result.missing) : key \notin KeysOf(self)
        BY <1>4, <2>5
    <2> QED BY <1>1, <1>8, <2>9, <2>10, <2>11, <2>12, Zenon DEF LinearOK
<1>9. CASE /\ next <= N /\ c.key > subset[next]
           /\ t.next = next /\ t.result = Joined(r, NotFound(subset[next]))
    <2> DEFINE key == subset[next]
    <2>1. next \in 1 .. N /\ key \in Nat
        BY <1>1, <1>2, <1>9
    <2> HIDE DEF key
    <2>2. /\ NotFound(key) \in Results(C)
          /\ NotFound(key).found = <<>> /\ NotFound(key).missing = <<key>>
        BY <2>1, ResultsOfOne
    <2>3. /\ t.result \in Results(C)
          /\ t.result.found = r.found \o <<>>
          /\ t.result.missing = r.missing \o <<key>>
        <3> DEFINE one == NotFound(key)
        <3> HIDE DEF one
        <3>1. one \in Results(C) /\ one.found = <<>> /\ one.missing = <<key>>
            BY <2>2 DEF one
        <3>2. /\ Joined(r, one) \in Results(C)
              /\ Joined(r, one).found = r.found \o one.found
              /\ Joined(r, one).missing = r.missing \o one.missing
            BY <1>3, <3>1, ResultsJoined
        <3>3. t.result = Joined(r, one)
            BY <1>9 DEF one, key
        <3> QED BY <3>1, <3>2, <3>3
    <2>4. /\ <<key>> \in Seq(Nat) /\ ToSet(<<key>>) = {key}
          /\ r.found \o <<>> = r.found
        BY <1>3, <2>1, ElementsOfOne
    <2>5. ToSet(t.result.missing) = ToSet(r.missing) \cup {key}
        <3>1. ToSet(r.missing \o <<key>>) = ToSet(r.missing) \cup ToSet(<<key>>)
            <4>1. PICK one \in Seq(Nat) : one = <<key>>
                BY <1>3, <2>4
            <4>2. ToSet(r.missing \o one) = ToSet(r.missing) \cup ToSet(one)
                BY <1>3, ElementsJoined
            <4> QED BY <4>1, <4>2
        <3> QED BY <2>3, <2>4, <3>1
    <2>6. t.result.found = r.found
        BY <2>3, <2>4
    <2>7. AnswerOK(t.result, 1 .. next - 1, 1 .. i, self, subset, C)
        BY <1>3, <1>6, <2>3, <2>6, Zenon DEF AnswerOK
    <2>8. PICK x \in Nat, y \in Nat : x = c.key /\ y = key
        BY <1>2, <2>1
    <2>9. y < x
        BY <1>9, <2>8 DEF key
    <2>10. c.key # key
        <3>1. y # x
            BY <2>9
        <3> QED BY <2>8, <3>1
    <2>11. ASSUME Strict(subset), NEW j \in 1 .. Len(self) PROVE self[j].key # key
        <3>1. CASE j \in 1 .. i - 1
            BY <1>1, <1>4, <1>9, <2>11, <3>1 DEF key
        <3>2. CASE j = i
            BY <2>10, <3>2 DEF c
        <3>3. CASE c.key <= self[j].key
            <4>1. PICK z \in Nat : z = self[j].key
                BY <1>2
            <4>2. x <= z
                BY <2>8, <3>3, <4>1
            <4>3. z # y
                BY <2>9, <4>2
            <4> QED BY <2>8, <4>1, <4>3
        <3> QED BY <1>5, <3>1, <3>2, <3>3
    <2>12. Strict(subset) => key \notin KeysOf(self)
        BY <2>11, KeysOfIs
    <2>13. Strict(subset) => \A k \in ToSet(t.result.missing) : k \notin KeysOf(self)
        BY <1>4, <2>5, <2>12
    <2>14. Strict(subset) => \A j \in 1 .. i : self[j].key # subset[next]
        BY <1>5, <2>11 DEF key
    <2>15. Strict(subset) =>
               \A q \in 1 .. next - 1 : \E d \in ToSet(t.result.found) : d.key = subset[q]
        BY <1>4, <2>6
    <2> QED BY <1>1, <1>9, <2>7, <2>13, <2>14, <2>15, Zenon DEF LinearOK
<1> QED
    BY <1>1, <1>7, <1>8, <1>9, Zenon DEF Turned, c, r

-----------------------------------------------------------------------------
LEMMA LinearAnswer ==
    ASSUME NEW C, KeyedSet(C), NEW self \in Seq(C), Sorted(self), NEW subset \in Seq(Nat)
    PROVE  /\ AnswerOK(SubsetLinear(self, subset), 1 .. Len(subset), 1 .. Len(self), self, subset, C)
           /\ Strict(subset) =>
                  CompleteOK(SubsetLinear(self, subset), 1 .. Len(subset), 1 .. Len(self), self, subset)
<1> DEFINE n == Len(self)
           N == Len(subset)
<1>1. PICK h : /\ h[0] = LinearStart
               /\ \A i \in 1 .. n : h[i] = LinearOne(h[i - 1], self[i], subset)
               /\ h[n] = FoldLeft(LAMBDA scan, claim : LinearOne(scan, claim, subset),
                                  LinearStart, self)
    BY LinearSteps
<1> DEFINE Good(i) == /\ h[i] \in LinearScans(C, subset)
                      /\ LinearOK(h[i].next, h[i].result, self, subset, i, C)
           T == {i \in 0 .. n : Good(i)}
<1>2. n \in Nat /\ N \in Nat
    OBVIOUS
<1>3. 0 \in T
    <2>1. /\ h[0] \in LinearScans(C, subset) /\ h[0].next = 1 /\ h[0].result = Nothing
        <3>1. 1 \in 1 .. Len(subset) + 1 /\ Nothing \in Results(C)
            BY ResultsOfOne
        <3>2. /\ LinearStart \in LinearScans(C, subset)
              /\ LinearStart.next = 1 /\ LinearStart.result = Nothing
            BY <3>1 DEF LinearScans, LinearStart
        <3> QED BY <1>1, <3>2
    <2>2. /\ Nothing \in Results(C)
          /\ ToSet(Nothing.found) = {} /\ ToSet(Nothing.missing) = {}
          /\ Picked(Nothing.found, self, 1 .. 0)
        BY ResultsOfOne, ElementsOfOne, PickedOne
    <2>3. 1 .. 1 - 1 = {} /\ 1 .. 0 = {}
        OBVIOUS
    <2>4. LinearOK(1, Nothing, self, subset, 0, C)
        BY <2>2, <2>3 DEF LinearOK, AnswerOK
    <2>5. Good(0)
        BY <2>1, <2>4
    <2> HIDE DEF Good, n
    <2> QED BY <1>2, <2>5
<1>4. ASSUME NEW i \in 1 .. n, i - 1 \in T PROVE i \in T
    <2>1. Good(i - 1)
        BY <1>4
    <2>2. self[i] \in C
        OBVIOUS
    <2> DEFINE s == h[i - 1]
    <2>3. /\ s \in LinearScans(C, subset)
          /\ LinearOK(s.next, s.result, self, subset, i - 1, C)
          /\ h[i] = LinearOne(s, self[i], subset)
        BY <1>1, <2>1
    <2> HIDE DEF s
    <2>4. h[i] \in LinearScans(C, subset) /\ Turned(s, h[i], self[i], subset)
        BY <2>2, <2>3, LinearOneType
    <2>5. LinearOK(h[i].next, h[i].result, self, subset, i, C)
        BY <2>3, <2>4, LinearStep
    <2>6. i \in 0 .. n
        BY <1>2
    <2> QED BY <2>4, <2>5, <2>6
<1>5. n \in T
    <2> HIDE DEF T, n
    <2>1. \A i \in 0 .. n : i \in T
        BY <1>2, <1>3, <1>4, UpTo
    <2> QED BY <1>2, <2>1
<1>6. PICK next \in 1 .. N + 1, r \in Results(C) :
          /\ SubsetLinear(self, subset) = r
          /\ LinearOK(next, r, self, subset, n, C)
    <2>1. Good(n)
        BY <1>5
    <2>2. SubsetLinear(self, subset) = h[n].result
        BY <1>1, Zenon DEF SubsetLinear, LinearStart
    <2>3. h[n].next \in 1 .. N + 1 /\ h[n].result \in Results(C)
        BY <2>1 DEF LinearScans
    <2> QED BY <2>1, <2>2, <2>3
<1> HIDE DEF n, N
<1>7. /\ AnswerOK(r, 1 .. next - 1, 1 .. n, self, subset, C)
      /\ Strict(subset) =>
             /\ next <= N => \A j \in 1 .. n : self[j].key # subset[next]
             /\ \A q \in 1 .. next - 1 : \E c \in ToSet(r.found) : c.key = subset[q]
             /\ \A key \in ToSet(r.missing) : key \notin KeysOf(self)
    BY <1>6, Zenon DEF LinearOK, N
<1>8. /\ \A q \in 1 .. next - 1 : q \in 1 .. N
      /\ next = N + 1 => \A q \in 1 .. N : q \in 1 .. next - 1
      /\ next # N + 1 => next \in 1 .. N /\ next <= N
    BY <1>2
<1>9. AnswerOK(r, 1 .. N, 1 .. n, self, subset, C)
    BY <1>7, <1>8, Zenon DEF AnswerOK
<1>10. ASSUME Strict(subset) PROVE CompleteOK(r, 1 .. N, 1 .. n, self, subset)
    <2>1. ASSUME \A q \in 1 .. N : subset[q] \in KeysOf(self)
          PROVE  \A q \in 1 .. N : \E c \in ToSet(r.found) : c.key = subset[q]
        <3>1. next = N + 1
            <4> SUFFICES ASSUME next # N + 1 PROVE FALSE
                OBVIOUS
            <4>1. subset[next] \in KeysOf(self)
                BY <1>8, <2>1
            <4>2. \E j \in 1 .. n : subset[next] = self[j].key
                BY <4>1, KeysOfIs DEF n
            <4> QED BY <1>7, <1>8, <1>10, <4>2
        <3> QED BY <1>7, <1>8, <1>10, <3>1
    <2> QED BY <1>7, <1>10, <2>1, Zenon DEF CompleteOK
<1> QED
    BY <1>6, <1>9, <1>10 DEF n, N

LEMMA SplitAnswer ==
    ASSUME NEW C, KeyedSet(C), NEW self \in Seq(C), Sorted(self), NEW subset \in Seq(Nat)
    PROVE  /\ AnswerOK(SubsetBinarySplit(self, subset), 1 .. Len(subset), 1 .. Len(self),
                       self, subset, C)
           /\ Strict(subset) =>
                  CompleteOK(SubsetBinarySplit(self, subset), 1 .. Len(subset), 1 .. Len(self),
                             self, subset)
<1>1. PICK split : /\ IsSplit(split, self, subset, C)
                   /\ SubsetBinarySplit(self, subset) = split[Task(Len(subset), 1, 1, Len(self))]
    BY SplitIs
<1> DEFINE task == Task(Len(subset), 1, 1, Len(self))
<1>2. /\ task.n = Len(subset) /\ task.from = 1 /\ task.left = 1 /\ task.right = Len(self)
      /\ task \in Tasks(self, subset)
    BY DEF Task, Tasks
<1> HIDE DEF task
<1>3. TaskOK(split, task, self, subset, C)
    BY <1>1, <1>2, SplitAnswers
<1>4. 1 + Len(subset) - 1 = Len(subset)
    OBVIOUS
<1>5. Sought(task) = 1 .. Len(subset) /\ Reach(task) = 1 .. Len(self)
    BY <1>2, <1>4, Zenon DEF Sought, Reach
<1> QED
    BY <1>1, <1>3, <1>5, Zenon DEF TaskOK, task

\* Either search answers well.
LEMMA SubsetAnswer ==
    ASSUME NEW C, KeyedSet(C), NEW self \in Seq(C), Sorted(self), NEW subset \in Seq(Nat)
    PROVE  /\ Subset(self, subset) \in Results(C)
           /\ Picked(Subset(self, subset).found, self, 1 .. Len(self))
           /\ \A c \in ToSet(Subset(self, subset).found) : c.key \in ToSet(subset)
           /\ Strict(subset) =>
                  /\ \A key \in ToSet(Subset(self, subset).missing) : key \notin KeysOf(self)
                  /\ ToSet(subset) \subseteq KeysOf(self) =>
                         \A key \in ToSet(subset) :
                             \E c \in ToSet(Subset(self, subset).found) : c.key = key
<1> DEFINE r == Subset(self, subset)
<1>1. /\ AnswerOK(r, 1 .. Len(subset), 1 .. Len(self), self, subset, C)
      /\ Strict(subset) => CompleteOK(r, 1 .. Len(subset), 1 .. Len(self), self, subset)
    <2>1. r = SubsetLinear(self, subset) \/ r = SubsetBinarySplit(self, subset)
        BY Zenon DEF Subset
    <2> HIDE DEF r
    <2> QED BY <2>1, LinearAnswer, SplitAnswer
<1> HIDE DEF r
<1>2. /\ \A q \in 1 .. Len(subset) : subset[q] \in ToSet(subset)
      /\ \A key \in ToSet(subset) : \E q \in 1 .. Len(subset) : key = subset[q]
    <2>1. DOMAIN subset = 1 .. Len(subset)
        OBVIOUS
    <2> QED BY <2>1 DEF ToSet
<1>3. WellPlaced(1 .. Len(subset), 1 .. Len(self), self, subset)
    BY KeysOfIs DEF WellPlaced
<1>4. /\ r \in Results(C) /\ Picked(r.found, self, 1 .. Len(self))
      /\ \A c \in ToSet(r.found) : \E q \in 1 .. Len(subset) : c.key = subset[q]
    BY <1>1, Zenon DEF AnswerOK
<1>5. Strict(subset) =>
          /\ \A key \in ToSet(r.missing) : key \notin KeysOf(self)
          /\ (\A q \in 1 .. Len(subset) : subset[q] \in KeysOf(self)) =>
                 \A q \in 1 .. Len(subset) : \E c \in ToSet(r.found) : c.key = subset[q]
    BY <1>1, <1>3, Zenon DEF CompleteOK
<1>6. \A c \in ToSet(r.found) : c.key \in ToSet(subset)
    BY <1>2, <1>4
<1>7. Strict(subset) /\ ToSet(subset) \subseteq KeysOf(self) =>
          \A key \in ToSet(subset) : \E c \in ToSet(r.found) : c.key = key
    <2> SUFFICES ASSUME Strict(subset), ToSet(subset) \subseteq KeysOf(self),
                        NEW key \in ToSet(subset)
                 PROVE  \E c \in ToSet(r.found) : c.key = key
        BY Zenon
    <2>1. \A q \in 1 .. Len(subset) : subset[q] \in KeysOf(self)
        BY <1>2, Zenon
    <2>2. PICK q \in 1 .. Len(subset) : key = subset[q]
        BY <1>2, Zenon
    <2> QED BY <1>5, <2>1, <2>2, Zenon
<1> QED
    BY <1>4, <1>5, <1>6, <1>7, Zenon DEF r

-----------------------------------------------------------------------------
\* A login asks for everything or for a list of keys.
LEMMA RequestsAre ==
    \A request \in Requests :
        /\ request.all \in BOOLEAN /\ request.keys \in Seq(Nat)
        /\ request.all => request.keys = <<>>
<1>1. \A keys \in Lists \cup {<<>>} : keys \in Seq(Nat)
    <2>1. <<>> \in Seq(Nat)
        OBVIOUS
    <2>2. \A keys \in Lists : keys \in Seq(Nat)
        BY Zenon, ListsAssumption DEF ListsAssumption
    <2> QED BY <2>1, <2>2
<1>2. ASSUME NEW request \in Requests
      PROVE  request = All \/ \E keys \in Lists \cup {<<>>} : request = Some(keys)
    <2>1. PICK all \in Flags, requested \in {{}} \cup {{keys} : keys \in Lists} :
              request \in FromOptions(all, requested)
        BY DEF Requests
    <2>2. CASE requested = {}
        BY <2>1, <2>2 DEF FromOptions
    <2>3. CASE \E keys \in Lists : requested = {keys}
        <3>1. PICK keys \in Lists : requested = {keys}
            BY <2>3
        <3>2. request \in {Some(k) : k \in requested}
            BY <2>1, <3>1 DEF FromOptions
        <3> QED BY <3>1, <3>2
    <2> QED BY <2>2, <2>3
<1>3. /\ All.all = TRUE /\ All.keys = <<>>
      /\ \A keys : Some(keys).all = FALSE /\ Some(keys).keys = keys
    BY DEF All, Some
<1> SUFFICES ASSUME NEW request \in Requests
             PROVE  /\ request.all \in BOOLEAN /\ request.keys \in Seq(Nat)
                    /\ request.all => request.keys = <<>>
    OBVIOUS
<1>4. CASE request = All
    BY <1>1, <1>3, <1>4
<1>5. ASSUME NEW keys \in Lists \cup {<<>>}, request = Some(keys)
      PROVE  request.all = FALSE /\ request.keys \in Seq(Nat)
    <2>1. keys \in Seq(Nat)
        BY <1>1
    <2>2. request.all = FALSE /\ request.keys = keys
        BY <1>3, <1>5
    <2> QED BY <2>1, <2>2
<1>6. CASE \E keys \in Lists \cup {<<>>} : request = Some(keys)
    BY <1>5, <1>6
<1> QED BY <1>2, <1>4, <1>6

\* What SubsetsAgree says of the claims of a user, a request and an answer.
SubsetOK(owned, request, answer) ==
    LET wanted == {owned[i] : i \in {j \in DOMAIN owned :
                                        request.all \/ owned[j].key \in ToSet(request.keys)}}
    IN  /\ ToSet(answer.found) \subseteq wanted
        /\ IsInjective(owned) => IsInjective(answer.found)
        /\ request.all => answer.found = owned
        /\ Ascending(request.keys) /\ IsInjective(request.keys) =>
               /\ ToSet(answer.missing) \cap KeysOf(owned) = {}
               /\ ToSet(request.keys) \subseteq KeysOf(owned) =>
                      ToSet(request.keys) \subseteq KeysOf(answer.found)
        /\ (request.all \/ Len(request.keys) = 1) => CheckSession(answer) = {answer.found}

\* All claims, for a session that asks for all.
LEMMA AllAnswer ==
    ASSUME NEW C, KeyedSet(C), NEW self \in Seq(C), Sorted(self),
           NEW request, request.all, request.keys = <<>>
    PROVE  SubsetOK(self, request, Result(self, <<>>))
<1>1. ToSet(self) = {self[i] : i \in {j \in DOMAIN self :
                                  request.all \/ self[j].key \in ToSet(request.keys)}}
    BY DEF ToSet
<1>2. ToSet(<<>>) = {}
    BY ElementsOfOne
<1>3. Result(self, <<>>).found = self /\ Result(self, <<>>).missing = <<>>
    BY DEF Result
<1>4. AscendingClaims(self)
    BY SortedAscend
<1> QED BY <1>1, <1>2, <1>3, <1>4 DEF SubsetOK, CheckSession

\* Some claims.
LEMMA SomeAnswer ==
    ASSUME NEW C, KeyedSet(C), NEW self \in Seq(C), Sorted(self),
           NEW request, ~ request.all, request.keys \in Seq(Nat)
    PROVE  SubsetOK(self, request, Subset(self, request.keys))
<1> DEFINE keys == request.keys
           r == Subset(self, keys)
           wanted == {self[i] : i \in {j \in DOMAIN self :
                                          request.all \/ self[j].key \in ToSet(keys)}}
<1>1. /\ r \in Results(C) /\ Picked(r.found, self, 1 .. Len(self))
      /\ \A c \in ToSet(r.found) : c.key \in ToSet(keys)
      /\ Strict(keys) =>
             /\ \A key \in ToSet(r.missing) : key \notin KeysOf(self)
             /\ ToSet(keys) \subseteq KeysOf(self) =>
                    \A key \in ToSet(keys) : \E c \in ToSet(r.found) : c.key = key
    <2>1. keys \in Seq(Nat)
        OBVIOUS
    <2> HIDE DEF keys
    <2> QED BY <2>1, SubsetAnswer
<1> HIDE DEF r
<1>2. DOMAIN self = 1 .. Len(self)
    OBVIOUS
<1>3. /\ r.found \in Seq(C) /\ DOMAIN r.found = 1 .. Len(r.found)
      /\ \A i \in 1 .. Len(r.found) : r.found[i] \in ToSet(r.found) /\ r.found[i].key \in Nat
      /\ \A c \in ToSet(r.found) : \E i \in 1 .. Len(r.found) : c = r.found[i]
    <2>1. r.found \in Seq(C)
        BY <1>1 DEF Results
    <2>2. DOMAIN r.found = 1 .. Len(r.found) /\ \A i \in 1 .. Len(r.found) : r.found[i] \in C
        BY <2>1
    <2> QED BY <2>1, <2>2 DEF ToSet, KeyedSet
<1>4. \A c \in ToSet(r.found) : \E j \in 1 .. Len(self) : c = self[j]
    <2>1. \A i \in 1 .. Len(r.found) : \E j \in 1 .. Len(self) : r.found[i] = self[j]
        BY <1>1, Zenon DEF Picked
    <2>2. ASSUME NEW c \in ToSet(r.found) PROVE \E j \in 1 .. Len(self) : c = self[j]
        <3>1. PICK i \in 1 .. Len(r.found) : c = r.found[i]
            BY <1>3
        <3> QED BY <2>1, <3>1
    <2> QED BY <2>2
<1>5. ToSet(r.found) \subseteq wanted
    BY <1>1, <1>2, <1>4
<1>6. IsInjective(self) => IsInjective(r.found)
    <2>1. /\ IsInjective(self) => Differ(self)
          /\ Differ(r.found) => IsInjective(r.found)
        BY <1>2, <1>3 DEF IsInjective, Differ
    <2>2. Differ(self) => Differ(r.found)
        BY <1>1, Zenon DEF Picked
    <2> QED BY <2>1, <2>2
<1>7. ASSUME Ascending(keys), IsInjective(keys)
      PROVE  /\ ToSet(r.missing) \cap KeysOf(self) = {}
             /\ ToSet(keys) \subseteq KeysOf(self) => ToSet(keys) \subseteq KeysOf(r.found)
    <2>1. Strict(keys)
        BY <1>7, StrictList
    <2>2. ASSUME ToSet(keys) \subseteq KeysOf(self), NEW x \in ToSet(keys)
          PROVE  x \in KeysOf(r.found)
        <3>1. PICK c \in ToSet(r.found) : c.key = x
            BY <1>1, <2>1, <2>2
        <3>2. PICK i \in 1 .. Len(r.found) : c = r.found[i]
            BY <1>3
        <3> QED BY <1>3, <3>1, <3>2 DEF KeysOf
    <2> QED BY <1>1, <2>1, <2>2
<1>8. ASSUME Len(keys) = 1 PROVE CheckSession(r) = {r.found}
    <2>1. \A key \in ToSet(keys) : key = keys[1]
        BY <1>8 DEF ToSet
    <2>2. \A i, j \in 1 .. Len(r.found) : r.found[i].key <= r.found[j].key
        <3>1. \A i \in 1 .. Len(r.found) : r.found[i].key = keys[1]
            BY <1>1, <1>3, <2>1
        <3>2. ASSUME NEW i \in 1 .. Len(r.found), NEW j \in 1 .. Len(r.found)
              PROVE  r.found[i].key <= r.found[j].key
            <4>1. r.found[i].key = r.found[j].key /\ r.found[j].key \in Nat
                BY <1>3, <3>1
            <4> QED BY <4>1
        <3> QED BY <3>2
    <2>3. AscendingClaims(r.found)
        BY <1>3, <2>2 DEF AscendingClaims, Ascending
    <2> QED BY <2>3 DEF CheckSession
<1> HIDE DEF wanted
<1>9. SubsetOK(self, request, r)
    BY <1>5, <1>6, <1>7, <1>8, Zenon DEF SubsetOK, wanted, keys
<1> QED BY <1>9 DEF r, keys

(***************************************************************************)
(* SubsetsAgree holds for all claims and all lists of requested keys, also *)
(* where keys repeat: a session gets nothing but what was requested and is *)
(* stored, and all of it for a list that ascends and repeats no key,       *)
(* whichever search is taken (data.rs:626, data.rs:685).                   *)
(***************************************************************************)
THEOREM SubsetsAlways == DirectorySpec => []SubsetsAgree
<1>1. TablesOK => SubsetsAgree
    <2> SUFFICES ASSUME TablesOK, NEW id \in Ids, NEW request \in Requests
                 PROVE  SubsetOK(StoredClaims(id), request, LoginClaims(id, request))
        BY Zenon DEF SubsetsAgree, SubsetOK
    <2>1. /\ request.all \in BOOLEAN /\ request.keys \in Seq(Nat)
          /\ request.all => request.keys = <<>>
        BY RequestsAre
    <2>2. CASE claims[id] = NoClaims
        <3>1. StoredClaims(id) = <<>> /\ LoginClaims(id, request) = Result(<<>>, request.keys)
            BY <2>2 DEF StoredClaims, LoginClaims
        <3>2. /\ Result(<<>>, request.keys).found = <<>>
              /\ DOMAIN <<>> = {} /\ ToSet(<<>>) = {} /\ KeysOf(<<>>) = {}
            BY ElementsOfOne DEF Result, KeysOf
        <3>3. IsInjective(<<>>) /\ AscendingClaims(<<>>)
            BY DEF IsInjective, AscendingClaims, Ascending
        <3> QED BY <3>1, <3>2, <3>3 DEF SubsetOK, CheckSession
    <2>3. CASE claims[id] # NoClaims
        <3>1. claims[id] \in Stored /\ StoredClaims(id) = claims[id]
            BY <2>3 DEF Stored, Holders, StoredClaims
        <3>2. PICK C, owned : /\ KeyedSet(C) /\ owned \in Seq(C) /\ Sorted(owned)
                              /\ owned = claims[id]
            BY <3>1, StoredAre
        <3>3. CASE request.all
            <4>1. LoginClaims(id, request) = Result(owned, <<>>)
                BY <2>3, <3>2, <3>3 DEF LoginClaims
            <4> QED BY <2>1, <3>1, <3>2, <3>3, <4>1, AllAnswer
        <3>4. CASE ~ request.all
            <4>1. LoginClaims(id, request) = Subset(owned, request.keys)
                BY <2>3, <3>2, <3>4 DEF LoginClaims
            <4> QED BY <2>1, <3>1, <3>2, <3>4, <4>1, SomeAnswer
        <3> QED BY <2>1, <3>3, <3>4
    <2> QED BY <2>2, <2>3
<1> QED
    BY <1>1, Tables, PTL
=============================================================================
