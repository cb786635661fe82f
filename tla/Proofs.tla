------------------------------- MODULE Proofs -------------------------------
(***************************************************************************)
(* Proofs (tiauth-core/src/proof.rs): statements of the application, each  *)
(* about users it targets, signed with the key of the application over a   *)
(* token of the server.  A signature covers the whole content, so a proof  *)
(* that was cut, altered or cannot be read is one of another signer.       *)
(***************************************************************************)
EXTENDS Naturals, Sequences

\* ActionType, by the names it is written with.
ActionTypes == {"reset_password", "delete_claims", "set_claims", "add_claims",
                "merge_claims", "read_users", "read_password", "delete_user"}

\* Target, likewise.
Targets == {"select", "range", "all"}

\* ProofAction: what is stated, and the TargetList it is stated about.
ProofAction(action, target, list) ==
    [action |-> action, target |-> target, list |-> list]

\* TargetList::user, under the target "select".
AboutUser(action, user) == ProofAction(action, "select", <<user>>)

\* ProofContent, and its bytes: an array of six, read in the order in which
\* it was written.
ProofContent(expires, about, token, data) ==
    [about |-> about, expires |-> expires, token |-> token, data |-> data]

ProofBytes(c) == <<c.about.action, c.about.target, c.about.list, c.expires,
                   c.token, c.data>>

ProofOf(bytes) ==
    ProofContent(bytes[4], ProofAction(bytes[1], bytes[2], bytes[3]),
                 bytes[5], bytes[6])

\* sign_data and verify_signature.
SignData(key, bytes) == [key |-> key, data |-> bytes]
VerifySignature(bytes, signature, publicKey) ==
    signature = SignData(publicKey, bytes)

\* Proof::create.
Proof(signer, content) ==
    [content |-> ProofBytes(content),
     signature |-> SignData(signer, ProofBytes(content))]

\* As it is sent: the content, the signature, and how long the content is,
\* from which decode finds the signature.
Encoded(proof) == proof.content \o <<proof.signature, Len(proof.content)>>

Decoded(parts) ==
    LET length == parts[Len(parts)]
    IN  [content |-> SubSeq(parts, 1, length), signature |-> parts[length + 1]]

Signed(proof, publicKey) ==
    VerifySignature(proof.content, proof.signature, publicKey)

-----------------------------------------------------------------------------
(* What a handler makes of a proof that is verified: it asks for one or    *)
(* more actions and for a kind of target.                                  *)

\* ProofSingleTarget.
SingleTarget(about) == about.target = "select" /\ Len(about.list) = 1

\* ProofTargetAny.
AnyTarget(about) ==
    CASE about.target = "all"    -> about.list = <<>>
      [] about.target = "range"  -> Len(about.list) = 2
      [] about.target = "select" -> about.list # <<>>

\* ValidAction: an action or a list of actions.
ActionValid(allowed, about) == about.action \in allowed

\* UnvalidatedProofObject::validate, for either kind of target.
ValidSingle(allowed, about) == SingleTarget(about) /\ ActionValid(allowed, about)
ValidAny(allowed, about) == AnyTarget(about) /\ ActionValid(allowed, about)

=============================================================================
