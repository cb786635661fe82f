------------------------------ MODULE MCTiauth ------------------------------
(* Bounds and symmetry for the run of Tiauth.                              *)
EXTENDS Tiauth, TLC

Symmetry == Permutations(Clients)

\* Proof tokens enough for the list of used numbers to grow with N = 2.
MCQuota == [type \in TokenTypes |-> IF type = "proof_token" THEN 3 ELSE 1]

\* Tokens of three types, one of each, while the process restarts and the
\* clock moves, ...
OneOfEach ==
    /\ Cardinality(tokens) <= 3 /\ time + epoch <= 2
    /\ Cardinality({tok \in tokens : Read(tok).type = "proof_token"}) <= 1

\* ... or more proof tokens, in the place of others and of ticks and restarts;
\* a token that replaced a file may be there, so that there can be logins too.
MoreProofs ==
    /\ Cardinality(tokens) <= 4 /\ time = 0 /\ epoch = 0
    /\ \A tok \in tokens : Read(tok).type \in Numbered \/ uses[tok] = 1

FewTokens == OneOfEach \/ MoreProofs

=============================================================================
