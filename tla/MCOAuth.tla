------------------------------- MODULE MCOAuth -------------------------------
\* OAuth for TLC: names, flows and handlers are interchangeable.
EXTENDS OAuth, TLC

OAuthSymmetry ==
    Permutations(Names) \cup Permutations(Verifiers) \cup Permutations(Handlers)

=============================================================================
