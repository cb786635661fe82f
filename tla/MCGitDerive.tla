----------------------------- MODULE MCGitDerive -----------------------------
(* A branch that moves, which is sent under its short name as well.         *)
EXTENDS GitDerive, TLC

CONSTANTS k1, k2, main

NoPeel == [o \in {} |-> o]
MainShort == 2 :> main
OneBranch == << 2 :> k1, 2 :> k2 >>
OneHeader == <<145, 146, 0, 0>>     \* an array of one pair of two strings

=============================================================================
