------------------------------ MODULE OneTime ------------------------------
(***************************************************************************)
(* What tiauth promises about the tokens it hands out: a token has to be   *)
(* handed out before it has an effect, and it has an effect at most once,  *)
(* whatever is lost, repeated or restarted in between.                     *)
(***************************************************************************)
EXTENDS Naturals

CONSTANT Permits    \* tokens there could be

VARIABLE uses   \* for every token handed out, how often it had an effect

Init == uses = [t \in {} |-> 0]

HandOut ==
    \E t \in DOMAIN uses' \ DOMAIN uses :
        /\ t \in Permits
        /\ uses' = [s \in DOMAIN uses \cup {t} |-> IF s = t THEN 0 ELSE uses[s]]

Use ==
    \E t \in DOMAIN uses :
        /\ uses[t] = 0
        /\ uses' = [uses EXCEPT ![t] = 1]

Next == HandOut \/ Use

Spec == Init /\ [][Next]_uses

=============================================================================
