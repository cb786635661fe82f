------------------------------ MODULE OnceMap ------------------------------
(***************************************************************************)
(* What the append-only map promises: a map in which every key is set at   *)
(* most once, and in which insertions and lookups take effect at one       *)
(* moment between their call and their return.  A search may also give up, *)
(* but only for a key that is not in the map.                              *)
(***************************************************************************)
CONSTANTS Keys, Values, Clients,
          None,     \* no value, no answer
          Panic     \* the answer of a search that gave up

VARIABLES store,    \* the value of every key, or None
          answer    \* what the last operation of a client returned

vars == <<store, answer>>

Answer(key, result) == [key |-> key, result |-> result]

Init ==
    /\ store = [k \in Keys |-> None]
    /\ answer = [c \in Clients |-> None]

\* A client calls its next operation.
Call(c) ==
    /\ answer' = [answer EXCEPT ![c] = None]
    /\ UNCHANGED store

Get(c, k) ==
    /\ answer' = [answer EXCEPT ![c] = Answer(k, store[k])]
    /\ UNCHANGED store

Insert(c, k, v) ==
    /\ store[k] = None
    /\ store' = [store EXCEPT ![k] = v]
    /\ answer' = [answer EXCEPT ![c] = Answer(k, None)]

GiveUp(c, k) ==
    /\ store[k] = None
    /\ answer' = [answer EXCEPT ![c] = Answer(k, Panic)]
    /\ UNCHANGED store

Next ==
    \E c \in Clients :
        \/ Call(c)
        \/ \E k \in Keys : Get(c, k) \/ GiveUp(c, k)
        \/ \E k \in Keys, v \in Values : Insert(c, k, v)

Spec == Init /\ [][Next]_vars

=============================================================================
