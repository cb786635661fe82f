-------------------------------- MODULE Lazy --------------------------------
(***************************************************************************)
(* Lazy<T> of lazy-borink: a field that is kept as MessagePack bytes until *)
(* its value is asked for, and as a value until its bytes are.  Programs   *)
(* hold values of it, change them in place, consume them, and send structs *)
(* that contain one to each other, as JSON or as MessagePack.              *)
(*                                                                         *)
(* An Option is a set of one element or none.  Bytes are what they encode: *)
(* a member of Values, or of Garbage, which no value decodes from.  A call *)
(* that panics is recorded; it ends the caller and not the value, which    *)
(* whoever lent it may still reach.                                        *)
(***************************************************************************)
EXTENDS FiniteSets

CONSTANTS
    Holders,   \* places of programs where a Lazy can be
    Values,    \* values of the inner type
    Garbage    \* what bytes that decode to no value hold

VARIABLES
    lazy,      \* per holder, the Lazy it has, if any
    sent,      \* serialized structs, on their way or stored
    result     \* the outcome of the last call: ok, error or panic

vars == <<lazy, sent, result>>

None == {}
Some(x) == {x}

\* serialize_lazy and deserialize_lazy.
Bytes(x) == [msgpack |-> x]
AllBytes == {Bytes(x) : x \in Values \cup Garbage}
Decoded(b) == {v \in Values : b = Bytes(v)}

FromBytes(b) == [bytes |-> Some(b), inner |-> None]
FromInner(v) == [bytes |-> None, inner |-> Some(v)]
AllLazy == [bytes : SUBSET AllBytes, inner : SUBSET Values]

Init ==
    /\ lazy = [h \in Holders |-> None]
    /\ sent = {}
    /\ result = "ok"

Keeps(h, x) == lazy' = [lazy EXCEPT ![h] = Some(x)]
Consumed(h) == lazy' = [lazy EXCEPT ![h] = None]

-----------------------------------------------------------------------------

\* A Lazy without data makes every operation panic.
Invalid(x) == x.bytes = None /\ x.inner = None

Panic(x) ==
    /\ Invalid(x)
    /\ result' = "panic"

\* from_bytes, from_inner and From<T>.
New(h) ==
    /\ lazy[h] = None
    /\ \/ \E b \in AllBytes : Keeps(h, FromBytes(b))
       \/ \E v \in Values : Keeps(h, FromInner(v))
    /\ result' = "ok"
    /\ UNCHANGED sent

\* map applies op to a value and leaves bytes alone.
Map(h) ==
    \E x \in lazy[h] :
        /\ \/ /\ \E v \in x.inner, op \in [Values -> Values] :
                    Keeps(h, FromInner(op[v]))
              /\ result' = "ok"
           \/ /\ x.inner = None
              /\ \E b \in x.bytes : Keeps(h, FromBytes(b))
              /\ result' = "ok"
           \/ Panic(x) /\ Consumed(h)
        /\ UNCHANGED sent

\* try_inner takes the bytes out before it decodes them.
TryInner(h) ==
    \E x \in lazy[h] :
        /\ \/ \E b \in x.bytes :
                 IF Decoded(b) # None
                 THEN /\ Keeps(h, [bytes |-> None, inner |-> Decoded(b)])
                      /\ result' = "ok"
                 ELSE /\ Keeps(h, [x EXCEPT !.bytes = None])
                      /\ result' = "error"
           \/ /\ x.bytes = None /\ x.inner # None
              /\ result' = "ok"
              /\ UNCHANGED lazy
           \/ Panic(x) /\ UNCHANGED lazy
        /\ UNCHANGED sent

\* What try_take gives: the value, decoded if it has to be.
Taken(x) ==
    IF x.bytes # None THEN UNION {Decoded(b) : b \in x.bytes} ELSE x.inner

\* try_take; take panics on the error.
TryTake(h) ==
    \E x \in lazy[h] :
        /\ Consumed(h)
        /\ \/ ~Invalid(x) /\ result' = IF Taken(x) # None THEN "ok" ELSE "error"
           \/ Panic(x)
        /\ UNCHANGED sent

\* bytes encodes a value in place.
BytesOf(h) ==
    \E x \in lazy[h] :
        /\ \/ /\ \E v \in x.inner : Keeps(h, FromBytes(Bytes(v)))
              /\ result' = "ok"
           \/ /\ x.inner = None /\ x.bytes # None
              /\ result' = "ok"
              /\ UNCHANGED lazy
           \/ Panic(x) /\ UNCHANGED lazy
        /\ UNCHANGED sent

\* take_bytes.
TakeBytes(h) ==
    \E x \in lazy[h] :
        /\ Consumed(h)
        /\ \/ ~Invalid(x) /\ result' = "ok"
           \/ Panic(x)
        /\ UNCHANGED sent

-----------------------------------------------------------------------------
(* Serde: base64 in human-readable formats, plain bytes in others.         *)

Base64(b) == [base64 |-> b]

\* serialize prefers the bytes to the value.
Serialize(h) ==
    \E x \in lazy[h] :
        /\ \/ \E data \in IF x.bytes # None THEN x.bytes
                                            ELSE {Bytes(v) : v \in x.inner} :
                 /\ \E form \in {data, Base64(data)} : sent' = sent \cup {form}
                 /\ result' = "ok"
           \/ Panic(x) /\ UNCHANGED sent
        /\ UNCHANGED lazy

\* deserialize only looks at the base64, never at what the bytes hold.
Deserialize(h) ==
    /\ lazy[h] = None
    /\ \E b \in AllBytes :
          /\ b \in sent \/ Base64(b) \in sent
          /\ Keeps(h, FromBytes(b))
    /\ result' = "ok"
    /\ UNCHANGED sent

\* try_unwrap_lazy of a Lazy: the value that can be taken, and not what is
\* lazy in it in turn.
Unwrapped(x) == {FromInner(v) : v \in Taken(x)}

\* try_unwrap_lazy of a struct with a Lazy field, as derived: each field is
\* unwrapped, and a field that fails fails the struct, which is consumed.
UnwrapLazy(h) ==
    \E x \in lazy[h] :
        /\ \/ \E y \in Unwrapped(x) : Keeps(h, y) /\ result' = "ok"
           \/ /\ ~Invalid(x) /\ Unwrapped(x) = None
              /\ Consumed(h)
              /\ result' = "error"
           \/ Panic(x) /\ Consumed(h)
        /\ UNCHANGED sent

\* Clone.
Clone(h, g) ==
    /\ lazy[g] = None
    /\ \E x \in lazy[h] : Keeps(g, x)
    /\ result' = "ok"
    /\ UNCHANGED sent

Next ==
    \E h \in Holders :
        \/ New(h)
        \/ Map(h)
        \/ TryInner(h)
        \/ TryTake(h)
        \/ BytesOf(h)
        \/ TakeBytes(h)
        \/ Serialize(h)
        \/ Deserialize(h)
        \/ UnwrapLazy(h)
        \/ \E g \in Holders : Clone(h, g)

Spec == Init /\ [][Next]_vars

-----------------------------------------------------------------------------
TypeOK ==
    /\ \A h \in Holders : lazy[h] \subseteq AllLazy
    /\ sent \subseteq AllBytes \cup {Base64(b) : b \in AllBytes}
    /\ result \in {"ok", "error", "panic"}

(***************************************************************************)
(* "It is always true that only one of bytes or inner ever holds a value,  *)
(* never both or neither" (the documentation of Lazy).                     *)
(***************************************************************************)
OnlyOneHolds ==
    \A h \in Holders : \A x \in lazy[h] : (x.bytes = None) # (x.inner = None)

=============================================================================
