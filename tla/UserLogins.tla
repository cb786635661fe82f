----------------------------- MODULE UserLogins -----------------------------
(***************************************************************************)
(* The logins of one user in borink-auth (borink-core/borink-auth/src):    *)
(* login_start numbers a token, login_session uses the number up in a      *)
(* lock-free bit set and creates a session.  login_session runs on several *)
(* threads, and each of its accesses to the bit set is a step.             *)
(*                                                                         *)
(* Both bit sets of compactset.rs are modelled: the array of atoms a user  *)
(* has ("small") and the one that grows ("dynamic").  Which keys open a    *)
(* token is up to the caller: a token that does not open changes nothing,  *)
(* so only those that open are followed.  A token cannot be altered, and   *)
(* carries its number as associated data.  The atoms are accessed in one   *)
(* order all threads agree on.                                             *)
(***************************************************************************)
EXTENDS Integers, Sequences, FiniteSets

CONSTANTS
    Kinds,       \* the bit sets to consider
    Threads,
    Width,       \* bits of an atom (64)
    SmallSize,   \* SMALL_SIZE
    MaxTokens,   \* bound: tokens handed out
    MaxCells,    \* bound: atoms of a dynamic set
    MaxResets    \* bound: resets

ASSUME KindsAssumption == Kinds \subseteq {"small", "dynamic"}
ASSUME SizesAssumption == Width \in Nat \ {0} /\ SmallSize \in Nat \ {0}
ASSUME LoginBounds ==
    MaxTokens \in Nat /\ MaxCells \in Nat \ {0} /\ MaxResets \in Nat

VARIABLES
    kind,       \* which bit set the user has
    counter,    \* UserState.counter
    atoms,      \* UserState.seen
    threads,    \* per thread, where it is in login_session
    cleared,    \* the reset in progress: atoms cleared so far, NoReset if none
    resets,     \* resets begun
    sessions,   \* history: tokens handed out, with the sessions each started
    claimed     \* history: numbers a thread found unused

vars == <<kind, counter, atoms, threads, cleared, resets, sessions, claimed>>

Idle == [at |-> "idle"]
Panicked == [at |-> "panicked"]
Atom == [there : BOOLEAN, bits : SUBSET (0 .. Width - 1)]
Clear == [there |-> TRUE, bits |-> {}]
Unready == [there |-> FALSE, bits |-> {}]   \* pushed, not there for others yet
NoReset == -1

tokens == DOMAIN sessions

At(t, stage) == threads[t].at = stage
Goto(t, where) == threads' = [threads EXCEPT ![t] = where]
Continue(t, stage) == Goto(t, [threads[t] EXCEPT !.at = stage])

-----------------------------------------------------------------------------
(* Where a number is kept.  Atoms are counted from 1, the first of a       *)
(* dynamic set is `initial`.                                               *)

Bounded(n) == kind = "small" => n < SmallSize * Width

\* further_indexes for a dynamic set.  The small set indexes its atoms by
\* index_in_atom.
AtomOf(n) ==
    IF kind = "small" THEN 1 + (n % Width)
    ELSE IF n < Width THEN 1 ELSE 2 + (n - Width) \div Width

\* Mutant: the index of the atom for the index in it.
BitOfAtom(n) == n \div Width

BitOf(n) == n % Width

There(i) == i <= Len(atoms) /\ atoms[i].there

Init ==
    /\ kind \in Kinds
    /\ counter = 0
    /\ atoms = [i \in 1 .. IF kind = "small" THEN SmallSize ELSE 1 |-> Clear]
    /\ threads = [t \in Threads |-> Idle]
    /\ cleared = NoReset
    /\ resets = 0
    /\ sessions = [tok \in {} |-> 0]
    /\ claimed = {}

\* login_start.  `period` tells tokens of the same number apart, and counts
\* the resets that were over.
LoginStart ==
    /\ Cardinality(tokens) < MaxTokens
    /\ LET tok == [num    |-> counter,
                   period |-> IF cleared = NoReset THEN resets ELSE resets - 1]
       IN  sessions' = [s \in tokens \cup {tok} |->
                            IF s \in tokens THEN sessions[s] ELSE 0]
    /\ counter' = counter + 1
    /\ UNCHANGED <<kind, atoms, threads, cleared, resets, claimed>>

-----------------------------------------------------------------------------
(* login_session.                                                          *)

Open(t, tok) ==
    /\ At(t, "idle")
    /\ Goto(t, [at |-> "create", tok |-> tok])
    /\ UNCHANGED <<kind, counter, atoms, cleared, resets, sessions, claimed>>

\* create_up_to: the sets of a fixed size panic on a number too large, ...
TooLarge(t) ==
    /\ At(t, "create")
    /\ ~Bounded(threads[t].tok.num)
    /\ Goto(t, Panicked)
    /\ UNCHANGED <<kind, counter, atoms, cleared, resets, sessions, claimed>>

\* ... the dynamic one pushes an atom as long as the one it needs is not
\* there.  A push first takes an index ...
PushStart(t) ==
    /\ At(t, "create")
    /\ kind = "dynamic"
    /\ ~There(AtomOf(threads[t].tok.num))
    /\ Len(atoms) < MaxCells
    /\ atoms' = Append(atoms, Unready)
    /\ Goto(t, [at |-> "push", tok |-> threads[t].tok, index |-> Len(atoms) + 1])
    /\ UNCHANGED <<kind, counter, cleared, resets, sessions, claimed>>

\* Mutant: pushes one atom at most.
PushOnce(t) ==
    /\ At(t, "push")
    /\ atoms' = [atoms EXCEPT ![threads[t].index] = Clear]
    /\ Goto(t, [at |-> "exists", tok |-> threads[t].tok])
    /\ UNCHANGED <<kind, counter, cleared, resets, sessions, claimed>>

\* ... and then lets others see the new atom.
Push(t) ==
    /\ At(t, "push")
    /\ atoms' = [atoms EXCEPT ![threads[t].index] = Clear]
    /\ Goto(t, [at |-> "create", tok |-> threads[t].tok])
    /\ UNCHANGED <<kind, counter, cleared, resets, sessions, claimed>>

Created(t) ==
    /\ At(t, "create")
    /\ Bounded(threads[t].tok.num)
    /\ kind = "dynamic" => There(AtomOf(threads[t].tok.num))
    /\ Continue(t, "exists")
    /\ UNCHANGED <<kind, counter, atoms, cleared, resets, sessions, claimed>>

\* Mutant: the bit is not set when it was clear.
ExistsUnset(t) ==
    /\ At(t, "exists")
    /\ LET n == threads[t].tok.num
       IN  /\ There(AtomOf(n))
           /\ IF BitOf(n) \in atoms[AtomOf(n)].bits
              THEN Goto(t, Idle) /\ UNCHANGED claimed
              ELSE Continue(t, "finish") /\ claimed' = claimed \cup {n}
    /\ UNCHANGED <<kind, counter, atoms, cleared, resets, sessions>>

\* exists: one fetch_or sets the bit and tells whether it was set before.  An
\* atom that is not there panics.
Exists(t) ==
    /\ At(t, "exists")
    /\ LET n == threads[t].tok.num
           i == AtomOf(n)
       IN  \/ /\ ~There(i)
              /\ Goto(t, Panicked)
              /\ UNCHANGED <<atoms, claimed>>
           \/ /\ There(i)
              /\ BitOf(n) \in atoms[i].bits
              /\ Goto(t, Idle)
              /\ UNCHANGED <<atoms, claimed>>
           \/ /\ There(i)
              /\ BitOf(n) \notin atoms[i].bits
              /\ atoms' = [atoms EXCEPT ![i].bits = @ \cup {BitOf(n)}]
              /\ claimed' = claimed \cup {n}
              /\ Continue(t, "finish")
    /\ UNCHANGED <<kind, counter, cleared, resets, sessions>>

\* The shared secrets match, ...
Session(t) ==
    /\ At(t, "finish")
    /\ sessions' = [sessions EXCEPT ![threads[t].tok] = @ + 1]
    /\ Goto(t, Idle)
    /\ UNCHANGED <<kind, counter, atoms, cleared, resets, claimed>>

\* ... or they do not, and the number is used up all the same.
Refuse(t) ==
    /\ At(t, "finish")
    /\ Goto(t, Idle)
    /\ UNCHANGED <<kind, counter, atoms, cleared, resets, sessions, claimed>>

LoginSession(t) ==
    \/ TooLarge(t) \/ PushStart(t) \/ Push(t) \/ Created(t)
    \/ Exists(t) \/ Session(t) \/ Refuse(t)

-----------------------------------------------------------------------------
(* UserState::reset.                                                       *)

\* The counter starts over, ...
ResetCounter ==
    /\ cleared = NoReset
    /\ resets < MaxResets
    /\ counter' = 0
    /\ cleared' = 0
    /\ resets' = resets + 1
    /\ UNCHANGED <<kind, atoms, threads, sessions, claimed>>

\* ... then one atom after the other is cleared, ...
ResetAtom ==
    /\ cleared \in 0 .. Len(atoms) - 1
    /\ atoms' = [atoms EXCEPT ![cleared + 1].bits = {}]
    /\ cleared' = cleared + 1
    /\ UNCHANGED <<kind, counter, threads, resets, sessions, claimed>>

\* ... up to the last there is.
ResetEnd ==
    /\ cleared = Len(atoms)
    /\ cleared' = NoReset
    /\ UNCHANGED <<kind, counter, atoms, threads, resets, sessions, claimed>>

Next ==
    \/ LoginStart
    \/ \E t \in Threads, tok \in tokens : Open(t, tok)
    \/ \E t \in Threads : LoginSession(t)
    \/ ResetCounter \/ ResetAtom \/ ResetEnd

Spec == Init /\ [][Next]_vars

\* A thread that is in login_session goes on.
FairSpec == Spec /\ \A t \in Threads : WF_vars(LoginSession(t))

-----------------------------------------------------------------------------
(***************************************************************************)
(* A login start generates at most one session, however many threads       *)
(* present its token at once, in every kind of bit set - and one more for  *)
(* each reset that was not over when the token was handed out: a reset     *)
(* starts the numbers over before it clears their bits, so the number of a *)
(* new token may be used, cleared and used again.                          *)
(***************************************************************************)
OneSessionPerReset ==
    \A tok \in tokens : sessions[tok] <= 1 + resets - tok.period

\* A thread finds the number of its token used.
Refuses(t) == At(t, "exists") /\ threads'[t] = Idle

(***************************************************************************)
(* A token is refused only when its number was used, in the sets whose     *)
(* numbers have a bit each.                                                *)
(***************************************************************************)
RefusedWasClaimed ==
    [][\A t \in Threads :
          kind # "small" /\ Refuses(t) => threads[t].tok.num \in claimed]_vars

(***************************************************************************)
(* The same for every set: login.rs:167 takes "exists" to say that the     *)
(* token was used, and the small set claims to hold 2048 values            *)
(* (compactset.rs:44).                                                     *)
(***************************************************************************)
SeenOnlyIfUsed ==
    [][\A t \in Threads : Refuses(t) => threads[t].tok.num \in claimed]_vars

(***************************************************************************)
(* A bit set that grows has the atom a thread needs in the end, and never  *)
(* lacks it later (the panic that compactset.rs:88 warns of), though       *)
(* threads push at the same time, a place is taken before the atom is      *)
(* there, and a reset runs: every login ends.                              *)
(***************************************************************************)
LoginsEnd ==
    \A t \in Threads : kind = "dynamic" /\ At(t, "create") ~> threads[t] = Idle

=============================================================================
