--------------------------- MODULE AppendOnlyMap ---------------------------
(***************************************************************************)
(* AppendOnlyArcMap and its views (tiauth-core/src/appendonly.rs): a hash  *)
(* map of fixed capacity that one writer fills while readers search it     *)
(* without a lock.  A search probes one slot after the other; every slot   *)
(* is a OnceLock, read or set in one step, so a step here is one probe.    *)
(***************************************************************************)
EXTENDS Integers, FiniteSets

CONSTANTS Keys, Values,
          Writer,           \* the owner of the map
          Readers,          \* holders of a view
          Requested,        \* the capacity asked for in new
          None,             \* an empty slot, no value, no search under way
          Panic,            \* the answer of a search that panicked
          CapacityError     \* the error of an insertion

Clients == Readers \cup {Writer}

(***************************************************************************)
(* new                                                                     *)
(***************************************************************************)

\* usize::next_power_of_two
NextPower(n) ==
    LET powers == {2^i : i \in 0..n}
    IN  CHOOSE p \in powers : p >= n /\ \A q \in powers : q >= n => p <= q

\* The next power of two; when it is too small, the next power of two of
\* that, which is the same number.
RealCapacity(n) ==
    LET next == NextPower(n)
    IN  IF 3 * next >= 4 * n THEN next ELSE NextPower(next)

Capacity == RealCapacity(Requested)

Slots == 0..(Capacity - 1)

ASSUME RequestedAssumption == Requested \in Nat

Entries == [key : Keys, value : Values]

ASSUME DistinctAssumption ==
    /\ Writer \notin Readers
    /\ None \notin Values \cup Entries \cup {Panic, CapacityError}
    /\ None \notin [key : Keys, result : {Panic}]
    /\ Panic \notin Values \cup {CapacityError}
    /\ CapacityError \notin Values

VARIABLES hash,     \* where RandomState sends every key, drawn in new
          slots,    \* AppendOnlyArcVec::elements
          used,     \* AppendOnlyArcVec::used
          search,   \* the search every client is in: key, value to insert
                    \* (None for get), number of probes done
          answer    \* what the last operation of a client returned

vars == <<hash, slots, used, search, answer>>

\* Mutant of Slot: square numbers.
SlotSquares(k, i) == (hash[k] + i * i) % Capacity

\* The slot of probe i: the increments 1, 2, 3, ... add up to the triangular
\* numbers.
Slot(k, i) == (hash[k] + (i * (i + 1)) \div 2) % Capacity

Answer(key, result) == [key |-> key, result |-> result]

Init ==
    /\ hash \in [Keys -> Slots]
    /\ slots = [i \in Slots |-> None]
    /\ used = 0
    /\ search = [c \in Clients |-> None]
    /\ answer = [c \in Clients |-> None]

(***************************************************************************)
(* search                                                                  *)
(***************************************************************************)

\* A panic ends the thread of the writer, but only the request of a reader.
Free(c) ==
    /\ search[c] = None
    /\ c = Writer => \A k \in Keys : answer[c] # Answer(k, Panic)

Start(c, k, v) ==
    /\ Free(c)
    /\ search' = [search EXCEPT ![c] = [key |-> k, value |-> v, probes |-> 0]]
    /\ answer' = [answer EXCEPT ![c] = None]
    /\ UNCHANGED <<hash, slots, used>>

Return(c, result) ==
    /\ search' = [search EXCEPT ![c] = None]
    /\ answer' = [answer EXCEPT ![c] = Answer(search[c].key, result)]

\* What the next probe of c reads.
Probed(c) == slots[Slot(search[c].key, search[c].probes)]

Probing(c) == search[c] # None /\ search[c].probes < Capacity

GetStart(c) == \E k \in Keys : Start(c, k, None)

InsertStart == \E k \in Keys, v \in Values : Start(Writer, k, v)

\* Mutants of Collide: every other slot is left out; keys are not compared.
CollideSkip(c) ==
    /\ Probing(c)
    /\ Probed(c) # None
    /\ Probed(c).key # search[c].key
    /\ search' = [search EXCEPT ![c].probes = IF @ + 2 > Capacity THEN Capacity
                                             ELSE @ + 2]
    /\ UNCHANGED <<hash, slots, used, answer>>

CollideBlind(c) ==
    /\ Probing(c)
    /\ Probed(c) # None
    /\ search' = [search EXCEPT ![c].probes = @ + 1]
    /\ UNCHANGED <<hash, slots, used, answer>>

\* Another key is in the slot: on to the next one.
Collide(c) ==
    /\ Probing(c)
    /\ Probed(c) # None
    /\ Probed(c).key # search[c].key
    /\ search' = [search EXCEPT ![c].probes = @ + 1]
    /\ UNCHANGED <<hash, slots, used, answer>>

\* get returns the value it finds, and insert the one that was there before.
Found(c) ==
    /\ Probing(c)
    /\ Probed(c) # None
    /\ Probed(c).key = search[c].key
    /\ Return(c, Probed(c).value)
    /\ UNCHANGED <<hash, slots, used>>

NotFound(c) ==
    /\ Probing(c)
    /\ search[c].value = None
    /\ Probed(c) = None
    /\ Return(c, None)
    /\ UNCHANGED <<hash, slots, used>>

\* Mutant of Set: a key that is there gets the new value.
SetReplaces ==
    LET s == search[Writer]
    IN  /\ Probing(Writer)
        /\ s.value # None
        /\ Probed(Writer) # None => Probed(Writer).key = s.key
        /\ Return(Writer, None)
        /\ slots' = [slots EXCEPT ![Slot(s.key, s.probes)] =
                         [key |-> s.key, value |-> s.value]]
        /\ UNCHANGED <<hash, used>>

\* AppendOnlyArcVec::set refuses only when used reaches the capacity, and
\* does not count what it sets.
Set ==
    LET s == search[Writer]
    IN  /\ Probing(Writer)
        /\ s.value # None
        /\ Probed(Writer) = None
        /\ IF used >= Capacity
           THEN /\ Return(Writer, CapacityError)
                /\ UNCHANGED slots
           ELSE /\ Return(Writer, None)
                /\ slots' = [slots EXCEPT ![Slot(s.key, s.probes)] =
                                 [key |-> s.key, value |-> s.value]]
        /\ UNCHANGED <<hash, used>>

\* "Should have found key or null key after full iteration!"
Exhausted(c) ==
    /\ search[c] # None
    /\ search[c].probes = Capacity
    /\ Return(c, Panic)
    /\ UNCHANGED <<hash, slots, used>>

Next ==
    \/ InsertStart
    \/ Set
    \/ \E c \in Clients :
          GetStart(c) \/ Collide(c) \/ Found(c) \/ NotFound(c) \/ Exhausted(c)

Spec == Init /\ [][Next]_vars

-----------------------------------------------------------------------------
(***************************************************************************)
(* Properties                                                              *)
(***************************************************************************)

Searches == [key : Keys, value : Values \cup {None}, probes : 0..Capacity]

Results == Values \cup {None, Panic, CapacityError}

TypeOK ==
    /\ hash \in [Keys -> Slots]
    /\ slots \in [Slots -> Entries \cup {None}]
    /\ used = 0
    /\ search \in [Clients -> Searches \cup {None}]
    /\ \A r \in Readers : search[r] # None => search[r].value = None
    /\ answer \in [Clients -> [key : Keys, result : Results] \cup {None}]

Filled(i) == slots[i] # None

\* Every entry can be reached: the probes of its key before its own slot hit
\* slots that are taken.
EntriesReachable ==
    \A i \in Slots : Filled(i) =>
        \E p \in 0..(Capacity - 1) :
            /\ Slot(slots[i].key, p) = i
            /\ \A q \in 0..(p - 1) : Filled(Slot(slots[i].key, q))

\* The slots a search has left behind are taken by other keys and stay so:
\* a search need not look back, whatever the writer does meanwhile.
ProbesBehind ==
    \A c \in Clients : search[c] # None =>
        \A q \in 0..(search[c].probes - 1) :
            LET i == Slot(search[c].key, q)
            IN  Filled(i) /\ slots[i].key # search[c].key

\* No key is stored twice (appendonly.rs:168, "a certain key can be inserted
\* only once").
KeysUnique ==
    \A i, j \in Slots :
        Filled(i) /\ Filled(j) /\ slots[i].key = slots[j].key => i = j

\* The triangular probes visit every slot of a map whose capacity is a power
\* of two, so a search gives up only when the map is full.
GivesUpOnlyWhenFull ==
    (\E c \in Clients, k \in Keys : answer[c] = Answer(k, Panic)) =>
        \A i \in Slots : Filled(i)

\* What slots s hold for key k: the value of its entry.
HeldIn(s, k) ==
    IF \E i \in Slots : s[i] # None /\ s[i].key = k
    THEN s[CHOOSE i \in Slots : s[i] # None /\ s[i].key = k].value
    ELSE None

\* The map as a whole.
Stored == [k \in Keys |-> HeldIn(slots, k)]

Once == INSTANCE OnceMap WITH store <- Stored

\* The map of slots implements OnceMap: what a search answers is what the map
\* held at the moment of its last probe, and an inserted value never changes
\* (appendonly.rs:344, "will not change, so if a value is returned, that same
\* value is guaranteed to be returned for the same key for future calls").
IsOnceMap == Once!Spec

=============================================================================
