-------------------------- MODULE UserLoginsProofs --------------------------
(***************************************************************************)
(* Theorems about UserLogins for every set of threads, every width of an   *)
(* atom, both kinds of bit set and every number of resets: a login token   *)
(* starts one session at most, and one more for each reset that was not    *)
(* over when it was handed out; and in the bit set that grows no token is  *)
(* refused whose number was not used.                                      *)
(***************************************************************************)
EXTENDS UserLogins, FiniteSetTheorems, TLAPS

Tokens == [num : Nat, period : Int]

Places ==
    {Idle, Panicked}
        \cup [at : {"create", "exists", "finish"}, tok : tokens]
        \cup [at : {"push"}, tok : tokens, index : Nat]

TypeOK ==
    /\ kind \in Kinds
    /\ counter \in Nat
    /\ atoms \in Seq(Atom)
    /\ threads \in [Threads -> Places]
    /\ cleared \in Nat \cup {NoReset}
    /\ resets \in Nat
    /\ tokens \subseteq Tokens
    /\ sessions \in [tokens -> Nat]
    /\ claimed \subseteq Nat

\* Every push that has not ended keeps an atom of its own from the others.
PushesApart ==
    \A t \in Threads : At(t, "push") =>
        /\ threads[t].index \in 1 .. Len(atoms)
        /\ ~ atoms[threads[t].index].there
        /\ \A u \in Threads :
              At(u, "push") /\ threads[u].index = threads[t].index => u = t

\* The threads that used up the number of tok, and have yet to compare the
\* shared secrets.
Finishing(tok) == {t \in Threads : At(t, "finish") /\ threads[t].tok = tok}

\* How often atom i was cleared.  A reset counts itself when it begins.
Cleanings(i) ==
    IF cleared = NoReset \/ cleared >= i THEN resets ELSE resets - 1

Spent(n) == There(AtomOf(n)) /\ BitOf(n) \in atoms[AtomOf(n)].bits

\* The sessions that number n is good for until its atom is cleared.
Left(n) == IF Spent(n) THEN 0 ELSE 1

\* The sessions of a token, those that may come of the threads that used its
\* number up, and the one it is still good for were paid for: by the token,
\* and by the clearings of its atom that followed.
Covered ==
    \A tok \in tokens :
        /\ IsFiniteSet(Finishing(tok))
        /\ sessions[tok] + Cardinality(Finishing(tok)) + Left(tok.num)
               <= 1 + Cleanings(AtomOf(tok.num)) - tok.period

\* A set bit of a set that grows belongs to one number, and a thread found
\* that number unused.
BitsClaimed ==
    kind # "small" =>
        \A i \in 1 .. Len(atoms) : \A b \in atoms[i].bits :
            (i - 1) * Width + b \in claimed

IInv == TypeOK /\ PushesApart /\ Covered /\ BitsClaimed

-----------------------------------------------------------------------------
(***************************************************************************)
(* Where a number is kept                                                  *)
(***************************************************************************)

\* Division with remainder.
LEMMA DivMod ==
    ASSUME NEW n \in Int, NEW w \in Nat \ {0}
    PROVE  /\ n \div w \in Int
           /\ n % w \in 0 .. w - 1
           /\ n % w = n - w * (n \div w)
           /\ n \in Nat => n \div w \in Nat
<1>1. PICK q \in Int, r \in Int : q = n \div w /\ r = n % w
    OBVIOUS
<1>2. r \in 0 .. w - 1 /\ r = n - w * q
    BY <1>1
<1>3. ASSUME n \in Nat PROVE q \in Nat
    <2> SUFFICES ASSUME q <= -1 PROVE FALSE
        OBVIOUS
    <2>1. w * q <= -w
        OBVIOUS
    <2> QED
        BY <1>2, <1>3, <2>1
<1> QED
    BY <1>1, <1>2, <1>3

\* Only one number has a given atom and a given bit in a set that grows.
LEMMA NumberOf ==
    ASSUME NEW n \in Nat, kind # "small"
    PROVE  (AtomOf(n) - 1) * Width + BitOf(n) = n
<1>1. PICK w \in Nat : w = Width /\ w > 0
    BY SizesAssumption
<1>2. CASE n < w
    <2>1. PICK q \in Int : q = n \div w /\ n % w = n - w * q /\ n % w \in 0 .. w - 1
                           /\ q \in Nat
        BY <1>1, DivMod
    <2>2. q = 0
        <3> SUFFICES ASSUME q >= 1 PROVE FALSE
            BY <2>1
        <3>1. w * q >= w
            BY <1>1
        <3> QED
            BY <1>2, <2>1, <3>1
    <2>3. n % w = n
        BY <2>1, <2>2
    <2>4. AtomOf(n) = 1 /\ BitOf(n) = n
        BY <1>1, <1>2, <2>3 DEF AtomOf, BitOf
    <2> QED
        BY <2>4, SizesAssumption
<1>3. CASE ~ (n < w)
    <2>1. PICK m \in Nat : m = n - w
        BY <1>1, <1>3
    <2>2. PICK q \in Int, r \in Int, p \in Int, s \in Int :
              /\ q = n \div w /\ r = n % w /\ p = m \div w /\ s = m % w
              /\ r = n - w * q /\ r \in 0 .. w - 1
              /\ s = m - w * p /\ s \in 0 .. w - 1
        BY <1>1, DivMod
    <2>3. PICK d \in Int : d = q - p - 1
        OBVIOUS
    <2>4. w * d = s - r
        <3>1. PICK x \in Int, y \in Int : x = w * q /\ y = w * p
            OBVIOUS
        <3>2. w * d = x - y - w
            BY <2>3, <3>1
        <3>3. r = n - x /\ s = m - y
            BY <2>2, <3>1
        <3> QED
            BY <2>1, <3>2, <3>3
    <2>5. d = 0
        <3>1. d >= 1 => w * d >= w
            BY <1>1
        <3>2. d <= -1 => w * d <= -w
            BY <1>1
        <3>3. -w < s - r /\ s - r < w
            BY <2>2
        <3> QED
            BY <2>4, <3>1, <3>2, <3>3
    <2>6. AtomOf(n) = 2 + p /\ BitOf(n) = r
        BY <1>1, <1>3, <2>1, <2>2 DEF AtomOf, BitOf
    <2>7. (1 + p) * w + r = n
        <3>1. (1 + p) * w = w * q
            <4>1. q = 1 + p
                BY <2>3, <2>5
            <4>2. \A a, b \in Int : a * b = b * a
                OBVIOUS
            <4> QED
                BY <1>1, <4>1, <4>2
        <3> QED
            BY <2>2, <3>1
    <2>8. (2 + p) - 1 = 1 + p
        OBVIOUS
    <2> QED
        BY <1>1, <2>6, <2>7, <2>8
<1> QED
    BY <1>1, <1>2, <1>3

\* Every number has an atom and a bit in it.
LEMMA PlaceType ==
    ASSUME NEW n \in Nat
    PROVE  AtomOf(n) \in Nat \ {0} /\ BitOf(n) \in 0 .. Width - 1
<1>1. BitOf(n) \in 0 .. Width - 1
    BY SizesAssumption, DivMod DEF BitOf
<1>2. CASE kind = "small"
    BY <1>1, <1>2, SizesAssumption DEF AtomOf, BitOf
<1>3. CASE kind # "small" /\ n < Width
    BY <1>1, <1>3 DEF AtomOf
<1>4. CASE kind # "small" /\ ~ (n < Width)
    <2>1. (n - Width) \div Width \in Nat
        BY <1>4, SizesAssumption, DivMod
    <2> QED
        BY <1>1, <1>4, <2>1 DEF AtomOf
<1> QED
    BY <1>1, <1>2, <1>3, <1>4, SizesAssumption

\* The set of a user never changes its kind.
LEMMA PlaceKept ==
    ASSUME kind' = kind, NEW n
    PROVE  AtomOf(n)' = AtomOf(n) /\ BitOf(n)' = BitOf(n)
BY DEF AtomOf, BitOf

-----------------------------------------------------------------------------
(***************************************************************************)
(* The threads and their tokens                                            *)
(***************************************************************************)

\* The login a thread is in.
LEMMA ThreadType ==
    ASSUME TypeOK, NEW t \in Threads
    PROVE  /\ threads[t] \in Places
           /\ threads[t].at \in {"create", "exists", "finish", "push"} =>
                 /\ threads[t].tok \in tokens
                 /\ threads[t].tok \in Tokens
                 /\ threads[t].tok.num \in Nat
           /\ threads[t].at \in {"create", "exists", "finish"} =>
                 threads[t] = [at |-> threads[t].at, tok |-> threads[t].tok]
           /\ At(t, "push") => threads[t].index \in Nat
<1>1. threads[t] \in Places /\ tokens \subseteq Tokens
    BY DEF TypeOK
<1>2. \A k \in Tokens : k.num \in Nat
    BY DEF Tokens
<1> QED
    BY <1>1, <1>2 DEF Places, Idle, Panicked, At

\* A thread goes to another place of its login.
LEMMA MoveType ==
    ASSUME TypeOK, NEW t \in Threads, NEW where \in Places, Goto(t, where)
    PROVE  /\ threads' \in [Threads -> Places]
           /\ threads'[t] = where
           /\ \A u \in Threads : u # t => threads'[u] = threads[u]
BY DEF TypeOK, Goto

\* Places depend on the tokens only, and more tokens make more places.
LEMMA PlacesGrow ==
    ASSUME tokens \subseteq tokens'
    PROVE  Places \subseteq Places'
BY DEF Places

\* A thread that neither uses a number up nor has done so leaves the sets of
\* those that have.
LEMMA FinishingKept ==
    ASSUME TypeOK, NEW t \in Threads, NEW where \in Places, Goto(t, where),
           ~ At(t, "finish"), where.at # "finish", NEW k
    PROVE  Finishing(k)' = Finishing(k)
<1>1. /\ threads'[t] = where
      /\ \A u \in Threads : u # t => threads'[u] = threads[u]
    BY MoveType
<1> QED
    BY <1>1 DEF Finishing, At

\* The budget holds when no clearing is lost and no bit is cleared but by a
\* clearing.
LEMMA CoveredKept ==
    ASSUME IInv, TypeOK', sessions' = sessions, kind' = kind,
           \A k \in tokens : Finishing(k)' = Finishing(k),
           \A n \in Nat : Left(n)' - Cleanings(AtomOf(n))'
                              <= Left(n) - Cleanings(AtomOf(n))
    PROVE  Covered'
<1> SUFFICES ASSUME NEW k \in tokens
             PROVE  /\ IsFiniteSet(Finishing(k)')
                    /\ sessions[k] + Cardinality(Finishing(k)') + Left(k.num)'
                           <= 1 + Cleanings(AtomOf(k.num))' - k.period
    BY DEF Covered, tokens
<1>1. /\ IsFiniteSet(Finishing(k))
      /\ sessions[k] + Cardinality(Finishing(k)) + Left(k.num)
             <= 1 + Cleanings(AtomOf(k.num)) - k.period
    BY DEF IInv, Covered
<1>2. /\ k.num \in Nat /\ k.period \in Int /\ sessions[k] \in Nat
      /\ Cardinality(Finishing(k)) \in Nat
    BY <1>1, FS_CardinalityType DEF IInv, TypeOK, Tokens
<1>3. /\ Left(k.num) \in Int /\ Left(k.num)' \in Int
      /\ Cleanings(AtomOf(k.num)) \in Int /\ Cleanings(AtomOf(k.num))' \in Int
    BY DEF Left, Cleanings, IInv, TypeOK
<1>4. Left(k.num)' - Cleanings(AtomOf(k.num))'
          <= Left(k.num) - Cleanings(AtomOf(k.num))
    BY <1>2
<1>5. Finishing(k)' = Finishing(k)
    OBVIOUS
<1>6. PICK s \in Nat, f \in Nat, a \in Int, b \in Int, c \in Int, d \in Int,
           p \in Int :
          /\ s = sessions[k] /\ f = Cardinality(Finishing(k)) /\ p = k.period
          /\ a = Left(k.num) /\ b = Left(k.num)'
          /\ c = Cleanings(AtomOf(k.num)) /\ d = Cleanings(AtomOf(k.num))'
    BY <1>2, <1>3
<1>7. s + f + a <= 1 + c - p /\ b - d <= a - c
    BY <1>1, <1>4, <1>6
<1>8. s + f + b <= 1 + d - p
    BY <1>7
<1> QED
    BY <1>1, <1>5, <1>6, <1>8

\* A step of a thread that touches no atom and uses no number up.
LEMMA QuietIInv ==
    ASSUME IInv, NEW t \in Threads, NEW where \in Places, Goto(t, where),
           ~ At(t, "finish"), ~ At(t, "push"),
           where.at \notin {"finish", "push"},
           UNCHANGED <<kind, counter, atoms, cleared, resets, sessions, claimed>>
    PROVE  IInv'
<1>1. tokens' = tokens /\ Places' = Places
    <2>1. tokens' = tokens
        BY DEF tokens
    <2> QED
        BY <2>1 DEF Places
<1>2. TypeOK'
    <2>1. threads' \in [Threads -> Places']
        BY <1>1, MoveType DEF IInv
    <2> QED
        BY <1>1, <2>1 DEF IInv, TypeOK
<1>3. PushesApart'
    <2>1. \A u \in Threads : At(u, "push")' =>
              u # t /\ At(u, "push") /\ threads'[u] = threads[u]
        BY MoveType DEF IInv, At
    <2> QED
        BY <2>1 DEF IInv, PushesApart
<1>4. \A n : Left(n)' = Left(n) /\ AtomOf(n)' = AtomOf(n)
    BY DEF Left, Spent, There, AtomOf, BitOf
<1>5. \A n \in Nat : Left(n)' - Cleanings(AtomOf(n))'
                         <= Left(n) - Cleanings(AtomOf(n))
    BY <1>4 DEF Cleanings, Left, IInv, TypeOK
<1>6. Covered'
    <2>1. \A k \in tokens : Finishing(k)' = Finishing(k)
        BY FinishingKept DEF IInv
    <2> QED
        BY <1>2, <1>5, <2>1, CoveredKept
<1>7. BitsClaimed'
    BY DEF IInv, BitsClaimed
<1> QED
    BY <1>2, <1>3, <1>6, <1>7 DEF IInv

-----------------------------------------------------------------------------
(***************************************************************************)
(* The atoms                                                               *)
(***************************************************************************)

\* An atom with other bits.
LEMMA WithBits ==
    ASSUME NEW e \in Atom, NEW B \in SUBSET (0 .. Width - 1)
    PROVE  /\ [e EXCEPT !.bits = B] = [there |-> e.there, bits |-> B]
           /\ [there |-> e.there, bits |-> B] \in Atom
<1>1. PICK x \in BOOLEAN, A \in SUBSET (0 .. Width - 1) :
          e = [there |-> x, bits |-> A]
    BY DEF Atom
<1> QED
    BY <1>1 DEF Atom

\* The atoms when one of them gets other bits.
LEMMA BitsReplaced ==
    ASSUME atoms \in Seq(Atom), NEW i \in 1 .. Len(atoms),
           NEW B \in SUBSET (0 .. Width - 1),
           atoms' = [atoms EXCEPT ![i].bits = B]
    PROVE  /\ Len(atoms') = Len(atoms)
           /\ \A j \in 1 .. Len(atoms) : j # i => atoms'[j] = atoms[j]
           /\ atoms'[i] = [there |-> atoms[i].there, bits |-> B]
           /\ atoms' \in Seq(Atom)
<1>1. PICK e \in Atom : e = atoms[i]
    OBVIOUS
<1>2. PICK f \in Atom : f = [e EXCEPT !.bits = B]
                        /\ f = [there |-> e.there, bits |-> B]
    BY WithBits
<1>3. atoms' = [atoms EXCEPT ![i] = f]
    BY <1>1, <1>2
<1> QED
    BY <1>1, <1>2, <1>3

\* What it takes to keep the budget of a step that changes no clearings: it
\* clears no bit.
LEMMA CoveredWhenSpentStays ==
    ASSUME IInv, TypeOK', UNCHANGED <<sessions, kind, cleared, resets>>,
           \A k \in tokens : Finishing(k)' = Finishing(k),
           \A n \in Nat : Spent(n) => Spent(n)'
    PROVE  Covered'
<1> SUFFICES ASSUME NEW n \in Nat
             PROVE  Left(n)' - Cleanings(AtomOf(n))'
                        <= Left(n) - Cleanings(AtomOf(n))
    BY CoveredKept
<1>1. Cleanings(AtomOf(n))' = Cleanings(AtomOf(n))
    BY PlaceKept DEF Cleanings
<1>2. Cleanings(AtomOf(n)) \in Int
    BY DEF Cleanings, IInv, TypeOK
<1>3. PICK c \in Int : c = Cleanings(AtomOf(n))
    BY <1>2
<1>4. Left(n) \in Int /\ Left(n)' \in Int /\ Left(n)' <= Left(n)
    BY DEF Left
<1> QED
    BY <1>1, <1>3, <1>4

\* A push takes the next index, and no thread is there yet.
LEMMA PushStartIInv ==
    ASSUME IInv, NEW t \in Threads, PushStart(t)
    PROVE  IInv'
<1> DEFINE where == [at |-> "push", tok |-> threads[t].tok, index |-> Len(atoms) + 1]
<1>1. /\ At(t, "create") /\ Goto(t, where)
      /\ atoms' = Append(atoms, Unready)
      /\ UNCHANGED <<kind, counter, cleared, resets, sessions, claimed>>
      /\ atoms \in Seq(Atom) /\ Len(atoms) \in Nat
    BY DEF PushStart, IInv, TypeOK
<1>2. threads[t].tok \in tokens
    BY <1>1, ThreadType DEF IInv, At
<1>3. where \in Places
    <2>1. Len(atoms) + 1 \in Nat
        BY <1>1
    <2> QED
        BY <1>2, <2>1 DEF Places
<1> HIDE DEF where
<1>4. /\ threads' \in [Threads -> Places]
      /\ threads'[t] = where
      /\ \A u \in Threads : u # t => threads'[u] = threads[u]
    BY <1>1, <1>3, MoveType DEF IInv
<1>5. /\ Len(atoms') = Len(atoms) + 1
      /\ \A i \in 1 .. Len(atoms) : atoms'[i] = atoms[i]
      /\ atoms'[Len(atoms) + 1] = Unready
      /\ atoms' \in Seq(Atom)
    <2>1. Unready \in Atom
        BY DEF Unready, Atom
    <2> QED
        BY <1>1, <2>1
<1>6. TypeOK'
    <2>1. tokens' = tokens
        BY <1>1 DEF tokens
    <2>2. Places' = Places
        BY <2>1 DEF Places
    <2> QED
        BY <1>1, <1>4, <1>5, <2>1, <2>2 DEF IInv, TypeOK
<1>7. PushesApart'
    <2>1. where.at = "push" /\ where.index = Len(atoms) + 1
        BY DEF where
    <2>2. ASSUME NEW u \in Threads, u # t, At(u, "push")'
          PROVE  /\ At(u, "push") /\ threads'[u] = threads[u]
                 /\ threads[u].index \in 1 .. Len(atoms)
                 /\ ~ atoms'[threads[u].index].there
        <3>1. At(u, "push") /\ threads'[u] = threads[u]
            BY <1>4, <2>2 DEF At
        <3>2. /\ threads[u].index \in 1 .. Len(atoms)
              /\ ~ atoms[threads[u].index].there
            BY <3>1 DEF IInv, PushesApart
        <3> QED
            BY <1>5, <3>1, <3>2
    <2>3. ~ atoms'[Len(atoms) + 1].there
        BY <1>5 DEF Unready
    <2>4. Len(atoms) + 1 \in 1 .. Len(atoms') /\ Len(atoms) + 1 \notin 1 .. Len(atoms)
          /\ 1 .. Len(atoms) \subseteq 1 .. Len(atoms')
        BY <1>1, <1>5
    <2>5. ASSUME NEW u \in Threads, At(u, "push")'
          PROVE  /\ threads'[u].index \in 1 .. Len(atoms')
                 /\ ~ atoms'[threads'[u].index].there
        BY <1>4, <2>1, <2>2, <2>3, <2>4, <2>5
    <2>6. ASSUME NEW u \in Threads, At(u, "push")', NEW v \in Threads, At(v, "push")',
                 threads'[u].index = threads'[v].index
          PROVE  u = v
        <3>1. CASE u = t
            BY <1>4, <2>1, <2>2, <2>4, <2>6, <3>1
        <3>2. CASE v = t
            BY <1>4, <2>1, <2>2, <2>4, <2>6, <3>2
        <3>3. CASE u # t /\ v # t
            BY <2>2, <2>6, <3>3 DEF IInv, PushesApart
        <3> QED
            BY <3>1, <3>2, <3>3
    <2> QED
        BY <2>5, <2>6 DEF PushesApart
<1>8. Covered'
    <2>1. \A k \in tokens : Finishing(k)' = Finishing(k)
        <3>1. ~ At(t, "finish") /\ where.at # "finish"
            BY <1>1 DEF At, where
        <3> QED
            BY <1>1, <1>3, <3>1, FinishingKept DEF IInv
    <2>2. ASSUME NEW n \in Nat, Spent(n) PROVE Spent(n)'
        <3>1. /\ AtomOf(n) \in Nat \ {0} /\ AtomOf(n)' = AtomOf(n)
              /\ BitOf(n)' = BitOf(n)
            BY <1>1, PlaceType, PlaceKept
        <3>2. AtomOf(n) \in 1 .. Len(atoms)
            BY <1>1, <2>2, <3>1 DEF Spent, There
        <3>3. atoms'[AtomOf(n)] = atoms[AtomOf(n)] /\ AtomOf(n) <= Len(atoms')
            BY <1>1, <1>5, <3>2
        <3> QED
            BY <2>2, <3>1, <3>3 DEF Spent, There
    <2> QED
        BY <1>1, <1>6, <2>1, <2>2, CoveredWhenSpentStays
<1>9. BitsClaimed'
    <2> SUFFICES ASSUME kind # "small", NEW i \in 1 .. Len(atoms'),
                        NEW b \in atoms'[i].bits
                 PROVE  (i - 1) * Width + b \in claimed
        BY <1>1 DEF BitsClaimed
    <2>1. CASE i \in 1 .. Len(atoms)
        BY <1>5, <2>1 DEF IInv, BitsClaimed
    <2>2. CASE i \notin 1 .. Len(atoms)
        <3>1. i = Len(atoms) + 1
            BY <1>1, <1>5, <2>2
        <3> QED
            BY <1>5, <3>1 DEF Unready
    <2> QED
        BY <2>1, <2>2
<1> QED
    BY <1>6, <1>7, <1>8, <1>9 DEF IInv

\* The atom a push makes seen was seen by no thread, and has no bit set.
LEMMA PushIInv ==
    ASSUME IInv, NEW t \in Threads, Push(t)
    PROVE  IInv'
<1> DEFINE where == [at |-> "create", tok |-> threads[t].tok]
           j == threads[t].index
<1>1. /\ At(t, "push") /\ Goto(t, where)
      /\ atoms' = [atoms EXCEPT ![j] = Clear]
      /\ UNCHANGED <<kind, counter, cleared, resets, sessions, claimed>>
      /\ atoms \in Seq(Atom) /\ Len(atoms) \in Nat
    BY DEF Push, IInv, TypeOK
<1>2. threads[t].tok \in tokens
    BY <1>1, ThreadType DEF IInv, At
<1>3. where \in Places
    BY <1>2 DEF Places
<1> HIDE DEF where
<1>4. /\ threads' \in [Threads -> Places]
      /\ threads'[t] = where
      /\ \A u \in Threads : u # t => threads'[u] = threads[u]
    BY <1>1, <1>3, MoveType DEF IInv
<1>5. /\ j \in 1 .. Len(atoms)
      /\ ~ atoms[j].there
      /\ \A u \in Threads : u # t /\ At(u, "push") => threads[u].index # j
    BY <1>1 DEF IInv, PushesApart
<1> HIDE DEF j
<1>6. /\ Len(atoms') = Len(atoms)
      /\ \A i \in 1 .. Len(atoms) : i # j => atoms'[i] = atoms[i]
      /\ atoms'[j] = Clear
      /\ atoms' \in Seq(Atom)
    <2>1. Clear \in Atom
        BY DEF Clear, Atom
    <2> QED
        BY <1>1, <1>5, <2>1
<1>7. TypeOK'
    <2>1. tokens' = tokens
        BY <1>1 DEF tokens
    <2>2. Places' = Places
        BY <2>1 DEF Places
    <2> QED
        BY <1>1, <1>4, <1>6, <2>1, <2>2 DEF IInv, TypeOK
<1>8. PushesApart'
    <2>1. ASSUME NEW u \in Threads, At(u, "push")'
          PROVE  u # t /\ At(u, "push") /\ threads'[u] = threads[u]
        BY <1>4, <2>1 DEF At, where
    <2>2. ASSUME NEW u \in Threads, At(u, "push")'
          PROVE  /\ threads'[u].index \in 1 .. Len(atoms')
                 /\ ~ atoms'[threads'[u].index].there
        <3>1. /\ threads[u].index \in 1 .. Len(atoms)
              /\ ~ atoms[threads[u].index].there
              /\ threads[u].index # j
            BY <1>5, <2>1, <2>2 DEF IInv, PushesApart
        <3> QED
            BY <1>6, <2>1, <2>2, <3>1
    <2> QED
        BY <2>1, <2>2 DEF IInv, PushesApart
<1>9. Covered'
    <2>1. \A k \in tokens : Finishing(k)' = Finishing(k)
        <3>1. ~ At(t, "finish") /\ where.at # "finish"
            BY <1>1 DEF At, where
        <3> QED
            BY <1>1, <1>3, <3>1, FinishingKept DEF IInv
    <2>2. ASSUME NEW n \in Nat, Spent(n) PROVE Spent(n)'
        <3>1. /\ AtomOf(n) \in Nat \ {0} /\ AtomOf(n)' = AtomOf(n)
              /\ BitOf(n)' = BitOf(n)
            BY <1>1, PlaceType, PlaceKept
        <3>2. AtomOf(n) \in 1 .. Len(atoms) /\ AtomOf(n) # j
            BY <1>1, <1>5, <2>2, <3>1 DEF Spent, There
        <3>3. atoms'[AtomOf(n)] = atoms[AtomOf(n)] /\ AtomOf(n) <= Len(atoms')
            BY <1>1, <1>6, <3>2
        <3> QED
            BY <2>2, <3>1, <3>3 DEF Spent, There
    <2> QED
        BY <1>1, <1>7, <2>1, <2>2, CoveredWhenSpentStays
<1>10. BitsClaimed'
    <2> SUFFICES ASSUME kind # "small", NEW i \in 1 .. Len(atoms'),
                        NEW b \in atoms'[i].bits
                 PROVE  (i - 1) * Width + b \in claimed
        BY <1>1 DEF BitsClaimed
    <2>1. i # j
        BY <1>6 DEF Clear
    <2> QED
        BY <1>6, <2>1 DEF IInv, BitsClaimed
<1> QED
    BY <1>7, <1>8, <1>9, <1>10 DEF IInv

-----------------------------------------------------------------------------
(***************************************************************************)
(* A number is used up, and a login ends                                   *)
(***************************************************************************)

\* The token a thread is about to look up.
LEMMA ExistsType ==
    ASSUME IInv, NEW t \in Threads, At(t, "exists")
    PROVE  /\ threads[t] = [at |-> "exists", tok |-> threads[t].tok]
           /\ threads[t].tok \in tokens
           /\ threads[t].tok.num \in Nat
           /\ AtomOf(threads[t].tok.num) \in Nat \ {0}
           /\ BitOf(threads[t].tok.num) \in 0 .. Width - 1
<1>1. /\ threads[t] = [at |-> threads[t].at, tok |-> threads[t].tok]
      /\ threads[t].at = "exists"
      /\ threads[t].tok \in tokens
      /\ threads[t].tok.num \in Nat
    BY ThreadType DEF IInv, At
<1> QED
    BY <1>1, PlaceType

\* The bit of a number that is not used is set, and the session it is good for
\* is now up to the thread that set it.
LEMMA ClaimIInv ==
    ASSUME IInv, NEW t \in Threads, At(t, "exists"),
           There(AtomOf(threads[t].tok.num)),
           BitOf(threads[t].tok.num) \notin atoms[AtomOf(threads[t].tok.num)].bits,
           atoms' = [atoms EXCEPT ![AtomOf(threads[t].tok.num)].bits =
                         @ \cup {BitOf(threads[t].tok.num)}],
           claimed' = claimed \cup {threads[t].tok.num},
           Continue(t, "finish"),
           UNCHANGED <<kind, counter, cleared, resets, sessions>>
    PROVE  IInv'
<1> DEFINE tok == threads[t].tok
           where == [at |-> "finish", tok |-> tok]
<1>1. PICK n \in Nat, i \in Nat \ {0}, b \in 0 .. Width - 1 :
          n = tok.num /\ i = AtomOf(n) /\ b = BitOf(n)
    BY ExistsType
<1>2. PICK k \in tokens : k = tok
    BY ExistsType
<1>3. /\ Goto(t, where)
      /\ where \in Places
    <2>1. Goto(t, [threads[t] EXCEPT !.at = "finish"])
        BY DEF Continue
    <2>2. [threads[t] EXCEPT !.at = "finish"] = where
        <3>1. threads[t] = [at |-> "exists", tok |-> k]
            BY <1>2, ExistsType
        <3>2. [[at |-> "exists", tok |-> k] EXCEPT !.at = "finish"]
                  = [at |-> "finish", tok |-> k]
            OBVIOUS
        <3> QED
            BY <1>2, <3>1, <3>2, Zenon
    <2>3. where \in Places
        BY <1>2 DEF Places
    <2> QED
        BY <2>1, <2>2, <2>3
<1>4. where.at = "finish" /\ where.tok = k
    BY <1>2
<1>5. /\ i \in 1 .. Len(atoms)
      /\ atoms[i].there /\ b \notin atoms[i].bits
      /\ atoms' = [atoms EXCEPT ![i].bits = @ \cup {b}]
      /\ claimed' = claimed \cup {n}
      /\ atoms \in Seq(Atom) /\ Len(atoms) \in Nat
    BY <1>1 DEF There, IInv, TypeOK
<1>6. n = k.num
    BY <1>1, <1>2
<1> HIDE DEF tok, where
<1>7. /\ threads' \in [Threads -> Places]
      /\ threads'[t] = where
      /\ \A u \in Threads : u # t => threads'[u] = threads[u]
    BY <1>3, MoveType DEF IInv
<1>8. /\ Len(atoms') = Len(atoms)
      /\ \A j \in 1 .. Len(atoms) : j # i => atoms'[j] = atoms[j]
      /\ atoms'[i] = [there |-> atoms[i].there, bits |-> atoms[i].bits \cup {b}]
      /\ atoms' \in Seq(Atom)
    <2>1. PICK B \in SUBSET (0 .. Width - 1) : B = atoms[i].bits \cup {b}
        <3>1. PICK e \in Atom : e = atoms[i]
            BY <1>5
        <3>2. e.bits \in SUBSET (0 .. Width - 1)
            BY DEF Atom
        <3> QED
            BY <3>1, <3>2
    <2>2. atoms' = [atoms EXCEPT ![i].bits = B]
        BY <1>5, <2>1
    <2> QED
        BY <1>5, <2>1, <2>2, BitsReplaced
<1>9. \A j \in 1 .. Len(atoms) : /\ atoms'[j].there = atoms[j].there
                                 /\ atoms[j].bits \subseteq atoms'[j].bits
    BY <1>8
<1>10. TypeOK'
    <2>1. tokens' = tokens
        BY DEF tokens
    <2>2. Places' = Places
        BY <2>1 DEF Places
    <2> QED
        BY <1>5, <1>7, <1>8, <2>1, <2>2 DEF IInv, TypeOK
<1>11. PushesApart'
    <2>1. ASSUME NEW u \in Threads, At(u, "push")'
          PROVE  u # t /\ At(u, "push") /\ threads'[u] = threads[u]
        BY <1>4, <1>7, <2>1 DEF At
    <2> QED
        BY <1>8, <1>9, <2>1 DEF IInv, PushesApart
<1>12. ASSUME NEW m \in Nat, Spent(m) PROVE Spent(m)'
    <2>1. /\ AtomOf(m) \in Nat \ {0} /\ AtomOf(m)' = AtomOf(m)
          /\ BitOf(m)' = BitOf(m)
        BY PlaceType, PlaceKept
    <2>2. AtomOf(m) \in 1 .. Len(atoms)
        BY <1>5, <1>12, <2>1 DEF Spent, There
    <2> QED
        BY <1>8, <1>9, <1>12, <2>1, <2>2 DEF Spent, There
<1>13. Covered'
    <2> SUFFICES ASSUME NEW l \in tokens
                 PROVE  /\ IsFiniteSet(Finishing(l)')
                        /\ sessions[l] + Cardinality(Finishing(l)') + Left(l.num)'
                               <= 1 + Cleanings(AtomOf(l.num))' - l.period
        BY DEF Covered, tokens
    <2>1. /\ IsFiniteSet(Finishing(l))
          /\ sessions[l] + Cardinality(Finishing(l)) + Left(l.num)
                 <= 1 + Cleanings(AtomOf(l.num)) - l.period
        BY DEF IInv, Covered
    <2>2. PICK s \in Nat, f \in Nat, p \in Int, c \in Int, m \in Nat :
              /\ s = sessions[l] /\ f = Cardinality(Finishing(l)) /\ p = l.period
              /\ c = Cleanings(AtomOf(l.num)) /\ m = l.num
        BY <2>1, FS_CardinalityType DEF IInv, TypeOK, Tokens, Cleanings
    <2>3. Cleanings(AtomOf(l.num))' = Cleanings(AtomOf(l.num))
        BY PlaceKept DEF Cleanings
    <2>4. CASE l = k
        <3>1. Finishing(l)' = Finishing(l) \cup {t} /\ t \notin Finishing(l)
            BY <1>4, <1>7, <2>4 DEF Finishing, At
        <3>2. IsFiniteSet(Finishing(l)') /\ Cardinality(Finishing(l)') = f + 1
            BY <2>1, <2>2, <3>1, FS_AddElement
        <3>3. Left(l.num) = 1
            BY <1>1, <1>5, <1>6, <2>4 DEF Left, Spent
        <3>4. Left(l.num)' = 0
            <4>1. AtomOf(l.num)' = i /\ BitOf(l.num)' = b
                BY <1>1, <1>6, <2>4, PlaceKept
            <4>2. i <= Len(atoms') /\ atoms'[i].there /\ b \in atoms'[i].bits
                BY <1>5, <1>8
            <4> QED
                BY <4>1, <4>2 DEF Left, Spent, There
        <3>5. s + f + 1 <= 1 + c - p
            BY <2>1, <2>2, <3>3
        <3>6. s + (f + 1) + 0 <= 1 + c - p
            BY <3>5
        <3> QED
            BY <2>2, <2>3, <3>2, <3>4, <3>6
    <2>5. CASE l # k
        <3>1. Finishing(l)' = Finishing(l)
            BY <1>4, <1>7, <2>5 DEF Finishing, At
        <3>2. PICK a \in Int, d \in Int : a = Left(l.num) /\ d = Left(l.num)' /\ d <= a
            BY <1>12, <2>2 DEF Left
        <3>3. s + f + a <= 1 + c - p
            BY <2>1, <2>2, <3>2
        <3>4. s + f + d <= 1 + c - p
            BY <3>2, <3>3
        <3> QED
            BY <2>1, <2>2, <2>3, <3>1, <3>2, <3>4
    <2> QED
        BY <2>4, <2>5
<1>14. BitsClaimed'
    <2> SUFFICES ASSUME kind # "small", NEW j \in 1 .. Len(atoms'),
                        NEW x \in atoms'[j].bits
                 PROVE  (j - 1) * Width + x \in claimed'
        BY DEF BitsClaimed
    <2>1. CASE j = i /\ x = b
        <3>1. (i - 1) * Width + b = n
            BY <1>1, NumberOf
        <3> QED
            BY <1>5, <2>1, <3>1
    <2>2. CASE ~ (j = i /\ x = b)
        <3>1. x \in atoms[j].bits /\ j \in 1 .. Len(atoms)
            <4>1. j \in 1 .. Len(atoms)
                BY <1>8
            <4>2. CASE j = i
                BY <1>8, <2>2, <4>1, <4>2
            <4>3. CASE j # i
                BY <1>8, <4>1, <4>3
            <4> QED
                BY <4>1, <4>2, <4>3
        <3> QED
            BY <1>5, <3>1 DEF IInv, BitsClaimed
    <2> QED
        BY <2>1, <2>2
<1> QED
    BY <1>10, <1>11, <1>13, <1>14 DEF IInv

\* A thread that used a number up starts one session of its token at most.
LEMMA EndIInv ==
    ASSUME IInv, NEW t \in Threads, At(t, "finish"), Goto(t, Idle),
           sessions' = [sessions EXCEPT ![threads[t].tok] = @ + 1]
               \/ sessions' = sessions,
           UNCHANGED <<kind, counter, atoms, cleared, resets, claimed>>
    PROVE  IInv'
<1>1. PICK k \in tokens : k = threads[t].tok
    BY ThreadType DEF IInv, At
<1>2. /\ sessions' \in [tokens -> Nat]
      /\ sessions'[k] \in {sessions[k], sessions[k] + 1}
      /\ \A l \in tokens : l # k => sessions'[l] = sessions[l]
      /\ tokens' = tokens
    BY <1>1 DEF IInv, TypeOK, tokens
<1>3. Places' = Places /\ Idle \in Places
    BY <1>2 DEF Places
<1>4. /\ threads' \in [Threads -> Places]
      /\ threads'[t] = Idle
      /\ \A u \in Threads : u # t => threads'[u] = threads[u]
    BY <1>3, MoveType DEF IInv
<1>5. TypeOK'
    BY <1>2, <1>3, <1>4 DEF IInv, TypeOK
<1>6. PushesApart'
    <2>1. ASSUME NEW u \in Threads, At(u, "push")'
          PROVE  u # t /\ At(u, "push") /\ threads'[u] = threads[u]
        BY <1>4, <2>1 DEF At, Idle
    <2> QED
        BY <2>1 DEF IInv, PushesApart
<1>7. Covered'
    <2> SUFFICES ASSUME NEW l \in tokens
                 PROVE  /\ IsFiniteSet(Finishing(l)')
                        /\ sessions'[l] + Cardinality(Finishing(l)') + Left(l.num)'
                               <= 1 + Cleanings(AtomOf(l.num))' - l.period
        BY <1>2 DEF Covered
    <2>1. /\ IsFiniteSet(Finishing(l))
          /\ sessions[l] + Cardinality(Finishing(l)) + Left(l.num)
                 <= 1 + Cleanings(AtomOf(l.num)) - l.period
        BY DEF IInv, Covered
    <2>2. PICK s \in Nat, f \in Nat, p \in Int, c \in Int, a \in Int :
              /\ s = sessions[l] /\ f = Cardinality(Finishing(l)) /\ p = l.period
              /\ c = Cleanings(AtomOf(l.num)) /\ a = Left(l.num)
        BY <2>1, FS_CardinalityType DEF IInv, TypeOK, Tokens, Cleanings, Left
    <2>3. /\ Cleanings(AtomOf(l.num))' = Cleanings(AtomOf(l.num))
          /\ Left(l.num)' = Left(l.num)
        BY PlaceKept DEF Cleanings, Left, Spent, There
    <2>4. s + f + a <= 1 + c - p
        BY <2>1, <2>2
    <2>5. CASE l = k
        <3>1. Finishing(l)' = Finishing(l) \ {t} /\ t \in Finishing(l)
            BY <1>1, <1>4, <2>5 DEF Finishing, At, Idle
        <3>2. IsFiniteSet(Finishing(l)') /\ Cardinality(Finishing(l)') = f - 1
            BY <2>1, <2>2, <3>1, FS_RemoveElement
        <3>3. PICK r \in Nat : r = sessions'[l] /\ r <= s + 1
            BY <1>2, <2>2, <2>5
        <3>4. r + (f - 1) + a <= 1 + c - p
            BY <2>4, <3>3
        <3> QED
            BY <2>2, <2>3, <3>2, <3>3, <3>4
    <2>6. CASE l # k
        <3>1. Finishing(l)' = Finishing(l)
            BY <1>1, <1>4, <2>6 DEF Finishing, At, Idle
        <3> QED
            BY <1>2, <2>1, <2>2, <2>3, <2>4, <2>6, <3>1
    <2> QED
        BY <2>5, <2>6
<1>8. BitsClaimed'
    BY DEF IInv, BitsClaimed
<1> QED
    BY <1>5, <1>6, <1>7, <1>8 DEF IInv

-----------------------------------------------------------------------------
(***************************************************************************)
(* Tokens are handed out, and a reset runs                                 *)
(***************************************************************************)

\* A new token has started no session, and no thread has it.
LEMMA LoginStartIInv ==
    ASSUME IInv, LoginStart
    PROVE  IInv'
<1> DEFINE new == [num    |-> counter,
                   period |-> IF cleared = NoReset THEN resets ELSE resets - 1]
<1>1. /\ sessions' = [s \in tokens \cup {new} |->
                          IF s \in tokens THEN sessions[s] ELSE 0]
      /\ counter' = counter + 1
      /\ UNCHANGED <<kind, atoms, threads, cleared, resets, claimed>>
    BY DEF LoginStart
<1>2. PICK k \in Tokens : k = new /\ k.num \in Nat /\ k.period \in Int
                          /\ k.period = IF cleared = NoReset THEN resets
                                        ELSE resets - 1
    <2>1. PICK p \in Int : p = IF cleared = NoReset THEN resets ELSE resets - 1
        BY DEF IInv, TypeOK
    <2>2. counter \in Nat /\ new = [num |-> counter, period |-> p]
        BY <2>1 DEF IInv, TypeOK
    <2>3. PICK k \in Tokens : k = [num |-> counter, period |-> p]
        BY <2>2 DEF Tokens
    <2>4. k.num = counter /\ k.period = p
        BY <2>3
    <2> QED
        BY <2>1, <2>2, <2>3, <2>4, Zenon
<1> HIDE DEF new
<1>3. /\ tokens' = tokens \cup {k}
      /\ sessions' \in [tokens' -> Nat]
      /\ \A l \in tokens : sessions'[l] = sessions[l]
      /\ k \notin tokens => sessions'[k] = 0
    BY <1>1, <1>2 DEF IInv, TypeOK, tokens
<1>4. TypeOK'
    <2>1. Places \subseteq Places'
        BY <1>3, PlacesGrow
    <2>2. threads' \in [Threads -> Places']
        BY <1>1, <2>1 DEF IInv, TypeOK
    <2> QED
        BY <1>1, <1>2, <1>3, <2>2 DEF IInv, TypeOK
<1>5. PushesApart'
    BY <1>1 DEF IInv, PushesApart, At
<1>6. Covered'
    <2> SUFFICES ASSUME NEW l \in tokens'
                 PROVE  /\ IsFiniteSet(Finishing(l)')
                        /\ sessions'[l] + Cardinality(Finishing(l)') + Left(l.num)'
                               <= 1 + Cleanings(AtomOf(l.num))' - l.period
        BY DEF Covered
    <2>1. /\ Finishing(l)' = Finishing(l)
          /\ Cleanings(AtomOf(l.num))' = Cleanings(AtomOf(l.num))
          /\ Left(l.num)' = Left(l.num)
        BY <1>1, PlaceKept DEF Finishing, At, Cleanings, Left, Spent, There
    <2>2. CASE l \in tokens
        BY <1>3, <2>1, <2>2 DEF IInv, Covered
    <2>3. CASE l \notin tokens
        <3>1. l = k
            BY <1>3, <2>3
        <3>2. Finishing(l) = {}
            BY <2>3, ThreadType DEF Finishing, At, IInv
        <3>3. IsFiniteSet(Finishing(l)') /\ Cardinality(Finishing(l)') = 0
            BY <2>1, <3>2, FS_EmptySet
        <3>4. PICK a \in Int : a = Left(l.num) /\ a <= 1
            BY DEF Left
        <3>5. PICK c \in Int : c = Cleanings(AtomOf(l.num)) /\ c >= l.period
            BY <1>2, <3>1 DEF Cleanings, IInv, TypeOK
        <3>6. l.period \in Int /\ sessions'[l] = 0
            BY <1>2, <1>3, <2>3, <3>1
        <3>7. 0 + 0 + a <= 1 + c - l.period
            BY <3>4, <3>5, <3>6
        <3> QED
            BY <2>1, <3>3, <3>4, <3>5, <3>6, <3>7
    <2> QED
        BY <2>2, <2>3
<1>7. BitsClaimed'
    BY <1>1 DEF IInv, BitsClaimed
<1> QED
    BY <1>4, <1>5, <1>6, <1>7 DEF IInv

\* A reset that begins has cleared no atom, one that ends has cleared all.
LEMMA ResetBoundsIInv ==
    ASSUME IInv, ResetCounter \/ ResetEnd
    PROVE  IInv'
<1>1. /\ UNCHANGED <<kind, atoms, threads, sessions, claimed>>
      /\ counter' \in Nat /\ cleared' \in Nat \cup {NoReset} /\ resets' \in Nat
    BY DEF ResetCounter, ResetEnd, IInv, TypeOK
<1>2. tokens' = tokens /\ Places' = Places
    <2>1. tokens' = tokens
        BY <1>1 DEF tokens
    <2> QED
        BY <2>1 DEF Places
<1>3. TypeOK'
    BY <1>1, <1>2 DEF IInv, TypeOK
<1>4. PushesApart' /\ BitsClaimed'
    BY <1>1 DEF IInv, PushesApart, BitsClaimed, At
<1>5. ASSUME NEW i \in Nat \ {0}
      PROVE  /\ Cleanings(i) \in Int /\ Cleanings(i)' \in Int
             /\ Cleanings(i) <= Cleanings(i)'
    <2>1. CASE ResetCounter
        BY <2>1 DEF ResetCounter, Cleanings, NoReset, IInv, TypeOK
    <2>2. CASE ResetEnd
        BY <2>2 DEF ResetEnd, Cleanings, NoReset, IInv, TypeOK
    <2> QED
        BY <2>1, <2>2
<1>6. ASSUME NEW n \in Nat
      PROVE  Left(n)' - Cleanings(AtomOf(n))' <= Left(n) - Cleanings(AtomOf(n))
    <2>1. AtomOf(n) \in Nat \ {0} /\ AtomOf(n)' = AtomOf(n)
        BY <1>1, PlaceType, PlaceKept
    <2>2. PICK i \in Nat \ {0} : i = AtomOf(n) /\ i = AtomOf(n)'
        BY <2>1
    <2>3. Left(n)' = Left(n) /\ Left(n) \in Int
        BY <1>1, PlaceKept DEF Left, Spent, There
    <2>4. Cleanings(AtomOf(n))' = Cleanings(i)'
        BY <2>1, <2>2 DEF Cleanings
    <2>5. PICK c \in Int, d \in Int : c = Cleanings(i) /\ d = Cleanings(i)' /\ c <= d
        BY <1>5
    <2> QED
        BY <2>2, <2>3, <2>4, <2>5
<1>7. Covered'
    <2>1. \A k \in tokens : Finishing(k)' = Finishing(k)
        BY <1>1 DEF Finishing, At
    <2> QED
        BY <1>1, <1>3, <1>6, <2>1, CoveredKept
<1> QED
    BY <1>3, <1>4, <1>7 DEF IInv

\* The bits that a reset clears are paid for by the clearing.
LEMMA ResetAtomIInv ==
    ASSUME IInv, ResetAtom
    PROVE  IInv'
<1>1. PICK i \in 1 .. Len(atoms) :
          /\ i = cleared + 1 /\ cleared \in Nat /\ cleared # NoReset
          /\ atoms' = [atoms EXCEPT ![i].bits = {}]
          /\ cleared' = i
          /\ UNCHANGED <<kind, counter, threads, resets, sessions, claimed>>
    <2>1. /\ cleared \in 0 .. Len(atoms) - 1 /\ Len(atoms) \in Nat
          /\ atoms' = [atoms EXCEPT ![cleared + 1].bits = {}]
          /\ cleared' = cleared + 1
          /\ UNCHANGED <<kind, counter, threads, resets, sessions, claimed>>
        BY DEF ResetAtom, IInv, TypeOK
    <2>2. PICK i \in 1 .. Len(atoms) : i = cleared + 1
        BY <2>1
    <2>3. cleared \in Nat /\ cleared # NoReset
        BY <2>1 DEF NoReset
    <2> QED
        BY <2>1, <2>2, <2>3, Zenon
<1>2. atoms \in Seq(Atom) /\ Len(atoms) \in Nat /\ resets \in Nat
    BY DEF IInv, TypeOK
<1>3. /\ Len(atoms') = Len(atoms)
      /\ \A j \in 1 .. Len(atoms) : j # i => atoms'[j] = atoms[j]
      /\ atoms'[i] = [there |-> atoms[i].there, bits |-> {}]
      /\ atoms' \in Seq(Atom)
    <2>1. PICK B \in SUBSET (0 .. Width - 1) : B = {}
        OBVIOUS
    <2>2. atoms' = [atoms EXCEPT ![i].bits = B]
        BY <1>1, <2>1
    <2> QED
        BY <1>2, <2>1, <2>2, BitsReplaced
<1>4. tokens' = tokens /\ Places' = Places
    <2>1. tokens' = tokens
        BY <1>1 DEF tokens
    <2> QED
        BY <2>1 DEF Places
<1>5. TypeOK'
    <2>1. cleared' \in Nat
        BY <1>1, <1>2
    <2> QED
        BY <1>1, <1>3, <1>4, <2>1 DEF IInv, TypeOK
<1>6. \A j \in 1 .. Len(atoms) : atoms'[j].there = atoms[j].there
    BY <1>3
<1>7. PushesApart'
    BY <1>1, <1>3, <1>6 DEF IInv, PushesApart, At
<1>8. ASSUME NEW n \in Nat
      PROVE  Left(n)' - Cleanings(AtomOf(n))' <= Left(n) - Cleanings(AtomOf(n))
    <2>1. AtomOf(n) \in Nat \ {0} /\ AtomOf(n)' = AtomOf(n) /\ BitOf(n)' = BitOf(n)
        BY <1>1, PlaceType, PlaceKept
    <2>2. PICK j \in Nat \ {0} : j = AtomOf(n) /\ j = AtomOf(n)'
        BY <2>1
    <2>3. PICK a \in Int, b \in Int :
              a = Left(n) /\ b = Left(n)' /\ a >= 0 /\ b <= 1
        BY DEF Left
    <2>4. CASE j = i
        <3>1. Cleanings(AtomOf(n)) = resets - 1
            BY <1>1, <1>2, <2>2, <2>4 DEF Cleanings
        <3>2. Cleanings(AtomOf(n))' = resets
            BY <1>1, <1>2, <2>2, <2>4 DEF Cleanings
        <3> QED
            BY <1>2, <2>3, <3>1, <3>2
    <2>5. CASE j # i
        <3>1. Cleanings(AtomOf(n))' = Cleanings(AtomOf(n))
            BY <1>1, <1>2, <2>2, <2>5 DEF Cleanings, NoReset
        <3>2. Spent(n)' = Spent(n)
            <4>1. There(AtomOf(n))' = There(AtomOf(n))
                BY <1>2, <1>3, <2>2, <2>5 DEF There
            <4>2. There(AtomOf(n)) => atoms'[AtomOf(n)'] = atoms[AtomOf(n)]
                BY <1>2, <1>3, <2>2, <2>5 DEF There
            <4> QED
                BY <2>1, <4>1, <4>2 DEF Spent
        <3>3. Cleanings(AtomOf(n)) \in Int
            BY <1>2 DEF Cleanings
        <3>4. a = b
            BY <2>3, <3>2 DEF Left
        <3> QED
            BY <2>3, <3>1, <3>3, <3>4
    <2> QED
        BY <2>4, <2>5
<1>9. Covered'
    <2>1. \A k \in tokens : Finishing(k)' = Finishing(k)
        BY <1>1 DEF Finishing, At
    <2> QED
        BY <1>1, <1>5, <1>8, <2>1, CoveredKept
<1>10. BitsClaimed'
    BY <1>1, <1>3 DEF IInv, BitsClaimed
<1> QED
    BY <1>5, <1>7, <1>9, <1>10 DEF IInv

-----------------------------------------------------------------------------
(***************************************************************************)
(* The theorems                                                            *)
(***************************************************************************)

\* A new user has no token, and no bit of the set is set.
LEMMA InitIInv == Init => IInv
<1> SUFFICES ASSUME Init PROVE IInv
    OBVIOUS
<1>1. tokens = {}
    BY DEF Init, tokens
<1>2. /\ atoms \in Seq(Atom)
      /\ \A i \in 1 .. Len(atoms) : atoms[i] = Clear
    <2>1. PICK n \in Nat : atoms = [i \in 1 .. n |-> Clear]
        BY SizesAssumption DEF Init
    <2>2. Clear \in Atom
        BY DEF Clear, Atom
    <2> QED
        BY <2>1, <2>2
<1>3. TypeOK
    BY <1>1, <1>2 DEF Init, TypeOK, Places
<1>4. PushesApart
    BY DEF Init, PushesApart, At, Idle
<1>5. Covered
    BY <1>1 DEF Covered
<1>6. BitsClaimed
    BY <1>2 DEF BitsClaimed, Clear
<1> QED
    BY <1>3, <1>4, <1>5, <1>6 DEF IInv

\* Looking a number up: the thread panics, is refused, or uses it up.
LEMMA ExistsIInv ==
    ASSUME IInv, NEW t \in Threads, Exists(t)
    PROVE  IInv'
<1> DEFINE n == threads[t].tok.num
<1>1. /\ At(t, "exists") /\ ~ At(t, "finish") /\ ~ At(t, "push")
      /\ Idle \in Places /\ Idle.at \notin {"finish", "push"}
      /\ Panicked \in Places /\ Panicked.at \notin {"finish", "push"}
    BY DEF Exists, At, Places, Idle, Panicked
<1>2. CASE Goto(t, Panicked) /\ UNCHANGED <<atoms, claimed>>
    BY <1>1, <1>2, QuietIInv DEF Exists
<1>3. CASE Goto(t, Idle) /\ UNCHANGED <<atoms, claimed>>
    BY <1>1, <1>3, QuietIInv DEF Exists
<1>4. CASE /\ There(AtomOf(n))
           /\ BitOf(n) \notin atoms[AtomOf(n)].bits
           /\ atoms' = [atoms EXCEPT ![AtomOf(n)].bits = @ \cup {BitOf(n)}]
           /\ claimed' = claimed \cup {n}
           /\ Continue(t, "finish")
    <2>1. UNCHANGED <<kind, counter, cleared, resets, sessions>>
        BY DEF Exists
    <2> QED
        BY <1>1, <1>4, <2>1, ClaimIInv
<1> QED
    BY <1>2, <1>3, <1>4 DEF Exists

\* Every step keeps the invariant.
LEMMA NextIInv == IInv /\ [Next]_vars => IInv'
<1> SUFFICES ASSUME IInv, [Next]_vars PROVE IInv'
    OBVIOUS
<1>1. CASE LoginStart
    BY <1>1, LoginStartIInv
<1>2. ASSUME NEW t \in Threads, NEW tok \in tokens, Open(t, tok) PROVE IInv'
    <2> DEFINE where == [at |-> "create", tok |-> tok]
    <2>1. where \in Places /\ where.at \notin {"finish", "push"}
        BY DEF Places
    <2>2. ~ At(t, "finish") /\ ~ At(t, "push")
        BY <1>2 DEF Open, At
    <2> QED
        BY <1>2, <2>1, <2>2, QuietIInv DEF Open
<1>3. ASSUME NEW t \in Threads, TooLarge(t) PROVE IInv'
    <2>1. Panicked \in Places /\ Panicked.at \notin {"finish", "push"}
        BY DEF Places, Panicked
    <2>2. ~ At(t, "finish") /\ ~ At(t, "push")
        BY <1>3 DEF TooLarge, At
    <2> QED
        BY <1>3, <2>1, <2>2, QuietIInv DEF TooLarge
<1>4. ASSUME NEW t \in Threads, PushStart(t) PROVE IInv'
    BY <1>4, PushStartIInv
<1>5. ASSUME NEW t \in Threads, Push(t) PROVE IInv'
    BY <1>5, PushIInv
<1>6. ASSUME NEW t \in Threads, Created(t) PROVE IInv'
    <2>1. At(t, "create") /\ ~ At(t, "finish") /\ ~ At(t, "push")
        BY <1>6 DEF Created, At
    <2>2. PICK k \in tokens : threads[t] = [at |-> "create", tok |-> k]
        BY <2>1, ThreadType DEF IInv, At
    <2>3. [[at |-> "create", tok |-> k] EXCEPT !.at = "exists"]
              = [at |-> "exists", tok |-> k]
        OBVIOUS
    <2>4. Goto(t, [at |-> "exists", tok |-> k])
        BY <1>6, <2>2, <2>3, Zenon DEF Created, Continue
    <2>5. /\ [at |-> "exists", tok |-> k] \in Places
          /\ [at |-> "exists", tok |-> k].at \notin {"finish", "push"}
        BY DEF Places
    <2> QED
        BY <1>6, <2>1, <2>4, <2>5, QuietIInv DEF Created
<1>7. ASSUME NEW t \in Threads, Exists(t) PROVE IInv'
    BY <1>7, ExistsIInv
<1>8. ASSUME NEW t \in Threads, Session(t) PROVE IInv'
    BY <1>8, EndIInv DEF Session
<1>9. ASSUME NEW t \in Threads, Refuse(t) PROVE IInv'
    BY <1>9, EndIInv DEF Refuse
<1>10. CASE ResetCounter \/ ResetEnd
    BY <1>10, ResetBoundsIInv
<1>11. CASE ResetAtom
    BY <1>11, ResetAtomIInv
<1>12. CASE UNCHANGED vars
    <2>1. tokens' = tokens
        BY <1>12 DEF vars, tokens
    <2>2. Places' = Places
        BY <2>1 DEF Places
    <2>3. TypeOK'
        BY <1>12, <2>1, <2>2 DEF vars, IInv, TypeOK
    <2>4. PushesApart' /\ BitsClaimed'
        BY <1>12 DEF vars, IInv, PushesApart, BitsClaimed, At
    <2>5. Covered'
        BY <1>12, <2>1 DEF vars, IInv, Covered, Finishing, At, Left, Spent, There,
                           Cleanings, AtomOf, BitOf
    <2> QED
        BY <2>3, <2>4, <2>5 DEF IInv
<1> QED
    BY <1>1, <1>2, <1>3, <1>4, <1>5, <1>6, <1>7, <1>8, <1>9, <1>10, <1>11, <1>12
       DEF Next, LoginSession

\* The invariant holds in every reachable state.
LEMMA AlwaysIInv == Spec => []IInv
<1> QED
    BY InitIInv, NextIInv, PTL DEF Spec

\* Every variable keeps its type.
THEOREM TypeCorrect == Spec => []TypeOK
<1>1. IInv => TypeOK
    BY DEF IInv
<1> QED
    BY <1>1, AlwaysIInv, PTL

\* However many threads present the token of one login start, in either bit
\* set, they start one session of it (login_session of lib.rs), and one more
\* for each reset that was not over when the token was handed out.
THEOREM OneSessionAlways == Spec => []OneSessionPerReset
<1>1. IInv => OneSessionPerReset
    <2> SUFFICES ASSUME IInv, NEW k \in tokens
                 PROVE  sessions[k] <= 1 + resets - k.period
        BY DEF OneSessionPerReset
    <2>1. /\ IsFiniteSet(Finishing(k))
          /\ sessions[k] + Cardinality(Finishing(k)) + Left(k.num)
                 <= 1 + Cleanings(AtomOf(k.num)) - k.period
        BY DEF IInv, Covered
    <2>2. PICK s \in Nat, f \in Nat, p \in Int, c \in Int, a \in Nat, r \in Nat :
              /\ s = sessions[k] /\ f = Cardinality(Finishing(k)) /\ p = k.period
              /\ c = Cleanings(AtomOf(k.num)) /\ a = Left(k.num) /\ r = resets
              /\ c <= r
        BY <2>1, FS_CardinalityType DEF IInv, TypeOK, Tokens, Cleanings, Left
    <2>3. s + f + a <= 1 + c - p
        BY <2>1, <2>2
    <2>4. s <= 1 + r - p
        BY <2>2, <2>3
    <2> QED
        BY <2>2, <2>4
<1> QED
    BY <1>1, AlwaysIInv, PTL

\* A step that sends a thread away with its number looked up finds the bit of
\* that number set.
LEMMA RefusedFindsBit ==
    ASSUME IInv, [Next]_vars, NEW t \in Threads, Refuses(t)
    PROVE  Spent(threads[t].tok.num)
<1>1. At(t, "exists") /\ threads'[t] = Idle /\ threads'[t] # threads[t]
    BY DEF Refuses, At, Idle
<1>2. \A u \in Threads : \A where : Goto(u, where) => u = t /\ where = Idle
    BY <1>1 DEF Goto, IInv, TypeOK
<1>3. Exists(t)
    <2>1. ~ UNCHANGED threads
        BY <1>1
    <2>2. ASSUME NEW u \in Threads, LoginSession(u), u # t PROVE FALSE
        BY <1>2, <2>2 DEF LoginSession, TooLarge, PushStart, Push, Created,
                          Exists, Session, Refuse, Continue
    <2>3. ASSUME NEW u \in Threads, NEW tok \in tokens, Open(u, tok) PROVE FALSE
        BY <1>1, <1>2, <2>3 DEF Open, At
    <2>4. LoginSession(t)
        BY <2>1, <2>2, <2>3 DEF Next, vars, LoginStart, ResetCounter, ResetAtom,
                                ResetEnd
    <2> QED
        BY <1>1, <2>4 DEF LoginSession, TooLarge, PushStart, Push, Created,
                          Session, Refuse, At
<1>4. ~ Goto(t, Panicked)
    BY <1>2 DEF Idle, Panicked
<1>5. ~ Continue(t, "finish")
    <2>1. threads[t] = [at |-> "exists", tok |-> threads[t].tok]
        BY <1>1, ExistsType
    <2>2. PICK k : threads[t] = [at |-> "exists", tok |-> k]
        BY <2>1
    <2>3. [[at |-> "exists", tok |-> k] EXCEPT !.at = "finish"]
              = [at |-> "finish", tok |-> k]
        OBVIOUS
    <2>4. [at |-> "finish", tok |-> k].at # Idle.at
        BY DEF Idle
    <2>5. [at |-> "finish", tok |-> k] # Idle
        BY <2>4
    <2> QED
        BY <1>2, <2>2, <2>3, <2>5, Zenon DEF Continue
<1> QED
    BY <1>3, <1>4, <1>5 DEF Exists, Spent

\* In the set that grows, a token is refused only when a thread found its
\* number unused before (exists of compactset.rs).
THEOREM RefusedAlways == Spec => RefusedWasClaimed
<1>1. ASSUME IInv, [Next]_vars, NEW t \in Threads, kind # "small", Refuses(t)
      PROVE  threads[t].tok.num \in claimed
    <2>1. PICK n \in Nat : n = threads[t].tok.num
        BY <1>1, ExistsType DEF Refuses
    <2>2. Spent(n)
        BY <1>1, <2>1, RefusedFindsBit
    <2>3. PICK i \in Nat \ {0} : i = AtomOf(n)
        BY PlaceType
    <2>4. i \in 1 .. Len(atoms) /\ BitOf(n) \in atoms[i].bits
        BY <1>1, <2>2, <2>3 DEF Spent, There, IInv, TypeOK
    <2>5. (i - 1) * Width + BitOf(n) \in claimed
        BY <1>1, <2>4 DEF IInv, BitsClaimed
    <2>6. (i - 1) * Width + BitOf(n) = n
        BY <1>1, <2>3, NumberOf
    <2> QED
        BY <2>1, <2>5, <2>6
<1>2. IInv /\ [Next]_vars =>
          [\A t \in Threads :
              kind # "small" /\ Refuses(t) => threads[t].tok.num \in claimed]_vars
    BY <1>1
<1> QED
    BY <1>2, AlwaysIInv, PTL DEF Spec, RefusedWasClaimed

=============================================================================
