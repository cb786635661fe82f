-------------------------- MODULE CompactSetProofs --------------------------
(***************************************************************************)
(* Theorems about CompactSet for every N, every set of clients, every set  *)
(* of lifetimes and every bound: the types, the shape of the range list    *)
(* and the order of its expiries.  The three are inductive together with   *)
(* each other; the work is in the lemmas of RangeSetProofs.                *)
(***************************************************************************)
EXTENDS CompactSet, RangeSetProofs

IInv == TypeOK /\ RangesChained /\ ExpirySorted

\* The invariant holds of the state load_app_state sets up.
LEMMA InitIInv == Init => IInv
<1> SUFFICES ASSUME Init PROVE IInv
    OBVIOUS
<1>1. counter = 1 /\ Issued = {}
    BY DEF Init, Issued
<1>2. ListOK(ranges)
    BY EmptyRangesChained DEF Init
<1>3. TypeOK
    BY <1>1, <1>2 DEF Init, TypeOK, ListOK, Requests, Idle
<1>4. ExpirySorted
    <2>1. DOMAIN ranges = {1}
        BY DEF Init, EmptyRanges
    <2> QED BY <2>1 DEF ExpirySorted, SortedByExpiry
<1> QED
    BY <1>2, <1>3, <1>4 DEF IInv, RangesChained, ListOK

\* It survives every step: the clock (drive_time), ...
LEMMA TickIInv == IInv /\ Tick => IInv'
<1> SUFFICES ASSUME IInv, Tick PROVE IInv'
    OBVIOUS
<1>1. TypeOK'
    BY DEF IInv, TypeOK, Tick, Issued, Requests
<1>2. RangesChained' /\ ExpirySorted'
    BY DEF IInv, RangesChained, ExpirySorted, Tick
<1> QED
    BY <1>1, <1>2 DEF IInv

\* ... a handler that reads the clock to issue a number, ...
LEMMA StartIssueIInv ==
    ASSUME IInv, NEW c \in Clients, StartIssue(c)
    PROVE  IInv'
<1>1. TypeOK'
    <2>1. PICK life \in Lifetimes :
              request' = [request EXCEPT ![c] = Issuing(time + life)]
        BY DEF StartIssue
    <2>2. time + life \in Nat
        BY LifetimesAssumption DEF IInv, TypeOK
    <2>3. Issuing(time + life) \in Requests
        BY <2>2 DEF Issuing, Requests
    <2> QED
        BY <2>1, <2>3 DEF IInv, TypeOK, StartIssue, Issued, Requests
<1>2. RangesChained' /\ ExpirySorted'
    BY DEF IInv, RangesChained, ExpirySorted, StartIssue
<1> QED
    BY <1>1, <1>2 DEF IInv

\* ... Counter::increment, ...
LEMMA IssueIInv ==
    ASSUME IInv, NEW c \in Clients, Issue(c)
    PROVE  IInv'
<1>1. TypeOK'
    <2>1. /\ counter \in Nat \ {0} /\ counter' = counter + 1
          /\ Issued = 1 .. counter - 1 /\ Issued' = 1 .. counter
          /\ Issued \subseteq Issued'
        BY DEF IInv, TypeOK, Issue, Issued
    <2>2. request[c].expires \in Nat
        BY DEF IInv, TypeOK, Issue, Requests, Idle
    <2>3. expiry' \in [Issued' -> Nat] /\ accepted' \in [Issued' -> Nat]
        BY <2>1, <2>2 DEF IInv, TypeOK, Issue
    <2>4. request' \in [Clients -> Requests']
        BY <2>1 DEF IInv, TypeOK, Issue, Requests
    <2> QED
        BY <2>1, <2>3, <2>4 DEF IInv, TypeOK, Issue
<1>2. RangesChained' /\ ExpirySorted'
    BY DEF IInv, RangesChained, ExpirySorted, Issue
<1> QED
    BY <1>1, <1>2 DEF IInv

\* ... a handler that reads the clock to present a number, ...
LEMMA StartPresentIInv ==
    ASSUME IInv, NEW c \in Clients, NEW n \in Issued, StartPresent(c, n)
    PROVE  IInv'
<1>1. TypeOK'
    BY DEF IInv, TypeOK, StartPresent, Issued, Requests, Presenting
<1>2. RangesChained' /\ ExpirySorted'
    BY DEF IInv, RangesChained, ExpirySorted, StartPresent
<1> QED
    BY <1>1, <1>2 DEF IInv

\* What a presenting request carries.
LEMMA PresentingRequest ==
    ASSUME TypeOK, NEW c \in Clients, request[c].op = "present"
    PROVE  /\ request[c].num \in Issued
           /\ request[c].num \in Nat /\ request[c].num >= 1
           /\ request[c].now \in Nat
           /\ expiry[request[c].num] \in Nat
<1>1. request[c].num \in Issued /\ request[c].now \in Nat
    BY DEF TypeOK, Requests, Idle
<1> QED
    BY <1>1 DEF TypeOK, Issued

\* ... num_exists, by the theorems about the list, ...
LEMMA PresentIInv ==
    ASSUME IInv, NEW c \in Clients, Present(c)
    PROVE  IInv'
<1> DEFINE n == request[c].num
           answer == NumExists(ranges, n, expiry[n], request[c].now)
<1>1. /\ n \in Issued /\ n \in Nat /\ n >= 1
      /\ request[c].now \in Nat /\ expiry[n] \in Nat
    BY PresentingRequest DEF IInv, Present
<1>2. /\ ranges' = answer.ranges
      /\ accepted' = [accepted EXCEPT
                         ![n] = @ + (IF answer.exists THEN 0 ELSE 1)]
      /\ request' = [request EXCEPT ![c] = Idle]
      /\ counter' = counter /\ time' = time /\ expiry' = expiry
    BY DEF Present
<1>3. ListOK(ranges)
    BY DEF IInv, TypeOK, RangesChained, ListOK
<1> HIDE DEF n
<1>4. ListOK(ranges') /\ SortedByExpiry(ranges')
    BY <1>1, <1>2, <1>3, NumExistsChained, NumExistsSorted
    DEF IInv, ExpirySorted
<1> HIDE DEF answer
<1>5. TypeOK'
    <2>1. Issued' = Issued /\ Requests' = Requests
        BY <1>2 DEF Issued, Requests
    <2>2. accepted' \in [Issued -> Nat]
        BY <1>1, <1>2 DEF IInv, TypeOK
    <2>3. request' \in [Clients -> Requests]
        BY <1>2 DEF IInv, TypeOK, Requests
    <2> QED
        BY <1>2, <1>4, <2>1, <2>2, <2>3 DEF IInv, TypeOK, ListOK
<1> QED
    BY <1>4, <1>5 DEF IInv, RangesChained, ExpirySorted, ListOK

\* ... a step that changes nothing, ...
LEMMA StutterIInv == IInv /\ UNCHANGED vars => IInv'
BY DEF IInv, TypeOK, RangesChained, ExpirySorted, Issued, Requests, vars

\* ... so every step of the specification.
LEMMA NextIInv == IInv /\ [Next]_vars => IInv'
<1> SUFFICES ASSUME IInv, [Next]_vars PROVE IInv'
    OBVIOUS
<1>1. CASE Tick
    BY <1>1, TickIInv
<1>2. ASSUME NEW c \in Clients, StartIssue(c) PROVE IInv'
    BY <1>2, StartIssueIInv
<1>3. ASSUME NEW c \in Clients, Issue(c) PROVE IInv'
    BY <1>3, IssueIInv
<1>4. ASSUME NEW c \in Clients, NEW n \in Issued, StartPresent(c, n)
      PROVE  IInv'
    BY <1>4, StartPresentIInv
<1>5. ASSUME NEW c \in Clients, Present(c) PROVE IInv'
    BY <1>5, PresentIInv
<1>6. CASE UNCHANGED vars
    BY <1>6, StutterIInv
<1> QED
    BY <1>1, <1>2, <1>3, <1>4, <1>5, <1>6 DEF Next

\* Types, the shape of the list and the order of expiries, together, hold
\* in every reachable state of counter and set.
THEOREM IInvHolds == Spec => []IInv
<1> QED
    BY InitIInv, NextIInv, PTL DEF Spec

\* Every variable keeps its type.
THEOREM TypeCorrect == Spec => []TypeOK
<1>1. IInv => TypeOK
    BY DEF IInv
<1> QED
    BY <1>1, IInvHolds, PTL

\* The range list keeps its shape, so neither the binary search of
\* add_num_ranges nor the asserts and panics behind it can go wrong.
THEOREM ChainedAlways == Spec => []RangesChained
<1>1. IInv => RangesChained
    BY DEF IInv
<1> QED
    BY <1>1, IInvHolds, PTL

\* The expiries stay sorted, so the binary search of expired_search finds the
\* first range that has not expired.
THEOREM SortedAlways == Spec => []ExpirySorted
<1>1. IInv => ExpirySorted
    BY DEF IInv
<1> QED
    BY <1>1, IInvHolds, PTL

-----------------------------------------------------------------------------
(***************************************************************************)
(* What the list records of the numbers.  The invariant speaks of every    *)
(* range: a full one covers, and the others name, only numbers of a set J, *)
(* and a range with an expiry covers only numbers that are in J or expire  *)
(* by then (RangeSound).  It holds for J = Issued whatever the lifetimes,  *)
(* and for J = Spent when expiries do not decrease.                        *)
(***************************************************************************)

\* Numbers that may be answered "seen" without harm.
Spent == {n \in Issued : accepted[n] > 0 \/ expiry[n] <= time}

ClockReadsPast ==
    \A c \in Clients : request[c].op = "present" => request[c].now <= time

SoundIInv ==
    /\ IInv
    /\ ClockReadsPast
    /\ Sound(ranges, Issued, expiry)
    /\ ExpiryMonotone => Sound(ranges, Spent, expiry)

\* Nothing is recorded at the start, so everything recorded is accounted for.
LEMMA InitSoundIInv == Init => SoundIInv
<1> SUFFICES ASSUME Init PROVE SoundIInv
    OBVIOUS
<1>1. IInv
    BY InitIInv
<1>2. ClockReadsPast
    BY DEF ClockReadsPast, Init, Idle
<1>3. \A J, x : Sound(ranges, J, x)
    BY DEF Init, EmptyRanges, NewRange, Unknown, Sound, RangeSound
<1> QED
    BY <1>1, <1>2, <1>3 DEF SoundIInv

\* A step that leaves the list alone, keeps what was issued and spent, and
\* gives no issued number a new expiry.
LEMMA QuietSound ==
    ASSUME SoundIInv, IInv', ranges' = ranges, ClockReadsPast',
           Issued \subseteq Issued',
           \A n \in Issued : expiry'[n] = expiry[n],
           \A n \in Issued : accepted'[n] = accepted[n],
           time <= time'
    PROVE  SoundIInv'
<1>1. /\ counter \in Nat /\ time \in Nat /\ time' \in Nat
      /\ expiry \in [Issued -> Nat] /\ expiry' \in [Issued' -> Nat]
    BY DEF SoundIInv, IInv, TypeOK
<1>2. Spent \subseteq Spent'
    BY <1>1 DEF Spent
<1>3. \A n \in DOMAIN expiry : n \in DOMAIN expiry' /\ expiry'[n] = expiry[n]
    BY <1>1
<1>4. Sound(ranges', Issued', expiry')
    BY <1>3, SoundGrows DEF SoundIInv
<1>5. ExpiryMonotone' => Sound(ranges', Spent', expiry')
    <2>1. ExpiryMonotone' => ExpiryMonotone
        BY DEF ExpiryMonotone
    <2> QED BY <1>2, <1>3, <2>1, SoundGrows DEF SoundIInv
<1> QED
    BY <1>4, <1>5 DEF SoundIInv

\* num_exists accounts for what it records: the number presented is accepted,
\* and what it marks or collapses expires no later than the mark says.
LEMMA PresentSound ==
    ASSUME SoundIInv, NEW c \in Clients, Present(c)
    PROVE  SoundIInv'
<1> DEFINE n == request[c].num
           now == request[c].now
           answer == NumExists(ranges, n, expiry[n], now)
<1>1. /\ n \in Issued /\ n \in Nat /\ n >= 1 /\ now \in Nat
      /\ expiry[n] \in Nat /\ now <= time
    BY PresentingRequest DEF SoundIInv, IInv, ClockReadsPast, Present
<1>2. /\ ranges' = answer.ranges
      /\ accepted' = [accepted EXCEPT
                         ![n] = @ + (IF answer.exists THEN 0 ELSE 1)]
      /\ request' = [request EXCEPT ![c] = Idle]
      /\ counter' = counter /\ time' = time /\ expiry' = expiry
    BY DEF Present
<1>3. /\ ListOK(ranges) /\ SortedByExpiry(ranges)
      /\ counter \in Nat \ {0} /\ Issued = 1 .. counter - 1
      /\ expiry \in [Issued -> Nat] /\ accepted \in [Issued -> Nat]
      /\ time \in Nat
    BY DEF SoundIInv, IInv, TypeOK, RangesChained, ListOK, ExpirySorted, Issued
<1>4. IInv'
    BY PresentIInv DEF SoundIInv
<1> HIDE DEF n, now
<1>5. ClockReadsPast'
    BY <1>2 DEF SoundIInv, ClockReadsPast, Idle
<1>6. Issued' = Issued
    BY <1>2 DEF Issued
<1>7. Sound(ranges', Issued', expiry')
    <2>1. Sound(ranges, Issued, expiry)
        BY DEF SoundIInv
    <2>2. \A m \in 1 .. n : m \in Issued
        BY <1>1, <1>3
    <2>3. Sound(answer.ranges, Issued, expiry)
        BY <1>1, <1>3, <2>1, <2>2, NumExistsSound
    <2> QED BY <1>2, <1>6, <2>3
<1>8. ASSUME ExpiryMonotone' PROVE Sound(ranges', Spent', expiry')
    <2>1. ExpiryMonotone
        BY <1>2, <1>6, <1>8 DEF ExpiryMonotone
    <2>2. Sound(ranges, Spent, expiry)
        BY <2>1 DEF SoundIInv
    <2>3. Spent \subseteq Spent'
        <3>1. \A m \in Issued : accepted[m] > 0 => accepted'[m] > 0
            <4> HIDE DEF answer
            <4> QED BY <1>1, <1>2, <1>3
        <3> QED BY <1>2, <1>6, <3>1 DEF Spent
    <2>4. Sound(ranges, Spent', expiry)
        BY <2>2, <2>3, SoundGrows
    <2>5. answer.exists \/ n \in Spent'
        <3>1. ASSUME ~answer.exists PROVE accepted'[n] > 0
            <4> HIDE DEF answer
            <4> QED BY <1>1, <1>2, <1>3, <3>1
        <3> QED BY <1>1, <1>6, <3>1 DEF Spent
    <2>6. \A m \in 1 .. n : m \in DOMAIN expiry /\ expiry[m] <= expiry[n]
        BY <1>1, <1>3, <2>1 DEF ExpiryMonotone
    <2>7. \A m \in DOMAIN expiry : expiry[m] <= now => m \in Spent'
        BY <1>1, <1>2, <1>3, <1>6 DEF Spent
    <2>8. \A m \in DOMAIN expiry : expiry[m] \in Nat
        BY <1>3
    <2> DEFINE S == Spent'
    <2> HIDE DEF S
    <2>9. Sound(answer.ranges, S, expiry)
        <3>1. /\ Sound(ranges, S, expiry) /\ (answer.exists \/ n \in S)
              /\ \A m \in DOMAIN expiry : expiry[m] <= now => m \in S
            BY <2>4, <2>5, <2>7 DEF S
        <3> QED BY <1>1, <1>3, <2>6, <2>8, <3>1, NumExistsSound
    <2> QED BY <1>2, <2>9 DEF S
<1> QED
    BY <1>4, <1>5, <1>7, <1>8 DEF SoundIInv

\* Every step keeps the account of recorded numbers.
LEMMA NextSoundIInv == SoundIInv /\ [Next]_vars => SoundIInv'
<1> SUFFICES ASSUME SoundIInv, [Next]_vars PROVE SoundIInv'
    OBVIOUS
<1>1. /\ IInv /\ ClockReadsPast /\ TypeOK
      /\ counter \in Nat /\ time \in Nat
      /\ expiry \in [Issued -> Nat]
      /\ request \in [Clients -> Requests]
    BY DEF SoundIInv, IInv, TypeOK
<1>2. IInv'
    BY <1>1, NextIInv
<1>3. CASE Tick
    <2>1. ClockReadsPast'
        <3>1. \A c \in Clients : request[c].op = "present" =>
                                     request[c].now \in Nat
            BY <1>1, PresentingRequest
        <3> QED BY <1>1, <1>3, <3>1 DEF Tick, ClockReadsPast
    <2> QED
        BY <1>1, <1>2, <1>3, <2>1, QuietSound DEF Tick, Issued
<1>4. ASSUME NEW c \in Clients, StartIssue(c) PROVE SoundIInv'
    <2>1. ClockReadsPast'
        BY <1>1, <1>4 DEF StartIssue, ClockReadsPast, Issuing
    <2> QED
        BY <1>1, <1>2, <1>4, <2>1, QuietSound DEF StartIssue, Issued
<1>5. ASSUME NEW c \in Clients, Issue(c) PROVE SoundIInv'
    <2>1. ClockReadsPast'
        BY <1>1, <1>5 DEF Issue, ClockReadsPast, Idle
    <2>2. /\ Issued \subseteq Issued'
          /\ \A n \in Issued : expiry'[n] = expiry[n]
          /\ \A n \in Issued : accepted'[n] = accepted[n]
        BY <1>1, <1>5 DEF Issue, Issued
    <2>3. ranges' = ranges /\ time' = time /\ time <= time'
        BY <1>1, <1>5 DEF Issue
    <2> QED
        BY <1>2, <2>1, <2>2, <2>3, QuietSound
<1>6. ASSUME NEW c \in Clients, NEW n \in Issued, StartPresent(c, n)
      PROVE  SoundIInv'
    <2>1. ClockReadsPast'
        BY <1>1, <1>6 DEF StartPresent, ClockReadsPast, Presenting
    <2> QED
        BY <1>1, <1>2, <1>6, <2>1, QuietSound DEF StartPresent, Issued
<1>7. ASSUME NEW c \in Clients, Present(c) PROVE SoundIInv'
    BY <1>7, PresentSound
<1>8. CASE UNCHANGED vars
    <2>1. ClockReadsPast'
        BY <1>1, <1>8 DEF vars, ClockReadsPast
    <2> QED
        BY <1>1, <1>2, <1>8, <2>1, QuietSound DEF vars, Issued
<1> QED
    BY <1>3, <1>4, <1>5, <1>6, <1>7, <1>8 DEF Next

\* In every reachable state every recorded number is accounted for, and no
\* range is marked with an earlier expiry than its numbers have.
THEOREM SoundIInvHolds == Spec => []SoundIInv
<1> QED
    BY InitSoundIInv, NextSoundIInv, PTL DEF Spec

\* As long as numbers issued later do not expire earlier, no number is reported
\* as seen that has neither been accepted nor reached its own expiry, whatever
\* the order in which numbers arrive, ranges merge and expired ranges collapse.
\* It holds for every leeway, and says nothing of tokens within theirs.
THEOREM SoundAlways == Spec => []SoundWhenMonotone
<1>1. SoundIInv => SoundWhenMonotone
    <2> SUFFICES ASSUME SoundIInv, ExpiryMonotone,
                        NEW n \in Issued, Recorded(ranges, n)
                 PROVE  accepted[n] > 0 \/ expiry[n] <= time
        BY DEF SoundWhenMonotone, SeenIsUsedOrExpired
    <2>1. ListOK(ranges) /\ n \in Nat /\ n >= 1
        BY DEF SoundIInv, IInv, TypeOK, RangesChained, ListOK, Issued
    <2>2. n \in Spent
        BY <2>1, RecordedIsAccounted DEF SoundIInv
    <2> QED BY <2>2 DEF Spent
<1> QED
    BY <1>1, SoundIInvHolds, PTL

\* The set never records a number the counter has yet to hand out, with no
\* assumption on the expiries.
THEOREM NothingAheadAlways == Spec => []NothingRecordedAhead
<1>1. SoundIInv => NothingRecordedAhead
    <2> SUFFICES ASSUME SoundIInv, NEW n \in counter .. ranges[Len(ranges)].max,
                        Recorded(ranges, n)
                 PROVE  FALSE
        BY DEF NothingRecordedAhead
    <2>1. ListOK(ranges) /\ counter \in Nat \ {0}
        BY DEF SoundIInv, IInv, TypeOK, RangesChained, ListOK
    <2>2. n \in Nat /\ n >= 1 /\ n >= counter
        BY <2>1
    <2>3. n \in Issued
        BY <2>1, <2>2, RecordedIsAccounted DEF SoundIInv
    <2> QED BY <2>1, <2>2, <2>3 DEF Issued
<1> QED
    BY <1>1, SoundIInvHolds, PTL

-----------------------------------------------------------------------------
(***************************************************************************)
(* What stays recorded, and so how often a number can be accepted.  A      *)
(* number is beyond the list, then the top of the list or inside it, and   *)
(* only a number inside the list keeps its record for good.  The bound     *)
(* depends on where the number is, and one more acceptance is left as long *)
(* as it is not recorded.                                                  *)
(***************************************************************************)

AcceptanceBound(n) ==
    /\ n > Top(ranges) => accepted[n] = 0
    /\ n = Top(ranges) => accepted[n] <= IF Recorded(ranges, n) THEN 2 ELSE 1
    /\ n < Top(ranges) => accepted[n] <= IF Recorded(ranges, n) THEN 3 ELSE 2

ReuseIInv == IInv /\ \A n \in Issued : AcceptanceBound(n)

\* What num_exists does to the list and to the histories.
LEMMA PresentRecords ==
    ASSUME IInv, NEW c \in Clients, Present(c)
    PROVE  LET n == request[c].num
           IN  /\ n \in Issued
               /\ Issued' = Issued
               /\ accepted' = [accepted EXCEPT
                      ![n] = @ + (IF Recorded(ranges, n) THEN 0 ELSE 1)]
               /\ Top(ranges) \in Nat /\ Top(ranges') \in Nat
               /\ n <= Top(ranges)
                      => Top(ranges') = Top(ranges) /\ Recorded(ranges', n)
               /\ n > Top(ranges) => Top(ranges') >= n /\ ~Recorded(ranges, n)
               /\ \A m \in Issued :
                     Recorded(ranges, m) /\ (m = Top(ranges) => n <= Top(ranges))
                         => Recorded(ranges', m)
<1> DEFINE n == request[c].num
           expires == expiry[n]
           now == request[c].now
           answer == NumExists(ranges, n, expires, now)
<1>1. /\ n \in Issued /\ n \in Nat /\ n >= 1
      /\ now \in Nat /\ expires \in Nat
    BY PresentingRequest DEF IInv, Present
<1>2. /\ ranges' = answer.ranges
      /\ accepted' = [accepted EXCEPT
                         ![n] = @ + (IF answer.exists THEN 0 ELSE 1)]
      /\ counter' = counter
    BY DEF Present
<1>3. ListOK(ranges)
    BY DEF IInv, TypeOK, RangesChained, ListOK
<1>4. Top(ranges) \in Nat
    <2>1. Len(ranges) \in DOMAIN ranges
        BY <1>3, ListElements
    <2> QED BY <1>3, <2>1, ListElements DEF Top
<1> HIDE DEF n, expires, now
<1>5. /\ answer.exists <=> Recorded(ranges, n)
      /\ answer.exists \in BOOLEAN
      /\ ~Beyond(ranges, n) =>
            Top(answer.ranges) = Top(ranges) /\ Recorded(answer.ranges, n)
      /\ Beyond(ranges, n) => /\ Top(answer.ranges) >= n /\ Top(ranges) < n
                              /\ Top(answer.ranges) \in Nat
      /\ \A m \in Nat \ {0} :
            Recorded(ranges, m) /\ (m = Top(ranges) => ~Beyond(ranges, n))
                => Recorded(answer.ranges, m)
    BY <1>1, <1>3, NumExistsRecords
<1> HIDE DEF answer
<1>6. Beyond(ranges, n) <=> n > Top(ranges)
    BY DEF Beyond, Top
<1>7. \A m \in Issued : m \in Nat \ {0}
    BY DEF IInv, TypeOK, Issued
<1>8. /\ Top(ranges') \in Nat
      /\ n <= Top(ranges) => Top(ranges') = Top(ranges) /\ Recorded(ranges', n)
      /\ n > Top(ranges) => Top(ranges') >= n /\ ~Recorded(ranges, n)
    <2>1. CASE n <= Top(ranges)
        BY <1>1, <1>2, <1>4, <1>5, <1>6, <2>1
    <2>2. CASE n > Top(ranges)
        <3>1. ~Recorded(ranges, n)
            BY <1>6, <2>2 DEF Recorded
        <3> QED BY <1>1, <1>2, <1>4, <1>5, <1>6, <2>2, <3>1
    <2> QED BY <1>1, <1>4, <2>1, <2>2
<1>9. \A m \in Issued :
         Recorded(ranges, m) /\ (m = Top(ranges) => n <= Top(ranges))
             => Recorded(ranges', m)
    BY <1>1, <1>2, <1>4, <1>5, <1>6, <1>7
<1>10. accepted' = [accepted EXCEPT
                      ![n] = @ + (IF Recorded(ranges, n) THEN 0 ELSE 1)]
    BY <1>2, <1>5
<1> QED
    BY <1>1, <1>2, <1>4, <1>8, <1>9, <1>10 DEF n, Issued

\* A number beyond the list is presented for the first time; one at its top
\* or inside it is recorded from then on.
LEMMA PresentReuse ==
    ASSUME ReuseIInv, NEW c \in Clients, Present(c)
    PROVE  \A m \in Issued' : AcceptanceBound(m)'
<1> DEFINE n == request[c].num
           top == Top(ranges)
           topNext == Top(ranges')
<1>1. /\ n \in Issued /\ Issued' = Issued
      /\ accepted' = [accepted EXCEPT
                ![n] = @ + (IF Recorded(ranges, n) THEN 0 ELSE 1)]
      /\ top \in Nat /\ topNext \in Nat
      /\ n <= top => topNext = top /\ Recorded(ranges', n)
      /\ n > top => topNext >= n /\ ~Recorded(ranges, n)
      /\ \A m \in Issued :
            Recorded(ranges, m) /\ (m = top => n <= top) => Recorded(ranges', m)
    BY PresentRecords DEF ReuseIInv
<1>2. accepted \in [Issued -> Nat] /\ Issued \subseteq Nat
    BY DEF ReuseIInv, IInv, TypeOK, Issued
<1>3. \A m \in Issued :
          /\ m > top => accepted[m] = 0
          /\ m = top => accepted[m] <= IF Recorded(ranges, m) THEN 2 ELSE 1
          /\ m < top => accepted[m] <= IF Recorded(ranges, m) THEN 3 ELSE 2
    BY DEF ReuseIInv, AcceptanceBound
<1> SUFFICES ASSUME NEW m \in Issued
             PROVE  /\ m > topNext => accepted'[m] = 0
                    /\ m = topNext =>
                           accepted'[m] <= IF Recorded(ranges', m) THEN 2 ELSE 1
                    /\ m < topNext =>
                           accepted'[m] <= IF Recorded(ranges', m) THEN 3 ELSE 2
    BY <1>1 DEF AcceptanceBound
<1> HIDE DEF n, top, topNext
<1>4. m \in Nat /\ n \in Nat /\ accepted[m] \in Nat
    BY <1>1, <1>2
<1>5. CASE m # n
    <2>1. accepted'[m] = accepted[m]
        BY <1>1, <1>2, <1>5
    <2>2. CASE n <= top
        BY <1>1, <1>3, <1>4, <2>1, <2>2
    <2>3. CASE n > top
        BY <1>1, <1>3, <1>4, <2>1, <2>3
    <2> QED BY <1>1, <1>4, <2>2, <2>3
<1>6. CASE m = n
    <2>1. CASE Recorded(ranges, n)
        <3>1. accepted'[m] = accepted[m]
            BY <1>1, <1>2, <1>6, <2>1
        <3> QED BY <1>1, <1>3, <1>4, <1>6, <2>1, <3>1
    <2>2. CASE ~Recorded(ranges, n)
        <3>1. accepted'[m] = accepted[m] + 1
            BY <1>1, <1>2, <1>6, <2>2
        <3> QED BY <1>1, <1>3, <1>4, <1>6, <2>2, <3>1
    <2> QED BY <2>1, <2>2
<1> QED
    BY <1>5, <1>6

\* A number that is just handed out has not been accepted, and no step but
\* num_exists changes the list or what was accepted.
LEMMA NextReuse == ReuseIInv /\ [Next]_vars => ReuseIInv'
<1> SUFFICES ASSUME ReuseIInv, [Next]_vars PROVE ReuseIInv'
    OBVIOUS
<1>1. IInv'
    BY NextIInv DEF ReuseIInv
<1>2. ASSUME ranges' = ranges, accepted' = accepted, counter' = counter
      PROVE  ReuseIInv'
    BY <1>1, <1>2 DEF ReuseIInv, AcceptanceBound, Issued
<1>3. CASE Tick
    BY <1>2, <1>3 DEF Tick
<1>4. ASSUME NEW c \in Clients, StartIssue(c) PROVE ReuseIInv'
    BY <1>2, <1>4 DEF StartIssue
<1>5. ASSUME NEW c \in Clients, Issue(c) PROVE ReuseIInv'
    <2>1. ranges' = ranges
        BY <1>5 DEF Issue
    <2>2. counter \in Nat \ {0} /\ Issued = 1 .. counter - 1
        BY DEF ReuseIInv, IInv, TypeOK, Issued
    <2>3. /\ Issued' = 1 .. counter
          /\ accepted' = [n \in 1 .. counter |->
                             IF n = counter THEN 0 ELSE accepted[n]]
        BY <1>5, <2>2 DEF Issue, Issued
    <2>4. \A n \in Issued' : \/ accepted'[n] = 0
                             \/ n \in Issued /\ accepted'[n] = accepted[n]
        BY <2>2, <2>3
    <2>5. ASSUME NEW n \in Issued' PROVE AcceptanceBound(n)'
        <3>1. CASE accepted'[n] = 0
            BY <3>1 DEF AcceptanceBound
        <3>2. CASE n \in Issued /\ accepted'[n] = accepted[n]
            BY <2>1, <3>2 DEF AcceptanceBound, ReuseIInv
        <3> QED BY <2>4, <3>1, <3>2
    <2> QED
        BY <1>1, <2>5 DEF ReuseIInv
<1>6. ASSUME NEW c \in Clients, NEW n \in Issued, StartPresent(c, n)
      PROVE  ReuseIInv'
    BY <1>2, <1>6 DEF StartPresent
<1>7. ASSUME NEW c \in Clients, Present(c) PROVE ReuseIInv'
    BY <1>1, <1>7, PresentReuse DEF ReuseIInv
<1>8. CASE UNCHANGED vars
    BY <1>2, <1>8 DEF vars
<1> QED
    BY <1>3, <1>4, <1>5, <1>6, <1>7, <1>8 DEF Next

\* However clients interleave and repeat a number, and whatever merges, grows
\* and expires between, num_exists answers "not seen" at most three times.
THEOREM AcceptedAlways == Spec => []AcceptedAtMostThrice
<1>1. Init => ReuseIInv
    BY InitIInv DEF Init, Issued, ReuseIInv
<1>2. ReuseIInv => AcceptedAtMostThrice
    <2> SUFFICES ASSUME ReuseIInv, NEW n \in Issued PROVE accepted[n] <= 3
        BY DEF AcceptedAtMostThrice
    <2>1. n \in Nat /\ accepted[n] \in Nat
        BY DEF ReuseIInv, IInv, TypeOK, Issued
    <2>2. Top(ranges) \in Nat
        <3>1. ListOK(ranges)
            BY DEF ReuseIInv, IInv, TypeOK, RangesChained, ListOK
        <3>2. Len(ranges) \in DOMAIN ranges
            BY <3>1, ListElements
        <3> QED BY <3>1, <3>2, ListElements DEF Top
    <2>3. AcceptanceBound(n)
        BY DEF ReuseIInv
    <2> QED BY <2>1, <2>2, <2>3 DEF AcceptanceBound
<1> QED
    BY <1>1, <1>2, NextReuse, PTL DEF Spec

\* A recorded number that is not the top of the list stays recorded.
THEOREM RecordStaysAlways == Spec => RecordStays
<1>1. ASSUME IInv, [Next]_vars
      PROVE  [\A n \in Issued :
                 Recorded(ranges, n) /\ n # ranges[Len(ranges)].max
                     => Recorded(ranges', n)]_vars
    <2>1. ASSUME ranges' = ranges
          PROVE  \A n \in Issued : Recorded(ranges, n) => Recorded(ranges', n)
        BY <2>1
    <2>2. ASSUME NEW c \in Clients, Present(c)
          PROVE  \A n \in Issued :
                     Recorded(ranges, n) /\ n # ranges[Len(ranges)].max
                         => Recorded(ranges', n)
        BY <1>1, <2>2, PresentRecords DEF Top
    <2>3. Tick => ranges' = ranges
        BY DEF Tick
    <2>4. \A c \in Clients : StartIssue(c) \/ Issue(c) => ranges' = ranges
        BY DEF StartIssue, Issue
    <2>5. \A c \in Clients, n \in Issued :
              StartPresent(c, n) => ranges' = ranges
        BY DEF StartPresent
    <2> QED
        BY <1>1, <2>1, <2>2, <2>3, <2>4, <2>5 DEF Next
<1> QED
    BY <1>1, IInvHolds, PTL DEF Spec, RecordStays

-----------------------------------------------------------------------------
\* The invariant that makes FullRangesJoin inductive is the shape of the list.
JoinIInv == IInv /\ FullRangesJoin

\* Behind the first range the list never keeps two full ranges side by side.
THEOREM FullRangesJoinAlways == Spec => []FullRangesJoin
<1>1. Init => JoinIInv
    <2> SUFFICES ASSUME Init PROVE FullRangesJoin
        BY InitIInv DEF JoinIInv
    <2>1. Len(ranges) = 1
        BY DEF Init, EmptyRanges
    <2> QED BY <2>1 DEF FullRangesJoin
<1>2. JoinIInv /\ [Next]_vars => JoinIInv'
    <2> SUFFICES ASSUME JoinIInv, [Next]_vars PROVE JoinIInv'
        OBVIOUS
    <2>1. IInv'
        BY NextIInv DEF JoinIInv
    <2>2. ASSUME ranges' = ranges PROVE JoinIInv'
        BY <2>1, <2>2 DEF JoinIInv, FullRangesJoin
    <2>3. ASSUME NEW c \in Clients, Present(c) PROVE JoinIInv'
        <3> DEFINE n == request[c].num
                   answer == NumExists(ranges, n, expiry[n], request[c].now)
        <3>1. /\ n \in Nat /\ n >= 1
              /\ request[c].now \in Nat /\ expiry[n] \in Nat
            BY <2>3, PresentingRequest DEF JoinIInv, IInv, Present
        <3>2. ranges' = answer.ranges
            BY <2>3 DEF Present
        <3>3. ListOK(ranges) /\ Apart(ranges)
            BY DEF JoinIInv, IInv, TypeOK, RangesChained, ListOK, Apart,
                   FullRangesJoin
        <3> HIDE DEF n
        <3>4. Apart(answer.ranges)
            BY <3>1, <3>3, NumExistsApart
        <3> HIDE DEF answer
        <3> QED BY <2>1, <3>2, <3>4 DEF JoinIInv, FullRangesJoin, Apart
    <2>4. Tick => ranges' = ranges
        BY DEF Tick
    <2>5. \A c \in Clients : StartIssue(c) \/ Issue(c) => ranges' = ranges
        BY DEF StartIssue, Issue
    <2>6. \A c \in Clients, n \in Issued :
              StartPresent(c, n) => ranges' = ranges
        BY DEF StartPresent
    <2>7. UNCHANGED vars => ranges' = ranges
        BY DEF vars
    <2> QED
        BY <2>2, <2>3, <2>4, <2>5, <2>6, <2>7 DEF Next
<1>3. JoinIInv => FullRangesJoin
    BY DEF JoinIInv
<1> QED
    BY <1>1, <1>2, <1>3, PTL DEF Spec

=============================================================================
