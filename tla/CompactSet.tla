----------------------------- MODULE CompactSet -----------------------------
(***************************************************************************)
(* The counter and the set of used numbers of one tiauth application.      *)
(*                                                                         *)
(* A client request either issues a number (login_start, proof_token: read *)
(* the clock, compute the expiry, take the next number) or presents one    *)
(* (login_finish, verify_proof: read the clock, refuse an expired token,   *)
(* ask num_exists).  The clock read and the counter or set access are two  *)
(* steps, so requests of several clients interleave and the clock may move *)
(* between them.  `accepted` counts how often a number was answered "not   *)
(* seen"; it is a history variable.                                        *)
(***************************************************************************)
EXTENDS RangeSet

CONSTANTS
    Clients,    \* concurrent request handlers
    Lifetimes,  \* seconds from the clock read to the expiry of a number
    Leeway,     \* a token is refused from its expiry + Leeway on
    MaxNum,     \* bound: numbers issued
    MaxTime     \* bound: seconds

ASSUME LifetimesAssumption == Lifetimes \subseteq Nat
ASSUME BoundsAssumption == /\ Leeway \in Nat
                           /\ MaxNum \in Nat
                           /\ MaxTime \in Nat

VARIABLES
    counter,    \* the next number to issue
    ranges,     \* the range list
    time,       \* the clock of the application state
    request,    \* per client, the request it is in the middle of
    expiry,     \* the expiry signed into each issued number
    accepted    \* how often each issued number was answered "not seen"

vars == <<counter, ranges, time, request, expiry, accepted>>

Issued == 1 .. counter - 1

Idle == [op |-> "idle"]
Issuing(expires) == [op |-> "issue", expires |-> expires]
Presenting(n, now) == [op |-> "present", num |-> n, now |-> now]

Requests == {Idle} \cup [op : {"issue"}, expires : Nat]
                   \cup [op : {"present"}, num : Issued, now : Nat]

Init ==
    /\ counter = 1
    /\ ranges = EmptyRanges
    /\ time = 0
    /\ request = [c \in Clients |-> Idle]
    /\ expiry = [n \in {} |-> 0]
    /\ accepted = [n \in {} |-> 0]

\* The clock of the application state is driven forward.
Tick ==
    /\ time < MaxTime
    /\ time' = time + 1
    /\ UNCHANGED <<counter, ranges, request, expiry, accepted>>

\* A handler that will issue a number reads the clock.
StartIssue(c) ==
    /\ request[c] = Idle
    /\ \E life \in Lifetimes :
           request' = [request EXCEPT ![c] = Issuing(time + life)]
    /\ UNCHANGED <<counter, ranges, time, expiry, accepted>>

\* It takes the next number (Counter::increment) and hands out the token.
Issue(c) ==
    /\ request[c].op = "issue"
    /\ counter <= MaxNum
    /\ counter' = counter + 1
    /\ expiry' = [n \in 1 .. counter |->
                     IF n = counter THEN request[c].expires ELSE expiry[n]]
    /\ accepted' = [n \in 1 .. counter |->
                       IF n = counter THEN 0 ELSE accepted[n]]
    /\ request' = [request EXCEPT ![c] = Idle]
    /\ UNCHANGED <<ranges, time>>

\* A handler that was sent token n reads the clock; an expired one is refused.
StartPresent(c, n) ==
    /\ request[c] = Idle
    /\ time < expiry[n] + Leeway
    /\ request' = [request EXCEPT ![c] = Presenting(n, time)]
    /\ UNCHANGED <<counter, ranges, time, expiry, accepted>>

\* It asks num_exists under the lock and accepts the token if unseen.
Present(c) ==
    /\ request[c].op = "present"
    /\ LET n      == request[c].num
           answer == NumExists(ranges, n, expiry[n], request[c].now)
       IN  /\ ranges' = answer.ranges
           /\ accepted' = [accepted EXCEPT
                              ![n] = @ + (IF answer.exists THEN 0 ELSE 1)]
    /\ request' = [request EXCEPT ![c] = Idle]
    /\ UNCHANGED <<counter, time, expiry>>

Next ==
    \/ Tick
    \/ \E c \in Clients :
           \/ StartIssue(c)
           \/ Issue(c)
           \/ \E n \in Issued : StartPresent(c, n)
           \/ Present(c)

Spec == Init /\ [][Next]_vars

-----------------------------------------------------------------------------
\* Every variable has its type; the counter and the histories agree.
TypeOK ==
    /\ counter \in Nat \ {0}
    /\ ranges \in Seq(RangeType)
    /\ time \in Nat
    /\ request \in [Clients -> Requests]
    /\ expiry \in [Issued -> Nat]
    /\ accepted \in [Issued -> Nat]

(***************************************************************************)
(* The shape of the list, whatever the interleaving of merges, growth and  *)
(* expiry.  The binary search in add_num_ranges, the assertion in          *)
(* Range::full and the panic "Should be space for number!" rely on it.     *)
(***************************************************************************)
RangesChained == Chained(ranges)

(***************************************************************************)
(* The expiries along the list stay sorted under inserts, merges, marks    *)
(* and collapses, which is what the binary search of expired_search relies *)
(* on (counter.rs:443): unsorted, a check would collapse unexpired ranges. *)
(***************************************************************************)
ExpirySorted == SortedByExpiry(ranges)

\* The assumption of the comment at counter.rs:410: numbers taken later do
\* not expire earlier.
ExpiryMonotone == \A m, n \in Issued : m <= n => expiry[m] <= expiry[n]

(***************************************************************************)
(* A number that the set would report as seen was accepted before or has   *)
(* reached the expiry signed into its token.  It relates merges, collapse  *)
(* and expiry marks to the whole history.  It does not promise that no     *)
(* valid token is refused: a token is accepted until expiry + Leeway, and  *)
(* the collapse compares without the leeway (counter.rs:457), so an unused *)
(* token that is within its leeway may be reported as seen.                *)
(***************************************************************************)
SeenIsUsedOrExpired ==
    \A n \in Issued :
        Recorded(ranges, n) => accepted[n] > 0 \/ expiry[n] <= time

\* The same under the assumption that the code's comment makes about expiries: an
\* unused number is not reported as seen before its own expiry (counter.rs:419).
SoundWhenMonotone == ExpiryMonotone => SeenIsUsedOrExpired

(***************************************************************************)
(* The set never covers a number that was not handed out: a merge or a     *)
(* collapse of ranges must not swallow numbers the counter has yet to give *)
(* out, or a fresh login would fail.                                       *)
(***************************************************************************)
NothingRecordedAhead ==
    \A n \in counter .. ranges[Len(ranges)].max : ~Recorded(ranges, n)

(***************************************************************************)
(* What is recorded stays recorded through inserts, merges, growth and     *)
(* expiry.  The one number exempted is the maximum of the last range: the  *)
(* next range pushed starts there and takes it over, without its record.   *)
(***************************************************************************)
RecordStays ==
    [][\A n \in Issued :
          Recorded(ranges, n) /\ n # ranges[Len(ranges)].max
              => Recorded(ranges', n)]_vars

(***************************************************************************)
(* How far a number can be reused: once for growing the list unrecorded,   *)
(* once as the top of the last range, once more after the next range took  *)
(* it over.  After that, growth, merges and expiry never reopen it.        *)
(***************************************************************************)
AcceptedAtMostThrice == \A n \in Issued : accepted[n] <= 3

(***************************************************************************)
(* The list shrinks as documented (counter.rs:408): behind the first range *)
(* no two full ranges stay side by side.  (The first range may come from   *)
(* an expiry collapse, which does not look at its neighbour.)              *)
(***************************************************************************)
FullRangesJoin ==
    \A i \in 2 .. Len(ranges) - 1 : ~(ranges[i].full /\ ranges[i + 1].full)

=============================================================================
