------------------------------ MODULE RateLimit ------------------------------
(***************************************************************************)
(* RateLimitMiddleware: a counter of requests per address, in windows that *)
(* begin with the first request after the last window's end.  The clock is *)
(* read before the lock is taken, so what a thread compares may be old.    *)
(***************************************************************************)
EXTENDS Naturals, Integers

CONSTANTS
    Ips,           \* client addresses
    MaxRequests,   \* maxRequests_
    Window,        \* window_, in ticks of the clock
    MaxLag         \* bound: ticks between reading the clock and taking the lock

ASSUME RateLimitAssumption ==
    /\ MaxRequests \in Nat
    /\ Window \in Nat
    /\ MaxLag \in Nat

VARIABLES
    buckets,   \* buckets_: the count of each address and its window's age
    passed     \* history: the requests let through in the last so many ticks

rateVars == <<buckets, passed>>

\* An address that has no bucket yet.
NoBucket == [count |-> 0, age |-> -1]

\* An age from which no lag makes a difference.
OldAge == Window + MaxLag + 1

Bucket == [count : 0..MaxRequests + 1, age : 0..OldAge]

RateLimitInit ==
    /\ buckets = [ip \in Ips |-> NoBucket]
    /\ passed = [ip \in Ips |-> [ago \in 0..Window |-> 0]]

Least(a, b) == IF a <= b THEN a ELSE b

\* Mutant: the time stored is the end of the window, not its beginning.
Counted_StoresEnd(bucket, lag) ==
    [count |-> 1, age |-> lag - Window]

\* The bucket after `++count`, for a thread that read the clock `lag` ago.  A
\* new bucket's window begins when it is made, a later one's at the time read.
Counted(bucket, lag) ==
    IF bucket = NoBucket THEN [count |-> 1, age |-> 0]
    ELSE IF bucket.age - lag > Window THEN [count |-> 1, age |-> lag]
    ELSE [bucket EXCEPT !.count = Least(@ + 1, MaxRequests + 1)]

\* Mutant: the limit is compared as if the request had not been counted yet.
Exceeded_BeforeCount(bucket) == bucket.count > MaxRequests + 1

Exceeded(bucket) == bucket.count > MaxRequests

\* The critical section of before(): the request passes or it gets a 429.
CountRequest(ip, lag) ==
    /\ buckets' = [buckets EXCEPT ![ip] = Counted(@, lag)]
    /\ passed' = IF Exceeded(buckets'[ip]) THEN passed
                 ELSE [passed EXCEPT ![ip] = [ago \in 0..Window |-> @[ago] + 1]]

\* Time passes: windows age, and each stretch begins a tick earlier than the one
\* that is as long now.
BucketsTick ==
    /\ buckets' = [ip \in Ips |->
          IF buckets[ip] = NoBucket THEN NoBucket
          ELSE [buckets[ip] EXCEPT !.age = Least(@ + 1, OldAge)]]
    /\ passed' = [ip \in Ips |-> [ago \in 0..Window |->
          IF ago = 0 THEN 0 ELSE passed[ip][ago - 1]]]

\* The requests of an address let through in the last Window ticks.
PassedLately(ip) == passed[ip][Window]
=============================================================================
