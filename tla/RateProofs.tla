------------------------------ MODULE RateProofs ------------------------------
(***************************************************************************)
(* What passes the rate limiter in any stretch of time, for any number of  *)
(* connections and threads, any limit, window and lag.                     *)
(*                                                                         *)
(* A stretch of `ago` ticks ends now.  Requests whose clock was read in it *)
(* are counted in two windows at most: one that begins in the stretch and  *)
(* one that began up to a window before it, since two beginnings are more  *)
(* than a window apart.  Whatever else passes in the stretch was held by a *)
(* thread when it began, and each thread holds one request.  RateInv keeps *)
(* the account: what has passed, together with what the threads still      *)
(* hold, for every stretch up to the window's length.                      *)
(***************************************************************************)
EXTENDS PipelineProofs, FiniteSetTheorems

\* The requests of an address whose clock was read before the stretch began.
Stale(ip, ago) ==
    {c \in Conns : pc[c] = "limited" /\ remoteIp[c] = ip /\ lag[c] > ago}

\* The requests of the bucket's window that it has let through.
Used(bucket) == Least(bucket.count, MaxRequests)

\* What n requests let through and `stale` still held may be, when the current
\* window began before the stretch by more than a window, by less, or in it.
Account(n, stale, bucket, ago) ==
    /\ MaxRequests = 0 \/ bucket = NoBucket => n = 0
    /\ bucket # NoBucket =>
          /\ bucket.count >= 1
          /\ bucket.age > ago + Window => n + stale <= IoThreads
          /\ bucket.age \in ago + 1..ago + Window =>
                n <= Used(bucket) \/ n + stale <= Used(bucket) + IoThreads - 1
          /\ bucket.age <= ago => n <= MaxRequests + Used(bucket) + IoThreads - 1

AccountInv ==
    \A ip \in Ips : \A ago \in 0..Window :
        Account(passed[ip][ago], Cardinality(Stale(ip, ago)), buckets[ip], ago)

\* Only a thread that is on its way to the lock has read the clock.
LagInv == \A c \in Conns : pc[c] # "limited" => lag[c] = 0

Dispatched == {c \in Conns : pc[c] \in Dispatching}

ThreadInv == IsFiniteSet(Dispatched) /\ Cardinality(Dispatched) <= IoThreads

RateInv == AccountInv /\ LagInv /\ ThreadInv

-----------------------------------------------------------------------------
(* The account.                                                            *)

LEMMA UsedType ==
    ASSUME NEW bucket \in Bucket
    PROVE  /\ Used(bucket) \in 0..MaxRequests
           /\ bucket.count >= 1 /\ MaxRequests > 0 => Used(bucket) >= 1
           /\ ~Exceeded(bucket) => Used(bucket) = bucket.count
BY RateLimitAssumption DEF Bucket, Used, Least, Exceeded

LEMMA NoBucketDiffers == \A bucket \in Bucket : bucket # NoBucket
BY DEF Bucket, NoBucket

\* A request is counted, in a window that is there or in one that it opens.
LEMMA CountedKeepsAccount ==
    ASSUME NEW n \in Nat, NEW stale \in 0..IoThreads, NEW left \in 0..IoThreads,
           NEW bucket \in Bucket \cup {NoBucket}, NEW ago \in 0..Window, NEW l \in 0..MaxLag,
           Account(n, stale, bucket, ago),
           left = IF l > ago THEN stale - 1 ELSE stale
    PROVE  LET counted == Counted(bucket, l)
           IN  Account(IF Exceeded(counted) THEN n ELSE n + 1, left, counted, ago)
<1> DEFINE counted == Counted(bucket, l)
           m == IF Exceeded(counted) THEN n ELSE n + 1
<1> SUFFICES Account(m, left, counted, ago)
  BY Zenon
<1> USE RateLimitAssumption, PipelineAssumption
<1>1. counted \in Bucket
  BY CountType
<1>2. counted # NoBucket
  BY <1>1, NoBucketDiffers
<1>3. CASE bucket = NoBucket
  <2>1. counted = [count |-> 1, age |-> 0] /\ n = 0
    BY <1>3 DEF Counted, Account
  <2>2. m = IF MaxRequests = 0 THEN 0 ELSE 1
    BY <2>1 DEF Exceeded
  <2> QED
    BY <1>1, <1>2, <2>1, <2>2, UsedType DEF Account
<1>4. CASE bucket # NoBucket /\ bucket.age - l > Window
  <2>1. counted = [count |-> 1, age |-> l] /\ bucket \in Bucket
    BY <1>4 DEF Counted
  <2>2. m = IF MaxRequests = 0 THEN n ELSE n + 1
    BY <2>1 DEF Exceeded
  <2>3. bucket.age \in Int /\ Used(bucket) \in 0..MaxRequests
    BY <2>1, UsedType DEF Bucket, OldAge
  <2> QED
    BY <1>1, <1>2, <1>4, <2>1, <2>2, <2>3, UsedType DEF Account
<1>5. CASE bucket # NoBucket /\ ~(bucket.age - l > Window)
  <2>1. bucket \in Bucket /\ counted.age = bucket.age
        /\ counted.count = Least(bucket.count + 1, MaxRequests + 1)
    BY <1>5 DEF Counted, Bucket
  <2>2. bucket.age \in Int /\ bucket.count \in 0..MaxRequests + 1 /\ bucket.count >= 1
    BY <1>5, <2>1 DEF Bucket, OldAge, Account
  <2>3. counted.count >= 1 /\ MaxRequests = 0 => Exceeded(counted)
    BY <2>1, <2>2 DEF Exceeded, Least
  <2>4. /\ Used(counted) \in 0..MaxRequests /\ Used(bucket) \in 0..MaxRequests
        /\ Used(counted) >= Used(bucket)
        /\ ~Exceeded(counted) => Used(counted) = Used(bucket) + 1
    BY <2>1, <2>2 DEF Used, Least, Exceeded
  <2>5. /\ counted.count >= 1
        /\ m \in {n, n + 1} /\ m - n <= Used(counted) - Used(bucket)
    BY <2>1, <2>2, <2>4 DEF Least
  <2>6. MaxRequests = 0 => m = 0
    BY <2>3, <2>5 DEF Account
  <2> HIDE DEF counted, m
  \* Only a thread with an old clock is counted in so old a window.
  <2>7. CASE bucket.age > ago + Window
    <3>1. l > ago /\ left = stale - 1 /\ n + stale <= IoThreads
      BY <1>5, <2>2, <2>7 DEF Account
    <3> QED
      BY <1>2, <2>1, <2>2, <2>5, <2>6, <2>7, <3>1 DEF Account
  <2>8. CASE bucket.age \in ago + 1..ago + Window
    <3>1. n <= Used(bucket) \/ n + stale <= Used(bucket) + IoThreads - 1
      BY <1>5, <2>8 DEF Account
    <3>2. m <= Used(counted) \/ m + left <= Used(counted) + IoThreads - 1
      BY <2>4, <2>5, <3>1
    <3> QED
      BY <1>2, <2>1, <2>2, <2>5, <2>6, <2>8, <3>2 DEF Account
  <2>9. CASE bucket.age <= ago
    <3>1. n <= MaxRequests + Used(bucket) + IoThreads - 1
      BY <1>5, <2>9 DEF Account
    <3>2. m <= MaxRequests + Used(counted) + IoThreads - 1
      BY <2>4, <2>5, <3>1
    <3> QED
      BY <1>2, <2>1, <2>2, <2>5, <2>6, <2>9, <3>2 DEF Account
  <2> QED
    BY <2>2, <2>7, <2>8, <2>9
<1> QED
  BY <1>3, <1>4, <1>5

Aged(bucket) ==
    IF bucket = NoBucket THEN NoBucket ELSE [bucket EXCEPT !.age = Least(@ + 1, OldAge)]

\* A tick makes the stretch longer by one and everything older by one.
LEMMA AgedKeepsAccount ==
    ASSUME NEW n \in Nat, NEW stale \in 0..IoThreads, NEW bucket \in Bucket \cup {NoBucket},
           NEW ago \in 0..Window - 1, Account(n, stale, bucket, ago)
    PROVE  Account(n, stale, Aged(bucket), ago + 1)
<1> USE RateLimitAssumption, PipelineAssumption
<1>1. CASE bucket = NoBucket
  BY <1>1 DEF Aged, Account
<1>2. CASE bucket # NoBucket
  <2>1. bucket \in Bucket /\ bucket.age \in 0..OldAge /\ bucket.count \in 0..MaxRequests + 1
    BY <1>2 DEF Bucket
  <2>2. /\ Aged(bucket) \in Bucket /\ Aged(bucket).count = bucket.count
        /\ Aged(bucket).age = Least(bucket.age + 1, OldAge)
    BY <1>2, <2>1 DEF Aged, Bucket, Least, OldAge
  <2>3. Aged(bucket) # NoBucket /\ Used(Aged(bucket)) = Used(bucket)
    BY <2>2, NoBucketDiffers DEF Used
  <2>4. /\ Used(bucket) \in 0..MaxRequests
        /\ bucket.count >= 1
        /\ MaxRequests > 0 => Used(bucket) >= 1
    BY <1>2, <2>1, UsedType DEF Account
  <2> QED
    BY <1>2, <2>1, <2>2, <2>3, <2>4 DEF Account, Least, OldAge
<1> QED
  BY <1>1, <1>2

\* A stretch that begins now.
LEMMA EmptyStretch ==
    ASSUME NEW stale \in 0..IoThreads, NEW bucket \in Bucket \cup {NoBucket},
           bucket # NoBucket => bucket.count >= 1
    PROVE  Account(0, stale, bucket, 0)
<1>1. bucket # NoBucket => Used(bucket) \in 0..MaxRequests
  BY UsedType
<1> QED
  BY <1>1, RateLimitAssumption, PipelineAssumption DEF Account

-----------------------------------------------------------------------------
(* The threads, and what they hold.                                        *)

LEMMA ThreadsFit ==
    ASSUME NEW S, ThreadInv, S \subseteq Dispatched
    PROVE  IsFiniteSet(S) /\ Cardinality(S) \in 0..IoThreads
<1>1. IsFiniteSet(S) /\ Cardinality(S) <= Cardinality(Dispatched)
  BY FS_Subset DEF ThreadInv
<1>2. Cardinality(S) \in Nat /\ Cardinality(Dispatched) \in Nat
  BY <1>1, FS_CardinalityType DEF ThreadInv
<1> QED
  BY <1>1, <1>2, PipelineAssumption DEF ThreadInv

LEMMA StaleFits ==
    ASSUME ThreadInv, NEW ip, NEW ago
    PROVE  IsFiniteSet(Stale(ip, ago)) /\ Cardinality(Stale(ip, ago)) \in 0..IoThreads
BY ThreadsFit DEF Stale, Dispatched, Dispatching

LEMMA ThreadStep == TypeOK /\ ThreadInv /\ [Next]_pipeVars => ThreadInv'
<1> SUFFICES ASSUME TypeOK, ThreadInv, [Next]_pipeVars PROVE ThreadInv'
  OBVIOUS
<1>1. CASE Dispatched' \subseteq Dispatched
  BY <1>1, ThreadsFit DEF ThreadInv
<1>2. CASE \E c \in Conns, r \in Requests : Reads(c, r)
  <2>1. PICK c \in Conns, r \in Requests : Reads(c, r)
    BY <1>2
  <2>2. c \notin Dispatched /\ Dispatched' = Dispatched \cup {c}
    BY <2>1 DEF Reads, Goes, Dispatched, Dispatching, TypeOK
  <2>3. Cardinality(Dispatched) < IoThreads
    BY <2>1 DEF Reads, IoThreadFree, Dispatched
  <2>4. /\ IsFiniteSet(Dispatched \cup {c})
        /\ Cardinality(Dispatched \cup {c}) = Cardinality(Dispatched) + 1
    BY <2>2, FS_AddElement DEF ThreadInv
  <2>5. Cardinality(Dispatched) \in Nat
    BY FS_CardinalityType DEF ThreadInv
  <2> QED
    BY <2>2, <2>3, <2>4, <2>5, PipelineAssumption DEF ThreadInv
<1>3. CASE ~\E c \in Conns, r \in Requests : Reads(c, r)
  <2> USE DEF TypeOK, Dispatched, Dispatching
  <2> SUFFICES Dispatched' \subseteq Dispatched
    BY <1>1
  <2>1. CASE UNCHANGED pipeVars
    BY <2>1 DEF pipeVars, connVars
  <2>2. CASE Tick
    BY <2>2 DEF Tick
  <2>3. ASSUME NEW c \in Conns, ConnStep(c) PROVE Dispatched' \subseteq Dispatched
    <3>1. CASE DispatchStep(c)
      BY <3>1 DEF DispatchStep, Turned, ReadsClock, TooMany, CorsAnswers, ReachesHandler,
          Assigns, Throws, ServesFile, Sends, Goes
    <3>2. CASE ~DispatchStep(c)
      BY <1>3, <2>3, <3>2 DEF ConnStep, Accept, ReadEnds, RefusesBody, AcceptsUpgrade,
          RefusesUpgrade, Written, Sends, Goes
    <3> QED
      BY <3>1, <3>2
  <2> QED
    BY <2>1, <2>2, <2>3 DEF Next
<1> QED
  BY <1>2, <1>3

-----------------------------------------------------------------------------
(* The steps.                                                              *)

\* A connection moves, to the lock perhaps, but not past it.
LEMMA MoveKeepsAccount ==
    ASSUME TypeOK, RateInv, NEW c \in Conns, NEW to, pc[c] # "limited",
           pc' = [pc EXCEPT ![c] = to], lag' \in {lag, [lag EXCEPT ![c] = 0]},
           \A d \in Conns \ {c} : remoteIp'[d] = remoteIp[d], UNCHANGED rateVars
    PROVE  AccountInv' /\ LagInv'
<1>1. lag' = lag /\ lag[c] = 0
  BY DEF RateInv, LagInv, TypeOK
<1>2. LagInv'
  BY <1>1 DEF RateInv, LagInv, TypeOK
<1>3. ASSUME NEW ip \in Ips, NEW ago \in 0..Window PROVE Stale(ip, ago)' = Stale(ip, ago)
  BY <1>1 DEF Stale, TypeOK
<1> QED
  BY <1>2, <1>3 DEF RateInv, AccountInv, rateVars

\* A request is counted, and its thread goes on.
LEMMA CountKeepsAccount ==
    ASSUME TypeOK, RateInv, NEW c \in Conns, NEW to, pc[c] = "limited", to # "limited",
           CountRequest(remoteIp[c], lag[c]),
           pc' = [pc EXCEPT ![c] = to], lag' = [lag EXCEPT ![c] = 0], UNCHANGED remoteIp
    PROVE  AccountInv' /\ LagInv'
<1>1. LagInv'
  BY DEF RateInv, LagInv, TypeOK
<1>2. ASSUME NEW ip \in Ips, NEW ago \in 0..Window
      PROVE  Account(passed[ip][ago], Cardinality(Stale(ip, ago)), buckets[ip], ago)'
  <2> DEFINE stale == Stale(ip, ago)
             left == Stale(ip, ago)'
  <2>1. IsFiniteSet(stale) /\ Cardinality(stale) \in 0..IoThreads
    BY StaleFits DEF RateInv
  <2>2. Account(passed[ip][ago], Cardinality(stale), buckets[ip], ago)
    BY DEF RateInv, AccountInv
  <2>3. CASE ip # remoteIp[c]
    <3>1. left = stale
      BY <2>3 DEF Stale, TypeOK
    <3>2. buckets'[ip] = buckets[ip] /\ passed'[ip] = passed[ip]
      BY <2>3 DEF CountRequest, TypeOK
    <3> QED
      BY <2>2, <3>1, <3>2
  <2>4. CASE ip = remoteIp[c]
    <3>1. left = stale \ {c} /\ (c \in stale <=> lag[c] > ago)
      BY <2>4 DEF Stale, TypeOK
    <3>2. Cardinality(left) = IF lag[c] > ago THEN Cardinality(stale) - 1
                              ELSE Cardinality(stale)
      <4>1. CASE c \in stale
        BY <2>1, <3>1, <4>1, FS_RemoveElement
      <4>2. CASE c \notin stale
        BY <3>1, <4>2
      <4> QED
        BY <3>1, <4>1, <4>2
    <3>3. lag[c] \in 0..MaxLag /\ buckets[ip] \in Bucket \cup {NoBucket} /\ passed[ip][ago] \in Nat
      BY DEF TypeOK
    <3>4. Cardinality(left) \in 0..IoThreads
      <4>1. ThreadInv /\ left \subseteq Dispatched
        BY <3>1 DEF RateInv, Stale, Dispatched, Dispatching
      <4> QED
        BY <4>1, ThreadsFit
    <3>5. buckets'[ip] = Counted(buckets[ip], lag[c])
      BY <2>4 DEF CountRequest, TypeOK
    <3>6. passed'[ip][ago] = IF Exceeded(Counted(buckets[ip], lag[c])) THEN passed[ip][ago]
                             ELSE passed[ip][ago] + 1
      BY <2>4, <3>5 DEF CountRequest, TypeOK
    <3> HIDE DEF stale, left
    <3>7. Account(passed'[ip][ago], Cardinality(left), buckets'[ip], ago)
      BY <2>1, <2>2, <3>2, <3>3, <3>4, <3>5, <3>6, CountedKeepsAccount
    <3> QED
      BY <3>7 DEF left
  <2> QED
    BY <2>3, <2>4
<1> QED
  BY <1>1, <1>2 DEF AccountInv

LEMMA TickKeepsAccount == TypeOK /\ RateInv /\ Tick => AccountInv' /\ LagInv'
<1> SUFFICES ASSUME TypeOK, RateInv, Tick PROVE AccountInv' /\ LagInv'
  OBVIOUS
<1>1. LagInv'
  BY DEF Tick, LagInv
<1>2. ThreadInv'
  BY ThreadStep DEF RateInv, Next
<1>3. ASSUME NEW ip \in Ips, NEW ago \in 0..Window
      PROVE  Account(passed[ip][ago], Cardinality(Stale(ip, ago)), buckets[ip], ago)'
  <2>1. buckets[ip] \in Bucket \cup {NoBucket} /\ buckets'[ip] = Aged(buckets[ip])
    BY DEF Tick, BucketsTick, Aged, TypeOK
  <2>2. passed'[ip][ago] = IF ago = 0 THEN 0 ELSE passed[ip][ago - 1]
    BY DEF Tick, BucketsTick
  <2>3. CASE ago = 0
    <3>1. Cardinality(Stale(ip, ago)') \in 0..IoThreads
      <4>1. ThreadInv /\ Stale(ip, ago)' \subseteq Dispatched
        BY DEF RateInv, Tick, Stale, Dispatched, Dispatching
      <4> QED
        BY <4>1, ThreadsFit
    <3>2. buckets[ip] # NoBucket => buckets[ip].count >= 1
      BY RateLimitAssumption DEF RateInv, AccountInv, Account
    <3>3. buckets'[ip] \in Bucket \cup {NoBucket}
      BY TickType DEF Tick
    <3>4. buckets'[ip] # NoBucket => buckets'[ip].count >= 1
      BY <2>1, <3>2 DEF Aged, Bucket
    <3> QED
      BY <2>2, <2>3, <3>1, <3>3, <3>4, EmptyStretch
  <2>4. CASE ago # 0
    <3>1. ago - 1 \in 0..Window - 1 /\ ago - 1 \in 0..Window /\ (ago - 1) + 1 = ago
      BY <2>4, RateLimitAssumption
    <3>2. Stale(ip, ago)' = Stale(ip, ago - 1)
      BY <3>1 DEF Tick, Stale, TypeOK
    <3>3. Cardinality(Stale(ip, ago - 1)) \in 0..IoThreads
      BY StaleFits DEF RateInv
    <3>4. Account(passed[ip][ago - 1], Cardinality(Stale(ip, ago - 1)), buckets[ip], ago - 1)
      BY <3>1 DEF RateInv, AccountInv
    <3>5. passed[ip][ago - 1] \in Nat
      BY <3>1 DEF TypeOK
    <3>6. Account(passed[ip][ago - 1], Cardinality(Stale(ip, ago - 1)), Aged(buckets[ip]),
                  (ago - 1) + 1)
      BY <2>1, <3>1, <3>3, <3>4, <3>5, AgedKeepsAccount
    <3> QED
      BY <2>1, <2>2, <2>4, <3>1, <3>2, <3>6
  <2> QED
    BY <2>3, <2>4
<1> QED
  BY <1>1, <1>3 DEF AccountInv

LEMMA RateStep == TypeOK /\ RateInv /\ [Next]_pipeVars => RateInv'
<1> SUFFICES ASSUME TypeOK, RateInv, [Next]_pipeVars PROVE AccountInv' /\ LagInv'
  BY ThreadStep DEF RateInv
<1>1. CASE UNCHANGED pipeVars
  BY <1>1 DEF RateInv, AccountInv, LagInv, Stale, pipeVars, connVars, rateVars
<1>2. CASE Tick
  BY <1>2, TickKeepsAccount
<1>3. ASSUME NEW c \in Conns, TooMany(c) \/ CorsAnswers(c) PROVE AccountInv' /\ LagInv'
  BY <1>3, CountKeepsAccount DEF TooMany, CorsAnswers, Sends, Goes
<1>4. ASSUME NEW c \in Conns, ReachesHandler(c) PROVE AccountInv' /\ LagInv'
  BY <1>4, CountKeepsAccount DEF ReachesHandler, Goes
<1>5. ASSUME NEW c \in Conns, NEW from \in Ips, Accept(c, from) PROVE AccountInv' /\ LagInv'
  BY <1>5, MoveKeepsAccount DEF Accept, Keeps, TypeOK
<1>6. ASSUME NEW c \in Conns, ReadEnds(c) PROVE AccountInv' /\ LagInv'
  BY <1>6, MoveKeepsAccount DEF ReadEnds, Goes, Keeps
<1>7. ASSUME NEW c \in Conns, RefusesBody(c) \/ Turned(c) PROVE AccountInv' /\ LagInv'
  BY <1>7, MoveKeepsAccount DEF RefusesBody, Turned, Sends, Goes
<1>8. ASSUME NEW c \in Conns, NEW u \in Upgrades, AcceptsUpgrade(c, u) \/ RefusesUpgrade(c, u)
      PROVE  AccountInv' /\ LagInv'
  BY <1>8, MoveKeepsAccount DEF AcceptsUpgrade, RefusesUpgrade, Sends, Goes, Keeps
<1>9. ASSUME NEW c \in Conns, NEW r \in Requests, Reads(c, r) PROVE AccountInv' /\ LagInv'
  BY <1>9, MoveKeepsAccount DEF Reads, Goes
<1>10. ASSUME NEW c \in Conns, ReadsClock(c) PROVE AccountInv' /\ LagInv'
  BY <1>10, MoveKeepsAccount DEF ReadsClock, Goes, Keeps
<1>11. ASSUME NEW c \in Conns, Assigns(c) PROVE AccountInv' /\ LagInv'
  <2>1. PICK r : Sends(c, "handling", r)
    BY <1>11, Zenon DEF Assigns
  <2> QED
    BY <1>11, <2>1, MoveKeepsAccount DEF Assigns, Sends, Goes
<1>12. ASSUME NEW c \in Conns, Throws(c) \/ ServesFile(c) PROVE AccountInv' /\ LagInv'
  BY <1>12, MoveKeepsAccount DEF Throws, ServesFile, Sends, Goes
<1>13. ASSUME NEW c \in Conns, Written(c) PROVE AccountInv' /\ LagInv'
  BY <1>13, MoveKeepsAccount DEF Written, Goes
<1> QED
  BY <1>1, <1>2, <1>3, <1>4, <1>5, <1>6, <1>7, <1>8, <1>9, <1>10, <1>11, <1>12, <1>13
     DEF Next, ConnStep, DispatchStep

LEMMA RateInitInv == Init => RateInv
<1> SUFFICES ASSUME Init PROVE RateInv
  OBVIOUS
<1>1. Dispatched = {} /\ \A ip, ago : Stale(ip, ago) = {}
  BY DEF Init, Dispatched, Dispatching, Stale
<1>2. ThreadInv
  BY <1>1, FS_EmptySet, PipelineAssumption DEF ThreadInv
<1>3. \A ip \in Ips, ago \in 0..Window : passed[ip][ago] = 0 /\ buckets[ip] = NoBucket
  BY DEF Init, RateLimitInit
<1> QED
  BY <1>2, <1>3 DEF Init, RateInv, AccountInv, Account, LagInv

LEMMA RateInvariant == Spec => []RateInv
<1>1. TypeOK /\ RateInv /\ [Next]_pipeVars => RateInv'
  BY RateStep
<1> QED
  BY <1>1, RateInitInv, PipeTypeCorrect, PTL DEF Spec

-----------------------------------------------------------------------------
(* The theorem.                                                            *)

\* RateLimitMiddleware, whatever its limit, its window, the number of threads,
\* and the time a thread is held up between reading the clock and counting: a
\* stretch of time as long as the window lets through at most twice the limit of
\* an address's requests, and one more for each thread but one.
THEOREM RateIsBounded == Spec => []RateBounded
<1>1. ASSUME TypeOK, RateInv, NEW ip \in Ips
      PROVE  PassedLately(ip) <= 2 * MaxRequests + IoThreads - 1
  <2> DEFINE n == passed[ip][Window]
             stale == Cardinality(Stale(ip, Window))
             bucket == buckets[ip]
  <2>1. n \in Nat /\ bucket \in Bucket \cup {NoBucket}
    BY <1>1, RateLimitAssumption DEF TypeOK
  <2>2. stale \in 0..IoThreads
    BY <1>1, StaleFits DEF RateInv
  <2>3. Account(n, stale, bucket, Window)
    BY <1>1, RateLimitAssumption DEF RateInv, AccountInv
  <2>4. bucket # NoBucket => bucket.age \in Nat /\ Used(bucket) \in 0..MaxRequests
    BY <2>1, UsedType DEF Bucket
  <2> HIDE DEF n, stale, bucket
  <2>5. n <= 2 * MaxRequests + IoThreads - 1
    BY <2>1, <2>2, <2>3, <2>4, RateLimitAssumption, PipelineAssumption DEF Account
  <2> QED
    BY <2>5 DEF n, PassedLately
<1>2. TypeOK /\ RateInv => RateBounded
  BY <1>1 DEF RateBounded
<1> QED
  BY <1>2, PipeTypeCorrect, RateInvariant, PTL
===============================================================================
