------------------------------ MODULE AuthProofs ------------------------------
(***************************************************************************)
(* Proofs about Auth for any number of threads, addresses and tokens, any  *)
(* limit, lockout and session lifetime.                                    *)
(*                                                                         *)
(* IInv is the inductive invariant.  Its core is BoundInv, which counts    *)
(* the threads on their way: while an address is not locked out, every     *)
(* compared password is one that failCount has or a thread that has not    *)
(* reported yet; once it is locked out nobody passes the check, and only   *)
(* the threads already past it can add to attempts.  RelockInv says the    *)
(* same of an address whose lockout has run out once: its failCount stays  *)
(* at the limit, so there is no failure without a lockout any more.        *)
(***************************************************************************)
EXTENDS Auth, FiniteSetTheorems, TLAPS

Checked(ip)  == {t \in Threads : remoteIp[t] = ip /\ pc[t] = "checked"}
Compared(ip) == {t \in Threads : remoteIp[t] = ip /\ pc[t] \in {"denied", "accepted"}}

\* The failures recorded since attempts was last reset.
FreshFailures(ip) ==
    IF entries[ip].failCount < MaxFailAttempts THEN entries[ip].failCount ELSE 0

RequestInv ==
    \A t \in Threads : pc[t] \in {"checked", "denied", "accepted"} => remoteIp[t] \in Ips

LockInv ==
    \A ip \in Ips : Locked(ip) => entries[ip].failCount = MaxFailAttempts

BoundInv ==
    \A ip \in Ips :
        IF Locked(ip)
        THEN attempts[ip] + Cardinality(Checked(ip))
                <= MaxFailAttempts + Cardinality(Threads) - 1
        ELSE attempts[ip] <= FreshFailures(ip) + Cardinality(Compared(ip))

RelockInv ==
    \A ip \in lapsed :
        /\ entries[ip].failCount = MaxFailAttempts
        /\ Locked(ip) => attempts[ip] + Cardinality(Checked(ip)) <= Cardinality(Threads)

SessionInv ==
    /\ Stored \subseteq issued
    /\ \A tok \in Stored : sessions[tok] = SessionTtl - unused[tok]

IInv == TypeOK /\ RequestInv /\ LockInv /\ BoundInv /\ RelockInv /\ SessionInv

-----------------------------------------------------------------------------
(* Type correctness.                                                       *)

USE DEF Entry, PCs, Stored

LEMMA ShortenedType ==
    ASSUME NEW e \in Entry
    PROVE  /\ Shortened(e) \in Entry
           /\ Shortened(e).failCount = e.failCount
           /\ Shortened(e).lockLeft = IF e.lockLeft > 0 THEN e.lockLeft - 1 ELSE 0
BY FailDelayAssumption DEF Shortened

LEMMA CountedType ==
    ASSUME NEW e \in Entry
    PROVE  CountedFailure(e) \in Entry
BY FailDelayAssumption DEF CountedFailure

LEMMA TypeInit == Init => TypeOK
BY FailDelayAssumption, SessionStoreAssumption
   DEF Init, FailDelayInit, SessionStoreInit, NoEntry, TypeOK

LEMMA TypeLogin ==
    ASSUME TypeOK, RequestInv, NEW t \in Threads, LoginStep(t)
    PROVE  TypeOK'
<1>1. ASSUME NEW ip \in Ips, CheckLockout(t, ip) PROVE TypeOK'
  BY <1>1 DEF TypeOK, CheckLockout, Goes, storeVars
<1>2. CASE MalformedLogin(t)
  BY <1>2 DEF TypeOK, MalformedLogin, LoginGoes, Goes, storeVars
<1>3. CASE ComparePassword(t)
  <2>1. remoteIp[t] \in Ips
    BY <1>3 DEF RequestInv, ComparePassword, LoginGoes, Goes
  <2>2. attempts' \in [Ips -> Nat]
    BY <1>3, <2>1 DEF TypeOK, ComparePassword
  <2>. QED
    BY <1>3, <2>2 DEF TypeOK, ComparePassword, LoginGoes, Goes, storeVars
<1>4. CASE DenyLogin(t)
  <2>1. entries' \in [Ips -> Entry]
    BY <1>4, CountedType DEF TypeOK, DenyLogin, RecordFailure
  <2>. QED
    BY <1>4, <2>1 DEF TypeOK, DenyLogin, LoginGoes, Goes, storeVars
<1>5. CASE ClearFailures(t)
  <2>1. NoEntry \in Entry
    BY FailDelayAssumption DEF NoEntry
  <2>. QED
    BY <1>5, <2>1 DEF TypeOK, ClearFailures, RecordSuccess, LoginGoes, Goes, storeVars
<1>6. ASSUME NEW tok \in Tokens, CreateSession(t, tok) PROVE TypeOK'
  BY <1>6, SessionStoreAssumption DEF TypeOK, CreateSession, Create, LoginGoes, Goes
<1>. QED BY <1>1, <1>2, <1>3, <1>4, <1>5, <1>6 DEF LoginStep

LEMMA EraseType ==
    ASSUME TypeOK, NEW tok, Erase(tok)
    PROVE  /\ DOMAIN sessions' = Stored \ {tok}
           /\ sessions' \in [DOMAIN sessions' -> -1 .. SessionTtl]
           /\ \A k \in DOMAIN sessions' : sessions'[k] = sessions[k]
BY DEF TypeOK, Erase, Restrict

LEMMA SlideType ==
    ASSUME TypeOK, NEW tok \in Tokens, Slide(tok)
    PROVE  /\ DOMAIN sessions' = Stored
           /\ tok \in Stored
           /\ sessions' \in [DOMAIN sessions' -> -1 .. SessionTtl]
           /\ \A k \in Stored : sessions'[k] = IF k = tok THEN SessionTtl ELSE sessions[k]
BY SessionStoreAssumption DEF TypeOK, Slide, Valid

LEMMA TypeToken ==
    ASSUME TypeOK, NEW t \in Threads, TokenStep(t)
    PROVE  TypeOK'
<1>1. ASSUME NEW tok \in Tokens, Authenticate(t, tok) PROVE TypeOK'
  <2>1. Slide(tok)
    BY <1>1 DEF Authenticate
  <2>2. DOMAIN sessions' = Stored /\ sessions' \in [DOMAIN sessions' -> -1 .. SessionTtl]
    BY <2>1, SlideType
  <2>3. unused' \in [Tokens -> 0 .. SessionTtl + 1]
    BY <1>1, SessionStoreAssumption DEF TypeOK, Authenticate
  <2>. QED
    BY <1>1, <2>1, <2>2, <2>3 DEF TypeOK, Authenticate, Goes, Slide
<1>2. ASSUME NEW tok \in Tokens, AuthenticateStream(t, tok) PROVE TypeOK'
  <2>1. Slide(tok)
    BY <1>2 DEF AuthenticateStream
  <2>2. DOMAIN sessions' = Stored /\ sessions' \in [DOMAIN sessions' -> -1 .. SessionTtl]
    BY <2>1, SlideType
  <2>3. unused' \in [Tokens -> 0 .. SessionTtl + 1]
    BY <1>2, SessionStoreAssumption DEF TypeOK, AuthenticateStream
  <2>. QED
    BY <1>2, <2>1, <2>2, <2>3 DEF TypeOK, AuthenticateStream, Slide, reqVars
<1>3. ASSUME NEW tok \in Tokens, RefuseExpired(t, tok) PROVE TypeOK'
  <2>1. Erase(tok)
    BY <1>3 DEF RefuseExpired, EraseExpired
  <2>. QED
    BY <1>3, <2>1, EraseType DEF TypeOK, RefuseExpired, Erase, reqVars
<1>4. CASE RefuseLogout(t)
  BY <1>4 DEF TypeOK, RefuseLogout, LogoutEnds, Goes, storeVars
<1>5. CASE Logout(t)
  <2>1. Erase(session[t])
    BY <1>5 DEF Logout, Revoke
  <2>. QED
    BY <1>5, <2>1, EraseType DEF TypeOK, Logout, LogoutEnds, Goes, Erase
<1>. QED BY <1>1, <1>2, <1>3, <1>4, <1>5 DEF TokenStep

LEMMA TypeTick ==
    ASSUME TypeOK, Tick
    PROVE  TypeOK'
<1>1. entries' \in [Ips -> Entry]
  BY ShortenedType DEF TypeOK, Tick, LockoutsTick
<1>2. /\ DOMAIN sessions' = Stored
      /\ sessions' \in [DOMAIN sessions' -> -1 .. SessionTtl]
  BY SessionStoreAssumption DEF TypeOK, Tick, SessionsTick, Expired
<1>3. unused' \in [Tokens -> 0 .. SessionTtl + 1]
  BY SessionStoreAssumption DEF TypeOK, Tick
<1>4. attempts' \in [Ips -> Nat]
  BY DEF TypeOK, Tick
<1>. QED
  BY <1>1, <1>2, <1>3, <1>4 DEF TypeOK, Tick, SessionsTick, reqVars

-----------------------------------------------------------------------------
(* The bound on attempts.                                                  *)

LEMMA CountTypes ==
    ASSUME NEW ip
    PROVE  /\ Cardinality(Checked(ip)) \in Nat
           /\ Cardinality(Compared(ip)) \in Nat
           /\ Cardinality(Threads) \in Nat \ {0}
           /\ Cardinality(Checked(ip)) + Cardinality(Compared(ip)) <= Cardinality(Threads)
           /\ IsFiniteSet(Checked(ip)) /\ IsFiniteSet(Compared(ip))
<1>. DEFINE both == Checked(ip) \cup Compared(ip)
<1>1. IsFiniteSet(Threads) /\ Cardinality(Threads) \in Nat
  BY AuthAssumption, FS_CardinalityType
<1>2. Cardinality(Threads) # 0
  BY <1>1, AuthAssumption, FS_EmptySet
<1>3. IsFiniteSet(Checked(ip)) /\ Cardinality(Checked(ip)) \in Nat
  BY <1>1, FS_Subset, FS_CardinalityType DEF Checked
<1>4. IsFiniteSet(Compared(ip)) /\ Cardinality(Compared(ip)) \in Nat
  BY <1>1, FS_Subset, FS_CardinalityType DEF Compared
<1>5. Checked(ip) \cap Compared(ip) = {}
  BY DEF Checked, Compared
<1>6. Cardinality(both) = Cardinality(Checked(ip)) + Cardinality(Compared(ip))
  BY <1>3, <1>4, <1>5, FS_Union, FS_EmptySet
<1>7. both \subseteq Threads
  BY DEF Checked, Compared
<1>8. Cardinality(both) <= Cardinality(Threads)
  BY <1>1, <1>7, FS_Subset
<1>. QED BY <1>1, <1>2, <1>3, <1>4, <1>6, <1>8

LEMMA OneMoreOrLess ==
    ASSUME NEW S, IsFiniteSet(S), NEW x
    PROVE  /\ Cardinality(S \ {x}) \in Nat
           /\ Cardinality(S \ {x}) <= Cardinality(S)
           /\ x \in S => Cardinality(S \ {x}) = Cardinality(S) - 1
           /\ x \notin S => Cardinality(S \cup {x}) = Cardinality(S) + 1
<1>1. Cardinality(S) \in Nat /\ Cardinality(S \ {x}) \in Nat
  BY FS_CardinalityType, FS_RemoveElement
<1>2. Cardinality(S \ {x}) = IF x \in S THEN Cardinality(S) - 1 ELSE Cardinality(S)
  BY FS_RemoveElement
<1>3. Cardinality(S \cup {x}) = IF x \in S THEN Cardinality(S) ELSE Cardinality(S) + 1
  BY FS_AddElement
<1>. QED BY <1>1, <1>2, <1>3

LEMMA EntryFacts ==
    ASSUME TypeOK, NEW ip \in Ips
    PROVE  /\ entries[ip] \in Entry
           /\ entries[ip].failCount \in 0 .. MaxFailAttempts
           /\ entries[ip].lockLeft \in 0 .. LockoutDuration
           /\ FreshFailures(ip) \in Nat
           /\ FreshFailures(ip) <= MaxFailAttempts - 1
           /\ attempts[ip] \in Nat
BY FailDelayAssumption DEF TypeOK, FreshFailures

\* Unlocked or not, the attempts and the threads before the comparison stay
\* within the bound.
LEMMA WithinBound ==
    ASSUME TypeOK, BoundInv, NEW ip \in Ips
    PROVE  attempts[ip] + Cardinality(Checked(ip))
                <= MaxFailAttempts + Cardinality(Threads) - 1
<1>1. CASE Locked(ip)
  BY <1>1 DEF BoundInv
<1>2. CASE ~Locked(ip)
  <2>1. attempts[ip] <= FreshFailures(ip) + Cardinality(Compared(ip))
    BY <1>2 DEF BoundInv
  <2>. QED
    BY <2>1, CountTypes, EntryFacts, FailDelayAssumption
<1>. QED BY <1>1, <1>2

\* What a step leaves of the bound of an address it does not touch.
LEMMA BoundKept ==
    ASSUME BoundInv, NEW ip \in Ips,
           entries'[ip] = entries[ip],
           attempts'[ip] = attempts[ip],
           Compared(ip)' = Compared(ip),
           Checked(ip)' = Checked(ip) \/ ~Locked(ip)
    PROVE  IF Locked(ip)'
           THEN (attempts[ip] + Cardinality(Checked(ip)))'
                   <= MaxFailAttempts + Cardinality(Threads) - 1
           ELSE (attempts[ip] <= FreshFailures(ip) + Cardinality(Compared(ip)))'
BY DEF BoundInv, Locked, FreshFailures

\* Steps that only move thread t between states in which it is not counted.
LEMMA SetsKept ==
    ASSUME TypeOK, NEW ip \in Ips, NEW t \in Threads,
           NEW p, pc' = [pc EXCEPT ![t] = p],
           remoteIp' = remoteIp \/ \E x : remoteIp' = [remoteIp EXCEPT ![t] = x],
           remoteIp[t] # ip \/ pc[t] \notin {"checked", "denied", "accepted"},
           remoteIp'[t] # ip \/ p \notin {"checked", "denied", "accepted"}
    PROVE  Checked(ip)' = Checked(ip) /\ Compared(ip)' = Compared(ip)
BY DEF TypeOK, Checked, Compared

LEMMA BoundLogin ==
    ASSUME IInv, NEW t \in Threads, LoginStep(t)
    PROVE  BoundInv'
<1>. SUFFICES ASSUME NEW ip \in Ips
              PROVE  IF Locked(ip)'
                     THEN (attempts[ip] + Cardinality(Checked(ip)))'
                             <= MaxFailAttempts + Cardinality(Threads) - 1
                     ELSE (attempts[ip] <= FreshFailures(ip) + Cardinality(Compared(ip)))'
  BY DEF BoundInv
<1>. USE DEF IInv
<1>0. TypeOK'
  BY TypeLogin
<1>1. ASSUME NEW i \in Ips, CheckLockout(t, i) PROVE Compared(ip)' = Compared(ip)
                                     /\ (Checked(ip)' = Checked(ip) \/ ~Locked(ip))
  <2>1. Compared(ip)' = Compared(ip)
    BY <1>1 DEF TypeOK, CheckLockout, Goes, Compared
  <2>2. CASE ip = i
    BY <1>1, <2>1, <2>2 DEF CheckLockout
  <2>3. CASE ip # i
    BY <1>1, <2>1, <2>3 DEF TypeOK, CheckLockout, Goes, Checked
  <2>. QED BY <2>2, <2>3
<1>2. CASE MalformedLogin(t)
  <2>1. Compared(ip)' = Compared(ip) /\ Checked(ip)' = Checked(ip) \ {t}
    BY <1>2 DEF TypeOK, MalformedLogin, LoginGoes, Goes, Compared, Checked
  <2>2. Cardinality(Checked(ip)') <= Cardinality(Checked(ip))
    BY <2>1, CountTypes, OneMoreOrLess
  <2>3. entries' = entries /\ attempts' = attempts
    BY <1>2 DEF MalformedLogin
  <2>4. Cardinality(Checked(ip)') \in Nat
    BY <2>1, CountTypes, OneMoreOrLess
  <2>. QED
    BY <2>1, <2>2, <2>3, <2>4, CountTypes, EntryFacts, FailDelayAssumption
       DEF BoundInv, Locked, FreshFailures
<1>3. CASE ComparePassword(t)
  <2>0. pc[t] = "checked" /\ entries' = entries
    BY <1>3 DEF ComparePassword, LoginGoes, Goes
  <2>1. CASE remoteIp[t] # ip
    <3>1. Compared(ip)' = Compared(ip) /\ Checked(ip)' = Checked(ip)
      BY <1>3, <2>1 DEF TypeOK, ComparePassword, LoginGoes, Goes, Compared, Checked
    <3>2. attempts'[ip] = attempts[ip]
      BY <1>3, <2>1 DEF TypeOK, ComparePassword
    <3>. QED BY <2>0, <3>1, <3>2, BoundKept
  <2>2. CASE remoteIp[t] = ip
    <3>1. /\ t \in Checked(ip) /\ t \notin Compared(ip)
          /\ Compared(ip)' = Compared(ip) \cup {t}
          /\ Checked(ip)' = Checked(ip) \ {t}
      BY <1>3, <2>2 DEF TypeOK, ComparePassword, LoginGoes, Goes, Compared, Checked
    <3>2. /\ Cardinality(Compared(ip)') = Cardinality(Compared(ip)) + 1
          /\ Cardinality(Checked(ip)') = Cardinality(Checked(ip)) - 1
      BY <3>1, CountTypes, OneMoreOrLess
    <3>3. attempts'[ip] = attempts[ip] + 1
      BY <1>3, <2>2 DEF TypeOK, ComparePassword
    <3>. QED
      BY <2>0, <3>2, <3>3, CountTypes, EntryFacts, FailDelayAssumption
         DEF BoundInv, Locked, FreshFailures
  <2>. QED BY <2>1, <2>2
<1>4. CASE DenyLogin(t)
  <2>0. pc[t] = "denied" /\ attempts' = attempts
    BY <1>4 DEF DenyLogin, LoginGoes, Goes
  <2>1. Checked(ip)' = Checked(ip)
    BY <1>4 DEF TypeOK, DenyLogin, LoginGoes, Goes, Checked
  <2>2. CASE remoteIp[t] # ip
    <3>1. Compared(ip)' = Compared(ip)
      BY <1>4, <2>2 DEF TypeOK, DenyLogin, LoginGoes, Goes, Compared
    <3>2. entries'[ip] = entries[ip]
      BY <1>4, <2>2 DEF TypeOK, DenyLogin, RecordFailure
    <3>. QED BY <2>0, <2>1, <3>1, <3>2, BoundKept
  <2>3. CASE remoteIp[t] = ip
    <3>1. t \in Compared(ip) /\ Compared(ip)' = Compared(ip) \ {t}
      BY <1>4, <2>3 DEF TypeOK, DenyLogin, LoginGoes, Goes, Compared
    <3>2. Cardinality(Compared(ip)') = Cardinality(Compared(ip)) - 1
      BY <3>1, CountTypes, OneMoreOrLess
    <3>3. entries'[ip] = CountedFailure(entries[ip])
      BY <1>4, <2>3 DEF TypeOK, DenyLogin, RecordFailure
    <3>4. CASE entries[ip].failCount + 1 >= MaxFailAttempts
      <4>1. Locked(ip)'
        BY <3>3, <3>4, FailDelayAssumption DEF Locked, CountedFailure
      <4>. QED
        BY <4>1, <2>0, <2>1, WithinBound
    <3>5. CASE ~(entries[ip].failCount + 1 >= MaxFailAttempts)
      <4>1. entries'[ip] = [entries[ip] EXCEPT !.failCount = @ + 1]
        BY <3>3, <3>5 DEF CountedFailure
      <4>2. ~Locked(ip)
        BY <3>5, EntryFacts, FailDelayAssumption DEF LockInv
      <4>3. ~Locked(ip)'
        BY <4>1, <4>2, EntryFacts DEF Locked
      <4>4. FreshFailures(ip)' = FreshFailures(ip) + 1
        BY <3>5, <4>1, EntryFacts, FailDelayAssumption DEF FreshFailures
      <4>. QED
        BY <4>2, <4>3, <4>4, <3>2, <2>0, CountTypes, EntryFacts DEF BoundInv
    <3>. QED BY <3>4, <3>5
  <2>. QED BY <2>2, <2>3
<1>5. CASE ClearFailures(t)
  <2>0. pc[t] = "accepted"
    BY <1>5 DEF ClearFailures, LoginGoes, Goes
  <2>1. CASE remoteIp[t] # ip
    <3>1. Checked(ip)' = Checked(ip) /\ Compared(ip)' = Compared(ip)
      BY <1>5, <2>1 DEF TypeOK, ClearFailures, LoginGoes, Goes, Compared, Checked
    <3>2. entries'[ip] = entries[ip] /\ attempts'[ip] = attempts[ip]
      BY <1>5, <2>1 DEF TypeOK, ClearFailures, RecordSuccess
    <3>. QED BY <3>1, <3>2, BoundKept
  <2>2. CASE remoteIp[t] = ip
    <3>1. entries'[ip] = NoEntry /\ attempts'[ip] = 0
      BY <1>5, <2>2 DEF TypeOK, ClearFailures, RecordSuccess
    <3>2. Compared(ip)' = Compared(ip) \ {t}
      BY <1>5, <2>2 DEF TypeOK, ClearFailures, LoginGoes, Goes, Compared
    <3>3. Cardinality(Compared(ip)') \in Nat
      BY <3>2, CountTypes, OneMoreOrLess
    <3>4. ~Locked(ip)' /\ FreshFailures(ip)' = 0
      BY <3>1, FailDelayAssumption DEF Locked, FreshFailures, NoEntry
    <3>. QED BY <3>1, <3>3, <3>4
  <2>. QED BY <2>1, <2>2
<1>6. ASSUME NEW tok \in Tokens, CreateSession(t, tok)
      PROVE  /\ Checked(ip)' = Checked(ip) /\ Compared(ip)' = Compared(ip)
             /\ entries' = entries /\ attempts' = attempts
  BY <1>6 DEF TypeOK, CreateSession, LoginGoes, Goes, Checked, Compared
<1>7. ASSUME NEW i \in Ips, CheckLockout(t, i) PROVE entries' = entries /\ attempts' = attempts
  BY <1>7 DEF CheckLockout
<1>. QED
  BY <1>1, <1>2, <1>3, <1>4, <1>5, <1>6, <1>7, BoundKept DEF LoginStep

LEMMA TokenStepFrame ==
    ASSUME NEW t \in Threads, TokenStep(t)
    PROVE  /\ pc[t] \in {"idle", "authed"}
           /\ \/ pc' = pc
              \/ \E p \in {"idle", "authed"} : pc' = [pc EXCEPT ![t] = p]
           /\ UNCHANGED <<remoteIp, entries, attempts, lapsed>>
BY DEF TokenStep, Authenticate, AuthenticateStream, RefuseExpired, RefuseLogout, Logout,
       LogoutEnds, Goes, reqVars

LEMMA BoundToken ==
    ASSUME IInv, NEW t \in Threads, TokenStep(t)
    PROVE  BoundInv'
<1>. SUFFICES ASSUME NEW ip \in Ips
              PROVE  IF Locked(ip)'
                     THEN (attempts[ip] + Cardinality(Checked(ip)))'
                             <= MaxFailAttempts + Cardinality(Threads) - 1
                     ELSE (attempts[ip] <= FreshFailures(ip) + Cardinality(Compared(ip)))'
  BY DEF BoundInv
<1>1. Checked(ip)' = Checked(ip) /\ Compared(ip)' = Compared(ip)
  BY TokenStepFrame DEF IInv, TypeOK, Checked, Compared
<1>. QED BY <1>1, TokenStepFrame, BoundKept DEF IInv

LEMMA BoundTick ==
    ASSUME IInv, Tick
    PROVE  BoundInv'
<1>. SUFFICES ASSUME NEW ip \in Ips
              PROVE  IF Locked(ip)'
                     THEN (attempts[ip] + Cardinality(Checked(ip)))'
                             <= MaxFailAttempts + Cardinality(Threads) - 1
                     ELSE (attempts[ip] <= FreshFailures(ip) + Cardinality(Compared(ip)))'
  BY DEF BoundInv
<1>1. Checked(ip)' = Checked(ip) /\ Compared(ip)' = Compared(ip)
  BY DEF Tick, reqVars, Checked, Compared
<1>2. /\ entries'[ip] = Shortened(entries[ip])
      /\ attempts'[ip] = IF entries[ip].lockLeft = 1 THEN 0 ELSE attempts[ip]
  BY DEF IInv, TypeOK, Tick, LockoutsTick
<1>3. /\ entries'[ip].failCount = entries[ip].failCount
      /\ entries'[ip].lockLeft = IF entries[ip].lockLeft > 0 THEN entries[ip].lockLeft - 1 ELSE 0
  BY <1>2, EntryFacts, ShortenedType DEF IInv
<1>4. FreshFailures(ip)' = FreshFailures(ip)
  BY <1>3 DEF FreshFailures
<1>5. CASE entries[ip].lockLeft = 0
  BY <1>1, <1>2, <1>3, <1>4, <1>5 DEF IInv, BoundInv, Locked
<1>6. CASE entries[ip].lockLeft = 1
  <2>1. ~Locked(ip)' /\ attempts'[ip] = 0
    BY <1>2, <1>3, <1>6 DEF Locked
  <2>. QED BY <1>1, <1>4, <1>6, <2>1, EntryFacts, CountTypes DEF IInv
<1>7. CASE entries[ip].lockLeft > 1
  <2>1. Locked(ip) /\ Locked(ip)' /\ attempts'[ip] = attempts[ip]
    BY <1>2, <1>3, <1>7, EntryFacts DEF Locked, IInv
  <2>. QED BY <1>1, <2>1 DEF IInv, BoundInv
<1>. QED BY <1>5, <1>6, <1>7, EntryFacts DEF IInv

-----------------------------------------------------------------------------
(* The other parts of the invariant.                                       *)

LEMMA RequestNext ==
    ASSUME IInv, [Next]_vars
    PROVE  RequestInv'
<1>. USE DEF IInv, TypeOK, RequestInv
<1>1. ASSUME NEW t \in Threads, LoginStep(t) PROVE RequestInv'
  BY <1>1, AuthAssumption
     DEF LoginStep, CheckLockout, MalformedLogin, ComparePassword, DenyLogin, ClearFailures,
         CreateSession, LoginGoes, Goes
<1>2. ASSUME NEW t \in Threads, TokenStep(t) PROVE RequestInv'
  BY <1>2, AuthAssumption
     DEF TokenStep, Authenticate, AuthenticateStream, RefuseExpired, RefuseLogout, Logout,
         LogoutEnds, Goes, reqVars
<1>3. CASE Tick
  BY <1>3 DEF Tick, reqVars
<1>4. CASE UNCHANGED vars
  BY <1>4 DEF vars, reqVars
<1>. QED BY <1>1, <1>2, <1>3, <1>4 DEF Next

LEMMA LockNext ==
    ASSUME IInv, [Next]_vars
    PROVE  LockInv'
<1>. SUFFICES ASSUME NEW ip \in Ips, Locked(ip)'
              PROVE  entries'[ip].failCount = MaxFailAttempts
  BY DEF LockInv
<1>0. Locked(ip) => entries[ip].failCount = MaxFailAttempts
  BY DEF IInv, LockInv
<1>1. ASSUME NEW t \in Threads, LoginStep(t)
      PROVE  entries'[ip] \in {entries[ip], NoEntry, CountedFailure(entries[ip])}
  BY <1>1 DEF IInv, TypeOK, LoginStep, CheckLockout, MalformedLogin, ComparePassword, DenyLogin,
              ClearFailures, CreateSession, RecordFailure, RecordSuccess
<1>2. CASE entries'[ip] = entries[ip]
  BY <1>0, <1>2 DEF Locked
<1>3. CASE entries'[ip] = NoEntry
  BY <1>3 DEF Locked, NoEntry
<1>4. CASE entries'[ip] = CountedFailure(entries[ip])
  BY <1>0, <1>4, EntryFacts, FailDelayAssumption DEF IInv, Locked, CountedFailure
<1>5. CASE Tick
  <2>1. entries'[ip] = Shortened(entries[ip])
    BY <1>5 DEF IInv, TypeOK, Tick, LockoutsTick
  <2>. QED
    BY <1>0, <2>1, EntryFacts, ShortenedType DEF IInv, Locked
<1>6. ASSUME NEW t \in Threads, TokenStep(t) PROVE entries' = entries
  BY <1>6, TokenStepFrame
<1>7. CASE UNCHANGED vars
  BY <1>7, <1>2 DEF vars
<1>. QED BY <1>1, <1>2, <1>3, <1>4, <1>5, <1>6, <1>7 DEF Next

\* Locked or not, the threads that are past the check of an address whose lockout
\* has run out make up for all its attempts.
LEMMA WithinThreads ==
    ASSUME IInv, NEW ip \in lapsed
    PROVE  /\ ip \in Ips
           /\ attempts[ip] + Cardinality(Checked(ip)) <= Cardinality(Threads)
<1>1. ip \in Ips
  BY DEF IInv, TypeOK
<1>2. CASE Locked(ip)
  BY <1>1, <1>2 DEF IInv, RelockInv
<1>3. CASE ~Locked(ip)
  <2>1. FreshFailures(ip) = 0
    BY FailDelayAssumption DEF IInv, RelockInv, FreshFailures
  <2>2. attempts[ip] <= Cardinality(Compared(ip))
    BY <1>1, <1>3, <2>1, CountTypes DEF IInv, BoundInv
  <2>. QED BY <1>1, <2>2, CountTypes, EntryFacts DEF IInv
<1>. QED BY <1>1, <1>2, <1>3

LEMMA RelockLogin ==
    ASSUME IInv, NEW t \in Threads, LoginStep(t)
    PROVE  RelockInv'
<1>. SUFFICES ASSUME NEW ip \in lapsed'
              PROVE  /\ entries'[ip].failCount = MaxFailAttempts
                     /\ Locked(ip)' => attempts'[ip] + Cardinality(Checked(ip)')
                                            <= Cardinality(Threads)
  BY DEF RelockInv
<1>0. lapsed' \subseteq lapsed
  BY DEF LoginStep, CheckLockout, MalformedLogin, ComparePassword, DenyLogin, ClearFailures,
         CreateSession
<1>1. /\ ip \in lapsed /\ ip \in Ips
      /\ attempts[ip] + Cardinality(Checked(ip)) <= Cardinality(Threads)
      /\ entries[ip].failCount = MaxFailAttempts
  BY <1>0, WithinThreads DEF IInv, RelockInv
<1>. USE DEF IInv
<1>2. ASSUME NEW i \in Ips, CheckLockout(t, i)
      PROVE  entries' = entries /\ (~Locked(ip)' \/ (attempts' = attempts /\ Checked(ip)' = Checked(ip)))
  <2>1. CASE ip = i
    BY <1>2, <2>1 DEF CheckLockout, Locked
  <2>2. CASE ip # i
    BY <1>2, <2>2 DEF TypeOK, CheckLockout, Goes, Checked
  <2>. QED BY <1>2, <2>1, <2>2 DEF CheckLockout
<1>3. CASE MalformedLogin(t)
  <2>1. Checked(ip)' = Checked(ip) \ {t} /\ entries' = entries /\ attempts' = attempts
    BY <1>3 DEF TypeOK, MalformedLogin, LoginGoes, Goes, Checked
  <2>2. Cardinality(Checked(ip)') \in Nat /\ Cardinality(Checked(ip)') <= Cardinality(Checked(ip))
    BY <2>1, CountTypes, OneMoreOrLess
  <2>. QED BY <1>1, <2>1, <2>2, CountTypes, EntryFacts
<1>4. CASE ComparePassword(t)
  <2>0. pc[t] = "checked" /\ entries' = entries
    BY <1>4 DEF ComparePassword, LoginGoes, Goes
  <2>1. CASE remoteIp[t] # ip
    <3>1. Checked(ip)' = Checked(ip) /\ attempts'[ip] = attempts[ip]
      BY <1>1, <1>4, <2>1 DEF TypeOK, ComparePassword, LoginGoes, Goes, Checked
    <3>. QED BY <1>1, <2>0, <3>1
  <2>2. CASE remoteIp[t] = ip
    <3>1. t \in Checked(ip) /\ Checked(ip)' = Checked(ip) \ {t} /\ attempts'[ip] = attempts[ip] + 1
      BY <1>1, <1>4, <2>2 DEF TypeOK, ComparePassword, LoginGoes, Goes, Checked
    <3>2. Cardinality(Checked(ip)') = Cardinality(Checked(ip)) - 1
      BY <3>1, CountTypes, OneMoreOrLess
    <3>. QED BY <1>1, <2>0, <3>1, <3>2, CountTypes, EntryFacts
  <2>. QED BY <2>1, <2>2
<1>5. CASE DenyLogin(t)
  <2>1. Checked(ip)' = Checked(ip) /\ attempts' = attempts
    BY <1>5 DEF TypeOK, DenyLogin, LoginGoes, Goes, Checked
  <2>2. entries'[ip] \in {entries[ip], CountedFailure(entries[ip])}
    BY <1>1, <1>5 DEF TypeOK, DenyLogin, RecordFailure
  <2>3. entries'[ip].failCount = MaxFailAttempts
    BY <1>1, <2>2, FailDelayAssumption DEF CountedFailure
  <2>. QED BY <1>1, <2>1, <2>3
<1>6. CASE ClearFailures(t)
  <2>1. remoteIp[t] # ip
    BY <1>6 DEF ClearFailures
  <2>2. entries'[ip] = entries[ip] /\ attempts'[ip] = attempts[ip] /\ Checked(ip)' = Checked(ip)
    BY <1>1, <1>6, <2>1 DEF TypeOK, ClearFailures, RecordSuccess, LoginGoes, Goes, Checked
  <2>. QED BY <1>1, <2>2
<1>7. ASSUME NEW tok \in Tokens, CreateSession(t, tok)
      PROVE  entries' = entries /\ attempts' = attempts /\ Checked(ip)' = Checked(ip)
  BY <1>7 DEF TypeOK, CreateSession, LoginGoes, Goes, Checked
<1>. QED
  BY <1>1, <1>2, <1>3, <1>4, <1>5, <1>6, <1>7 DEF LoginStep

LEMMA RelockTick ==
    ASSUME IInv, Tick
    PROVE  RelockInv'
<1>. SUFFICES ASSUME NEW ip \in lapsed'
              PROVE  /\ entries'[ip].failCount = MaxFailAttempts
                     /\ Locked(ip)' => attempts'[ip] + Cardinality(Checked(ip)')
                                            <= Cardinality(Threads)
  BY DEF RelockInv
<1>1. ip \in Ips /\ (ip \in lapsed \/ entries[ip].lockLeft = 1)
  BY DEF IInv, TypeOK, Tick
<1>2. /\ entries'[ip] = Shortened(entries[ip])
      /\ attempts'[ip] = IF entries[ip].lockLeft = 1 THEN 0 ELSE attempts[ip]
      /\ Checked(ip)' = Checked(ip)
  BY <1>1 DEF IInv, TypeOK, Tick, LockoutsTick, reqVars, Checked
<1>3. /\ entries'[ip].failCount = entries[ip].failCount
      /\ entries'[ip].lockLeft = IF entries[ip].lockLeft > 0 THEN entries[ip].lockLeft - 1 ELSE 0
  BY <1>1, <1>2, EntryFacts, ShortenedType DEF IInv
<1>4. CASE entries[ip].lockLeft = 1
  <2>1. ~Locked(ip)' /\ Locked(ip)
    BY <1>3, <1>4 DEF Locked
  <2>. QED BY <1>1, <1>3, <2>1 DEF IInv, LockInv
<1>5. CASE entries[ip].lockLeft # 1
  <2>1. entries[ip].failCount = MaxFailAttempts
        /\ attempts[ip] + Cardinality(Checked(ip)) <= Cardinality(Threads)
    BY <1>1, <1>5, WithinThreads DEF IInv, RelockInv
  <2>. QED BY <1>2, <1>3, <1>5, <2>1
<1>. QED BY <1>4, <1>5

LEMMA SessionNext ==
    ASSUME IInv, [Next]_vars
    PROVE  SessionInv'
<1>. USE DEF IInv, SessionInv
<1>1. ASSUME NEW tok \in Tokens, Slide(tok), unused' = [unused EXCEPT ![tok] = 0]
      PROVE  SessionInv'
  <2>1. issued' = issued
    BY <1>1 DEF Slide
  <2>. QED
    BY <1>1, <2>1, SlideType, SessionStoreAssumption DEF TypeOK
<1>2. ASSUME NEW tok, Erase(tok), unused' = unused PROVE SessionInv'
  <2>1. issued' = issued
    BY <1>2 DEF Erase
  <2>. QED
    BY <1>2, <2>1, EraseType
<1>3. CASE UNCHANGED <<storeVars, unused>>
  BY <1>3 DEF storeVars
<1>4. ASSUME NEW t \in Threads, LoginStep(t) PROVE SessionInv'
  <2>1. ASSUME NEW tok \in Tokens, CreateSession(t, tok) PROVE SessionInv'
    BY <2>1, SessionStoreAssumption DEF TypeOK, CreateSession, Create
  <2>2. CASE ~\E tok \in Tokens : CreateSession(t, tok)
    BY <1>3, <1>4, <2>2 DEF LoginStep, CheckLockout, MalformedLogin, ComparePassword,
                            DenyLogin, ClearFailures
  <2>. QED BY <2>1, <2>2
<1>5. ASSUME NEW t \in Threads, TokenStep(t) PROVE SessionInv'
  BY <1>1, <1>2, <1>3, <1>5
     DEF TokenStep, Authenticate, AuthenticateStream, RefuseExpired, EraseExpired, RefuseLogout,
         Logout, Revoke
<1>6. CASE Tick
  <2>1. issued' = issued /\ DOMAIN sessions' = Stored
    BY <1>6 DEF Tick, SessionsTick
  <2>2. ASSUME NEW tok \in Stored PROVE sessions'[tok] = SessionTtl - unused'[tok]
    BY <1>6, <2>2, SessionStoreAssumption DEF TypeOK, Tick, SessionsTick, Expired
  <2>. QED BY <2>1, <2>2
<1>. QED BY <1>3, <1>4, <1>5, <1>6 DEF Next, vars

-----------------------------------------------------------------------------
(* The invariant and what follows from it.                                 *)

LEMMA InvInit == Init => IInv
<1>. SUFFICES ASSUME Init PROVE IInv
  OBVIOUS
<1>1. TypeOK
  BY TypeInit
<1>2. RequestInv /\ LockInv /\ RelockInv /\ SessionInv
  BY AuthAssumption, FailDelayAssumption
     DEF Init, FailDelayInit, SessionStoreInit, NoEntry, RequestInv, LockInv, RelockInv, Locked,
         SessionInv
<1>3. BoundInv
  <2>. SUFFICES ASSUME NEW ip \in Ips
                PROVE  ~Locked(ip) /\ attempts[ip] <= FreshFailures(ip) + Cardinality(Compared(ip))
    BY DEF BoundInv
  <2>1. entries[ip] = NoEntry /\ attempts[ip] = 0
    BY DEF Init, FailDelayInit
  <2>2. Cardinality(Compared(ip)) \in Nat /\ FreshFailures(ip) \in Nat
    BY <1>1, CountTypes, EntryFacts
  <2>. QED BY <2>1, <2>2 DEF Locked, NoEntry
<1>. QED BY <1>1, <1>2, <1>3 DEF IInv

LEMMA InvNext == IInv /\ [Next]_vars => IInv'
<1>. SUFFICES ASSUME IInv, [Next]_vars PROVE IInv'
  OBVIOUS
<1>1. RequestInv' /\ LockInv' /\ SessionInv'
  BY RequestNext, LockNext, SessionNext
<1>2. ASSUME NEW t \in Threads, LoginStep(t) PROVE TypeOK' /\ BoundInv' /\ RelockInv'
  BY <1>2, TypeLogin, BoundLogin, RelockLogin DEF IInv
<1>3. ASSUME NEW t \in Threads, TokenStep(t) PROVE TypeOK' /\ BoundInv' /\ RelockInv'
  <2>1. \A ip : Checked(ip)' = Checked(ip)
    BY <1>3, TokenStepFrame DEF IInv, TypeOK, Checked
  <2>2. RelockInv'
    BY <1>3, <2>1, TokenStepFrame DEF IInv, RelockInv, Locked
  <2>. QED BY <1>3, <2>2, TypeToken, BoundToken DEF IInv
<1>4. CASE Tick
  BY <1>4, TypeTick, BoundTick, RelockTick, <1>1 DEF IInv
<1>5. CASE UNCHANGED vars
  <2>1. TypeOK'
    BY <1>5 DEF IInv, TypeOK, vars, reqVars, storeVars
  <2>2. \A ip : Checked(ip)' = Checked(ip) /\ Compared(ip)' = Compared(ip)
    BY <1>5 DEF vars, reqVars, Checked, Compared
  <2>3. BoundInv'
    BY <1>5, <2>2 DEF IInv, BoundInv, vars, Locked, FreshFailures
  <2>4. RelockInv'
    BY <1>5, <2>2 DEF IInv, RelockInv, vars, Locked
  <2>. QED BY <1>1, <2>1, <2>3, <2>4 DEF IInv
<1>. QED BY <1>1, <1>2, <1>3, <1>4, <1>5 DEF Next, IInv

LEMMA Invariance == Spec => []IInv
BY InvInit, InvNext, PTL DEF Spec

\* Every variable keeps its type: the entries of FailDelay, the stored sessions
\* and the requests in flight.
THEOREM AuthTypeCorrect == Spec => []TypeOK
BY Invariance, PTL DEF IInv

\* The limit of FailDelay holds up to one comparison per other io thread, for
\* every number of threads and every interleaving of check and recordFailure.
THEOREM AttemptsAreBounded == Spec => []AttemptsBounded
<1>1. IInv => AttemptsBounded
  <2>. SUFFICES ASSUME IInv, NEW ip \in Ips
                PROVE  attempts[ip] <= MaxFailAttempts + Cardinality(Threads) - 1
    BY DEF AttemptsBounded
  <2>1. attempts[ip] + Cardinality(Checked(ip)) <= MaxFailAttempts + Cardinality(Threads) - 1
    BY WithinBound DEF IInv
  <2>2. attempts[ip] \in Nat /\ Cardinality(Checked(ip)) \in Nat /\ Cardinality(Threads) \in Nat
    BY CountTypes, EntryFacts DEF IInv
  <2>. QED BY <2>1, <2>2, FailDelayAssumption
<1>. QED BY <1>1, Invariance, PTL

\* After a lockout has run out an address gets no more passwords compared than
\* there are io threads before it is locked again, whatever the limit is: every
\* failure locks at once, until a success erases the entry.
THEOREM LapsedAreRelocked == Spec => []RelocksAtOnce
<1>1. IInv => RelocksAtOnce
  <2>. SUFFICES ASSUME IInv, NEW ip \in lapsed
                PROVE  attempts[ip] <= Cardinality(Threads)
    BY DEF RelocksAtOnce
  <2>. QED BY WithinThreads, CountTypes, EntryFacts DEF IInv
<1>. QED BY <1>1, Invariance, PTL

\* A session that SessionStore dropped never comes back.
THEOREM EndedStayEnded == Spec => EndedSessionsStayEnded
<1>1. IInv /\ [Next]_vars => [\A tok \in issued : tok \notin Stored => tok \notin Stored']_vars
  <2>. SUFFICES ASSUME IInv, Next, NEW tok \in issued, tok \notin Stored
                PROVE  tok \notin Stored'
    OBVIOUS
  <2>1. ASSUME NEW k \in Tokens, Slide(k) PROVE tok \notin Stored'
    BY <2>1, SlideType DEF IInv
  <2>2. ASSUME NEW k, Erase(k) PROVE tok \notin Stored'
    BY <2>2, EraseType DEF IInv
  <2>3. ASSUME NEW k \in Tokens, Create(k) PROVE tok \notin Stored'
    BY <2>3 DEF Create
  <2>4. CASE UNCHANGED storeVars
    BY <2>4 DEF storeVars
  <2>5. ASSUME NEW t \in Threads, LoginStep(t) PROVE tok \notin Stored'
    BY <2>5, <2>3, <2>4
       DEF LoginStep, CheckLockout, MalformedLogin, ComparePassword, DenyLogin, ClearFailures,
           CreateSession
  <2>6. ASSUME NEW t \in Threads, TokenStep(t) PROVE tok \notin Stored'
    BY <2>6, <2>1, <2>2, <2>4
       DEF TokenStep, Authenticate, AuthenticateStream, RefuseExpired, EraseExpired,
           RefuseLogout, Logout, Revoke
  <2>7. CASE Tick
    BY <2>7 DEF Tick, SessionsTick
  <2>. QED BY <2>5, <2>6, <2>7 DEF Next
<1>. QED BY <1>1, Invariance, PTL DEF Spec, EndedSessionsStayEnded

\* A session that is used again and again within kSessionTtl lasts until a logout.
THEOREM UsedSessionsLast == Spec => SessionsLastWhileUsed
<1>1. IInv /\ [Next]_vars =>
        [\A tok \in Stored \ Stored' :
            \/ unused[tok] > SessionTtl
            \/ \E t \in Threads : session[t] = tok /\ session'[t] = None]_vars
  <2>. SUFFICES ASSUME IInv, Next, NEW tok \in Stored \ Stored'
                PROVE  \/ unused[tok] > SessionTtl
                       \/ \E t \in Threads : session[t] = tok /\ session'[t] = None
    OBVIOUS
  <2>1. ASSUME NEW k \in Tokens, Slide(k) PROVE FALSE
    BY <2>1, SlideType DEF IInv
  <2>2. ASSUME NEW k \in Tokens, EraseExpired(k) PROVE unused[tok] > SessionTtl
    <3>1. tok = k
      BY <2>2, EraseType DEF IInv, EraseExpired
    <3>2. sessions[tok] = SessionTtl - unused[tok] /\ sessions[tok] < 0
      BY <2>2, <3>1 DEF IInv, SessionInv, EraseExpired, Expired
    <3>. QED
      BY <3>2, SessionStoreAssumption DEF IInv, TypeOK
  <2>3. ASSUME UNCHANGED storeVars PROVE FALSE
    BY <2>3 DEF storeVars
  <2>4. ASSUME NEW t \in Threads, LoginStep(t) PROVE FALSE
    BY <2>3, <2>4
       DEF LoginStep, CheckLockout, MalformedLogin, ComparePassword, DenyLogin, ClearFailures,
           CreateSession, Create
  <2>5. ASSUME NEW t \in Threads, Logout(t) PROVE session[t] = tok /\ session'[t] = None
    <3>1. session[t] = tok
      BY <2>5, EraseType DEF IInv, Logout, Revoke
    <3>. QED
      BY <2>5, <3>1 DEF IInv, TypeOK, Logout, LogoutEnds
  <2>6. ASSUME NEW t \in Threads, TokenStep(t)
        PROVE  \/ unused[tok] > SessionTtl
               \/ \E u \in Threads : session[u] = tok /\ session'[u] = None
    BY <2>6, <2>1, <2>2, <2>3, <2>5
       DEF TokenStep, Authenticate, AuthenticateStream, RefuseExpired, RefuseLogout
  <2>7. CASE Tick
    BY <2>7 DEF Tick, SessionsTick
  <2>. QED BY <2>4, <2>6, <2>7 DEF Next
<1>. QED BY <1>1, Invariance, PTL DEF Spec, SessionsLastWhileUsed

-----------------------------------------------------------------------------
(* Why a lockout may end early, and the one comparison too many: only because *)
(* two logins of one address were past FailDelay::check at the same time.     *)

PastTheCheck == {t \in Threads : pc[t] \in {"checked", "denied", "accepted"}}

LoginsApart ==
    \A t, u \in PastTheCheck : remoteIp[t] = remoteIp[u] => t = u

CourseInv == \A t \in PastTheCheck : ~Locked(remoteIp[t])

LockedWithinLimit ==
    \A ip \in Ips : Locked(ip) => attempts[ip] <= MaxFailAttempts

\* A step of a login whose address is not locked leaves the other addresses
\* alone, and thread u keeps its own.
LEMMA CourseLogin ==
    ASSUME IInv, CourseInv, LoginsApart, NEW t \in Threads, LoginStep(t)
    PROVE  CourseInv'
<1>. USE DEF IInv, TypeOK, CourseInv, PastTheCheck
<1>. SUFFICES ASSUME NEW u \in Threads, pc'[u] \in {"checked", "denied", "accepted"}
              PROVE  ~Locked(remoteIp[u])'
  OBVIOUS
<1>1. ASSUME NEW ip \in Ips, CheckLockout(t, ip) PROVE ~Locked(remoteIp[u])'
  BY <1>1 DEF CheckLockout, Goes, Locked
<1>2. CASE MalformedLogin(t) \/ ComparePassword(t)
  BY <1>2 DEF MalformedLogin, ComparePassword, LoginGoes, Goes, Locked
<1>3. CASE DenyLogin(t)
  <2>1. /\ pc[t] = "denied" /\ pc'[t] = "idle"
        /\ u # t /\ pc[u] = pc'[u] /\ remoteIp'[u] = remoteIp[u]
    BY <1>3 DEF DenyLogin, LoginGoes, Goes
  <2>2. remoteIp[u] # remoteIp[t] /\ ~Locked(remoteIp[u])
    BY <2>1 DEF LoginsApart
  <2>3. remoteIp[u] \in Ips
    BY <2>1 DEF RequestInv
  <2>4. entries'[remoteIp[u]] = entries[remoteIp[u]]
    BY <1>3, <2>2, <2>3 DEF DenyLogin, RecordFailure
  <2>. QED BY <2>1, <2>2, <2>4 DEF Locked
<1>4. CASE ClearFailures(t)
  <2>1. /\ u # t /\ pc[u] = pc'[u] /\ remoteIp'[u] = remoteIp[u]
    BY <1>4 DEF ClearFailures, LoginGoes, Goes
  <2>2. remoteIp[u] \in Ips /\ ~Locked(remoteIp[u])
    BY <2>1 DEF RequestInv
  <2>3. entries'[remoteIp[u]] \in {entries[remoteIp[u]], NoEntry}
    BY <1>4, <2>2 DEF ClearFailures, RecordSuccess
  <2>. QED BY <2>1, <2>2, <2>3 DEF Locked, NoEntry
<1>5. ASSUME NEW tok \in Tokens, CreateSession(t, tok) PROVE ~Locked(remoteIp[u])'
  BY <1>5 DEF CreateSession, LoginGoes, Goes, Locked
<1>. QED BY <1>1, <1>2, <1>3, <1>4, <1>5 DEF LoginStep

\* No lockout begins or grows as time passes.
LEMMA LockoutShortens ==
    ASSUME TypeOK, Tick, NEW ip \in Ips
    PROVE  /\ entries'[ip].lockLeft \in Nat
           /\ entries'[ip].lockLeft >= entries[ip].lockLeft - 1
           /\ Locked(ip)' => Locked(ip) /\ attempts'[ip] = attempts[ip]
<1>1. /\ entries'[ip] = Shortened(entries[ip])
      /\ attempts'[ip] = IF entries[ip].lockLeft = 1 THEN 0 ELSE attempts[ip]
  BY DEF TypeOK, Tick, LockoutsTick
<1>2. entries'[ip].lockLeft = IF entries[ip].lockLeft > 0 THEN entries[ip].lockLeft - 1 ELSE 0
  BY <1>1, EntryFacts, ShortenedType
<1>. QED BY <1>1, <1>2, EntryFacts DEF Locked

LEMMA CourseNext ==
    ASSUME IInv, CourseInv, LoginsApart, [Next]_vars
    PROVE  CourseInv'
<1>1. ASSUME NEW t \in Threads, LoginStep(t) PROVE CourseInv'
  BY <1>1, CourseLogin
<1>2. ASSUME NEW t \in Threads, TokenStep(t) PROVE CourseInv'
  BY <1>2, TokenStepFrame DEF IInv, TypeOK, CourseInv, PastTheCheck, Locked
<1>3. CASE Tick
  <2>. SUFFICES ASSUME NEW t \in PastTheCheck PROVE ~Locked(remoteIp[t])'
    BY <1>3 DEF CourseInv, PastTheCheck, Tick, reqVars, Locked
  <2>1. remoteIp[t] \in Ips /\ ~Locked(remoteIp[t]) /\ remoteIp' = remoteIp
    BY <1>3 DEF IInv, RequestInv, CourseInv, PastTheCheck, Tick, reqVars
  <2>. QED BY <1>3, <2>1, LockoutShortens DEF IInv, Locked
<1>4. CASE UNCHANGED vars
  BY <1>4 DEF vars, reqVars, CourseInv, PastTheCheck, Locked
<1>. QED BY <1>1, <1>2, <1>3, <1>4 DEF Next

\* With the logins apart, a password is compared only while its address is not
\* locked, by the one thread that is past the check.
LEMMA OneCompared ==
    ASSUME IInv, LoginsApart, NEW ip \in Ips, ~Locked(ip)
    PROVE  attempts[ip] <= MaxFailAttempts
<1>1. Cardinality(Compared(ip)) <= 1
  <2>1. CASE Compared(ip) = {}
    BY <2>1, FS_EmptySet
  <2>2. ASSUME NEW t \in Compared(ip) PROVE Cardinality(Compared(ip)) <= 1
    <3>1. Compared(ip) = {t}
      BY <2>2 DEF Compared, LoginsApart, PastTheCheck
    <3>2. Cardinality({t}) = 1
      BY FS_Singleton, Zenon
    <3>. QED BY <3>1, <3>2
  <2>. QED BY <2>1, <2>2
<1>2. attempts[ip] <= FreshFailures(ip) + Cardinality(Compared(ip))
  BY DEF IInv, BoundInv
<1>. QED BY <1>1, <1>2, CountTypes, EntryFacts, FailDelayAssumption DEF IInv

LEMMA LimitNext ==
    ASSUME IInv, CourseInv, LoginsApart, LockedWithinLimit, [Next]_vars
    PROVE  LockedWithinLimit'
<1>. SUFFICES ASSUME NEW ip \in Ips, Locked(ip)' PROVE attempts'[ip] <= MaxFailAttempts
  BY DEF LockedWithinLimit
<1>0. attempts[ip] <= MaxFailAttempts
  BY OneCompared DEF LockedWithinLimit
<1>1. ASSUME NEW t \in Threads, LoginStep(t) PROVE attempts'[ip] <= MaxFailAttempts
  <2>1. CASE ComparePassword(t)
    <3>1. entries' = entries /\ pc[t] = "checked" /\ attempts' = [attempts EXCEPT ![remoteIp[t]] = @ + 1]
      BY <2>1 DEF ComparePassword, LoginGoes, Goes
    <3>2. Locked(ip) /\ remoteIp[t] # ip
      BY <3>1 DEF CourseInv, PastTheCheck, Locked
    <3>3. attempts'[ip] = attempts[ip]
      BY <3>1, <3>2 DEF IInv, TypeOK
    <3>. QED BY <1>0, <3>3
  <2>2. CASE ClearFailures(t)
    BY <1>0, <2>2, FailDelayAssumption DEF IInv, TypeOK, ClearFailures
  <2>3. CASE ~ComparePassword(t) /\ ~ClearFailures(t)
    BY <1>0, <1>1, <2>3
       DEF LoginStep, CheckLockout, MalformedLogin, DenyLogin, CreateSession
  <2>. QED BY <2>1, <2>2, <2>3
<1>2. ASSUME NEW t \in Threads, TokenStep(t) PROVE attempts'[ip] <= MaxFailAttempts
  BY <1>0, <1>2, TokenStepFrame
<1>3. CASE Tick
  BY <1>0, <1>3, LockoutShortens DEF IInv
<1>4. CASE UNCHANGED vars
  BY <1>0, <1>4 DEF vars
<1>. QED BY <1>1, <1>2, <1>3, <1>4 DEF Next

LEMMA CourseInvariance ==
    Spec /\ []LoginsApart => [](IInv /\ CourseInv /\ LockedWithinLimit)
<1>1. Init => CourseInv /\ LockedWithinLimit
  BY FailDelayAssumption
     DEF Init, FailDelayInit, NoEntry, CourseInv, PastTheCheck, LockedWithinLimit, Locked
<1>2. /\ IInv /\ CourseInv /\ LockedWithinLimit
      /\ LoginsApart /\ [Next]_vars
      => (CourseInv /\ LockedWithinLimit)'
  BY CourseNext, LimitNext
<1>. QED BY <1>1, <1>2, Invariance, PTL DEF Spec

\* A lockout runs its course, as test_bruteforce.py expects, unless two logins of
\* one address were past FailDelay::check at the same time: in every behaviour
\* in which that never happens, no RecordSuccess and no RecordFailure touches the
\* entry of a locked address.
THEOREM LockoutUnlessLoginsOverlap == Spec /\ []LoginsApart => LockoutRunsItsCourse
<1>1. IInv /\ CourseInv /\ [Next]_vars =>
        [\A ip \in Ips : Locked(ip) =>
            entries'[ip].lockLeft >= entries[ip].lockLeft - 1]_vars
  <2>. SUFFICES ASSUME IInv, CourseInv, Next, NEW ip \in Ips, Locked(ip)
                PROVE  entries'[ip].lockLeft >= entries[ip].lockLeft - 1
    OBVIOUS
  <2>1. ASSUME NEW t \in Threads, DenyLogin(t) \/ ClearFailures(t) PROVE entries'[ip] = entries[ip]
    <3>1. remoteIp[t] # ip
      BY <2>1 DEF DenyLogin, ClearFailures, LoginGoes, Goes, CourseInv, PastTheCheck
    <3>. QED
      BY <2>1, <3>1 DEF IInv, TypeOK, DenyLogin, ClearFailures, RecordFailure, RecordSuccess
  <2>2. ASSUME NEW t \in Threads, LoginStep(t) PROVE entries'[ip] = entries[ip]
    BY <2>1, <2>2
       DEF LoginStep, CheckLockout, MalformedLogin, ComparePassword, CreateSession
  <2>3. ASSUME NEW t \in Threads, TokenStep(t) PROVE entries'[ip] = entries[ip]
    BY <2>3, TokenStepFrame
  <2>4. CASE Tick
    BY <2>4, LockoutShortens DEF IInv
  <2>5. entries[ip].lockLeft >= entries[ip].lockLeft - 1
    BY EntryFacts DEF IInv
  <2>. QED BY <2>2, <2>3, <2>4, <2>5 DEF Next
<1>. QED BY <1>1, CourseInvariance, PTL DEF Spec, LockoutRunsItsCourse

\* The limit of FailDelay is exact, whatever the number of io threads, as long
\* as no two logins of one address are past the check at the same time.
THEOREM ExactLimitUnlessLoginsOverlap ==
    Spec /\ []LoginsApart => [](\A ip \in Ips : attempts[ip] <= MaxFailAttempts)
<1>1. IInv /\ LockedWithinLimit /\ LoginsApart => \A ip \in Ips : attempts[ip] <= MaxFailAttempts
  BY OneCompared DEF LockedWithinLimit
<1>. QED BY <1>1, CourseInvariance, PTL
==============================================================================
