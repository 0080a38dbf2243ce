-------------------------------- MODULE Auth --------------------------------
(***************************************************************************)
(* Who gets in: the login and logout handlers and the session check, run   *)
(* by concurrent io threads against one FailDelay and one SessionStore.    *)
(*                                                                         *)
(* A request occupies its thread from the first step of its handler to the *)
(* last.  A login is four critical sections with nothing held in between:  *)
(* check, the password comparison (slow, and outside any lock), then       *)
(* recordFailure, or recordSuccess and create.  A logout is two: validate  *)
(* in AuthMiddleware and revoke in the handler.  Requests that change      *)
(* nothing (a blocked login, an unknown token) are stuttering steps.       *)
(***************************************************************************)
EXTENDS FailDelay, SessionStore, FiniteSets

CONSTANTS
    Threads,   \* the threads that run the io_context
    None

ASSUME AuthAssumption ==
    /\ IsFiniteSet(Threads)
    /\ Threads # {}
    /\ None \notin Ips /\ None \notin Tokens

VARIABLES
    pc,         \* what each thread is doing
    remoteIp,   \* HttpRequest::remoteIp of the login it handles
    session,    \* the token of HttpRequest::session of the logout it handles
    attempts,   \* history: passwords compared per address since its entry was
                \*   last erased or its lockout last ran out
    lapsed,     \* history: addresses whose lockout ran out, and whose entry was
                \*   not erased since
    unused      \* history: ticks since a token was created or last validated

reqVars  == <<pc, remoteIp, session>>
storeVars == <<sessions, issued>>
vars     == <<entries, storeVars, reqVars, attempts, lapsed, unused>>

PCs == {"idle", "checked", "denied", "accepted", "cleared", "authed"}

TypeOK ==
    /\ entries \in [Ips -> Entry]
    /\ Stored \subseteq Tokens
    /\ sessions \in [Stored -> -1 .. SessionTtl]
    /\ issued \subseteq Tokens
    /\ pc \in [Threads -> PCs]
    /\ remoteIp \in [Threads -> Ips \cup {None}]
    /\ session \in [Threads -> Tokens \cup {None}]
    /\ attempts \in [Ips -> Nat]
    /\ lapsed \subseteq Ips
    /\ unused \in [Tokens -> 0 .. SessionTtl + 1]

Init ==
    /\ FailDelayInit
    /\ SessionStoreInit
    /\ pc = [t \in Threads |-> "idle"]
    /\ remoteIp = [t \in Threads |-> None]
    /\ session = [t \in Threads |-> None]
    /\ attempts = [ip \in Ips |-> 0]
    /\ lapsed = {}
    /\ unused = [tok \in Tokens |-> 0]

-----------------------------------------------------------------------------
(* The steps of a request.                                                 *)

Goes(t, from, to) ==
    /\ pc[t] = from
    /\ pc' = [pc EXCEPT ![t] = to]

\* A login moves on: the address stays known until its last step.
LoginGoes(t, from, to) ==
    /\ Goes(t, from, to)
    /\ remoteIp' = [remoteIp EXCEPT ![t] = IF to = "idle" THEN None ELSE @]
    /\ UNCHANGED session

LogoutEnds(t) ==
    /\ Goes(t, "authed", "idle")
    /\ session' = [session EXCEPT ![t] = None]
    /\ UNCHANGED remoteIp

-----------------------------------------------------------------------------
(* POST /api/v1/login                                                      *)

\* Mutant: the lockout is not looked at.
CheckLockout_Skipped(t, ip) ==
    /\ Goes(t, "idle", "checked")
    /\ remoteIp' = [remoteIp EXCEPT ![t] = ip]
    /\ UNCHANGED <<session, entries, storeVars, attempts, lapsed, unused>>

CheckLockout(t, ip) ==
    /\ ~Locked(ip)
    /\ Goes(t, "idle", "checked")
    /\ remoteIp' = [remoteIp EXCEPT ![t] = ip]
    /\ UNCHANGED <<session, entries, storeVars, attempts, lapsed, unused>>

\* The body is no JSON, lacks a field, or a field has a bad length.
MalformedLogin(t) ==
    /\ LoginGoes(t, "checked", "idle")
    /\ UNCHANGED <<entries, storeVars, attempts, lapsed, unused>>

\* findUser and verify; a database error counts as an unknown user.
ComparePassword(t) ==
    /\ \E result \in {"accepted", "denied"} : LoginGoes(t, "checked", result)
    /\ attempts' = [attempts EXCEPT ![remoteIp[t]] = @ + 1]
    /\ UNCHANGED <<entries, storeVars, lapsed, unused>>

DenyLogin(t) ==
    /\ LoginGoes(t, "denied", "idle")
    /\ RecordFailure(remoteIp[t])
    /\ UNCHANGED <<storeVars, attempts, lapsed, unused>>

ClearFailures(t) ==
    /\ LoginGoes(t, "accepted", "cleared")
    /\ RecordSuccess(remoteIp[t])
    /\ attempts' = [attempts EXCEPT ![remoteIp[t]] = 0]
    /\ lapsed' = lapsed \ {remoteIp[t]}
    /\ UNCHANGED <<storeVars, unused>>

CreateSession(t, tok) ==
    /\ LoginGoes(t, "cleared", "idle")
    /\ Create(tok)
    /\ unused' = [unused EXCEPT ![tok] = 0]
    /\ UNCHANGED <<entries, attempts, lapsed>>

-----------------------------------------------------------------------------
(* Requests with a token.                                                  *)

\* AuthMiddleware finds the session of a logout.
Authenticate(t, tok) ==
    /\ Goes(t, "idle", "authed")
    /\ Slide(tok)
    /\ session' = [session EXCEPT ![t] = tok]
    /\ unused' = [unused EXCEPT ![tok] = 0]
    /\ UNCHANGED <<remoteIp, entries, attempts, lapsed>>

\* WebSocketHandler::validateUpgrade finds the session of a stream.
AuthenticateStream(t, tok) ==
    /\ pc[t] = "idle"
    /\ Slide(tok)
    /\ unused' = [unused EXCEPT ![tok] = 0]
    /\ UNCHANGED <<reqVars, entries, attempts, lapsed>>

\* Either of them finds an expired session and erases it.
RefuseExpired(t, tok) ==
    /\ pc[t] = "idle"
    /\ EraseExpired(tok)
    /\ UNCHANGED <<reqVars, entries, attempts, lapsed, unused>>

\* The CSRF check or the rate limit ends the request before its handler.
RefuseLogout(t) ==
    /\ LogoutEnds(t)
    /\ UNCHANGED <<entries, storeVars, attempts, lapsed, unused>>

Logout(t) ==
    /\ LogoutEnds(t)
    /\ Revoke(session[t])
    /\ UNCHANGED <<entries, attempts, lapsed, unused>>

-----------------------------------------------------------------------------
(* Time, and the specification.                                            *)

Tick ==
    /\ LockoutsTick
    /\ SessionsTick
    /\ attempts' = [ip \in Ips |->
                        IF entries[ip].lockLeft = 1 THEN 0 ELSE attempts[ip]]
    /\ lapsed' = lapsed \cup {ip \in Ips : entries[ip].lockLeft = 1}
    /\ unused' = [tok \in Tokens |->
                        IF unused[tok] > SessionTtl \/ tok \notin issued
                        THEN unused[tok] ELSE unused[tok] + 1]
    /\ UNCHANGED reqVars

LoginStep(t) ==
    \/ \E ip \in Ips : CheckLockout(t, ip)
    \/ MalformedLogin(t)
    \/ ComparePassword(t)
    \/ DenyLogin(t)
    \/ ClearFailures(t)
    \/ \E tok \in Tokens : CreateSession(t, tok)

TokenStep(t) ==
    \/ \E tok \in Tokens : \/ Authenticate(t, tok)
                           \/ AuthenticateStream(t, tok)
                           \/ RefuseExpired(t, tok)
    \/ RefuseLogout(t)
    \/ Logout(t)

Next == Tick \/ \E t \in Threads : LoginStep(t) \/ TokenStep(t)

Spec == Init /\ [][Next]_vars

-----------------------------------------------------------------------------
(* Properties                                                              *)

\* An address gets a bounded number of passwords compared before it is locked
\* out: the limit of fail_delay.hpp, plus one for every other io thread that was
\* past FailDelay::check when the last failure was recorded.
AttemptsBounded ==
    \A ip \in Ips : attempts[ip] <= MaxFailAttempts + Cardinality(Threads) - 1

\* An address that has been locked out once gets no second round: when its
\* lockout has run out every failure locks it again, because recordFailure
\* leaves failCount at the limit, so it gets one password compared for each io
\* thread that was past the check.  Only a success gives it the full limit back.
RelocksAtOnce ==
    \A ip \in lapsed : attempts[ip] <= Cardinality(Threads)

\* A token that a logout revoked, or that validate found expired, is never a
\* session again, whatever requests had validated it and were still running.
EndedSessionsStayEnded ==
    [][\A tok \in issued : tok \notin Stored => tok \notin Stored']_vars

\* SessionStore erases a session only at the logout of a request that presented
\* its token, or when it has not been used for longer than kSessionTtl.
SessionsLastWhileUsed ==
    [][\A tok \in Stored \ Stored' :
            \/ unused[tok] > SessionTtl
            \/ \E t \in Threads : session[t] = tok /\ session'[t] = None]_vars

\* A lockout, once begun, lasts its time: what test_bruteforce.py says of the
\* right password ("blocked while lockout is active").  It does not hold: a
\* login that was past the check erases the entry.
LockoutRunsItsCourse ==
    [][\A ip \in Ips : Locked(ip) =>
            entries'[ip].lockLeft >= entries[ip].lockLeft - 1]_vars
==============================================================================
