---------------------------- MODULE SessionStore ----------------------------
(***************************************************************************)
(* session::SessionStore: the map from token to session, with an expiry    *)
(* that every successful validate pushes back.  Every method is one        *)
(* critical section on mutex_.                                             *)
(*                                                                         *)
(* A session is reduced to the time left before expiresAt, -1 once the     *)
(* clock has passed it: what else it holds never changes.  A new token is  *)
(* 256 bits from the system's generator and is taken to be new: issued     *)
(* remembers those that are not.  revokeUser and both purgeExpired have no *)
(* caller.                                                                 *)
(***************************************************************************)
EXTENDS Integers, Functions

CONSTANTS
    Tokens,      \* the tokens there are (the bound on successful logins)
    SessionTtl   \* kSessionTtl, in ticks

ASSUME SessionStoreAssumption == SessionTtl \in Nat \ {0}

VARIABLES
    sessions,   \* sessions_: the stored tokens and the time each has left
    issued      \* the tokens generated so far

SessionStoreInit == sessions = << >> /\ issued = {}

Stored == DOMAIN sessions

Expired(tok) == sessions[tok] < 0

Valid(tok) == tok \in Stored /\ ~Expired(tok)

\* Mutant: a generator that may repeat itself.
Create_Repeats(tok) ==
    /\ tok \notin Stored
    /\ issued' = issued \cup {tok}
    /\ sessions' = [k \in Stored \cup {tok} |->
                        IF k = tok THEN SessionTtl ELSE sessions[k]]

Create(tok) ==
    /\ tok \notin issued
    /\ issued' = issued \cup {tok}
    /\ sessions' = [k \in Stored \cup {tok} |->
                        IF k = tok THEN SessionTtl ELSE sessions[k]]

\* Mutant: validate() does not push the expiry back.
Slide_Fixed(tok) == Valid(tok) /\ UNCHANGED <<sessions, issued>>

\* validate() on a live session
Slide(tok) ==
    /\ Valid(tok)
    /\ sessions' = [sessions EXCEPT ![tok] = SessionTtl]
    /\ UNCHANGED issued

Erase(tok) ==
    /\ sessions' = Restrict(sessions, Stored \ {tok})
    /\ UNCHANGED issued

\* validate() on an expired one
EraseExpired(tok) == tok \in Stored /\ Expired(tok) /\ Erase(tok)

Revoke(tok) == Erase(tok)

SessionsTick ==
    /\ sessions' = [tok \in Stored |->
                        IF Expired(tok) THEN -1 ELSE sessions[tok] - 1]
    /\ UNCHANGED issued
==============================================================================
