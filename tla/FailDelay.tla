------------------------------ MODULE FailDelay ------------------------------
(***************************************************************************)
(* auth::FailDelay: failed logins counted per address, and the lockout     *)
(* they lead to.  Every method is one critical section on mutex_, so every *)
(* method is one operator here.                                            *)
(*                                                                         *)
(* The code stores the moment a lockout ends and compares it with the      *)
(* clock; only the distance matters, so an entry holds the time left.  The *)
(* default time_point lies in the past, hence an address with no entry     *)
(* behaves like one with NoEntry, and erasing one stores NoEntry.  The     *)
(* code only compares failCount with its limit: the count stops there.     *)
(***************************************************************************)
EXTENDS Naturals

CONSTANTS
    Ips,              \* the remote addresses requests come from
    MaxFailAttempts,  \* kMaxFailAttempts
    LockoutDuration   \* kLockoutDuration, in ticks

ASSUME FailDelayAssumption ==
    /\ MaxFailAttempts \in Nat \ {0}
    /\ LockoutDuration \in Nat \ {0}

VARIABLE entries

Entry == [failCount : 0 .. MaxFailAttempts, lockLeft : 0 .. LockoutDuration]

NoEntry == [failCount |-> 0, lockLeft |-> 0]

FailDelayInit == entries = [ip \in Ips |-> NoEntry]

\* check() answers kTooManyRequests
Locked(ip) == entries[ip].lockLeft > 0

\* Mutant: the limit is compared with > instead of >=.
CountedFailure_OneMore(e) ==
    IF e.failCount >= MaxFailAttempts
    THEN [failCount |-> MaxFailAttempts, lockLeft |-> LockoutDuration]
    ELSE [e EXCEPT !.failCount = @ + 1]

\* Mutant: every failure past the limit lengthens the lockout.
CountedFailure_Stacks(e) ==
    IF e.failCount + 1 >= MaxFailAttempts
    THEN [failCount |-> MaxFailAttempts, lockLeft |-> e.lockLeft + LockoutDuration]
    ELSE [e EXCEPT !.failCount = @ + 1]

\* Mutant: the count starts over with every lockout.
CountedFailure_StartsOver(e) ==
    IF e.failCount + 1 >= MaxFailAttempts
    THEN [failCount |-> 0, lockLeft |-> LockoutDuration]
    ELSE [e EXCEPT !.failCount = @ + 1]

CountedFailure(e) ==
    IF e.failCount + 1 >= MaxFailAttempts
    THEN [failCount |-> MaxFailAttempts, lockLeft |-> LockoutDuration]
    ELSE [e EXCEPT !.failCount = @ + 1]

RecordFailure(ip) == entries' = [entries EXCEPT ![ip] = CountedFailure(@)]

RecordSuccess(ip) == entries' = [entries EXCEPT ![ip] = NoEntry]

Shortened(e) == [e EXCEPT !.lockLeft = IF @ > 0 THEN @ - 1 ELSE 0]

LockoutsTick == entries' = [ip \in Ips |-> Shortened(entries[ip])]
==============================================================================
