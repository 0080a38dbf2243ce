------------------------------ MODULE UserStore ------------------------------
(***************************************************************************)
(* The user database as the processes that open it see it: one SQLite file *)
(* that survives them, and the constructor of UserStore in each of them,   *)
(* which opens the file, creates the table, counts its rows and, if there  *)
(* are none, inserts the default administrator.                            *)
(*                                                                         *)
(* Each statement is a transaction of its own: a process may die between   *)
(* any two of them, and another process, or a person with a database tool, *)
(* may come in between.                                                    *)
(***************************************************************************)
EXTENDS Naturals, FiniteSets

CONSTANTS
    Procs,      \* processes that may run on this file
    Users,      \* user names
    Admin,      \* "admin"
    NoRow       \* there is no such row

ASSUME UserStoreAssumption ==
    Admin \in Users /\ NoRow \notin {"default", "chosen"}

VARIABLES
    table,      \* whether the file has the table `users`
    rows,       \* the password each user's row holds, or NoRow
    store       \* how far each process's constructor has come

storeVars == <<table, rows, store>>

\* What a row's hash was made of: "admin", by seedDefaultAdmin, or a password
\* somebody chose.
Passwords == {"default", "chosen"}

\* "closed"   no connection
\* "open"     open() has returned
\* "migrated" migrate() has returned
\* "seeding"  isEmpty() returned true
\* "ready"    constructed
Positions == {"closed", "open", "migrated", "seeding", "ready"}

Accounts == {u \in Users : rows[u] \in Passwords}

UserStoreTypeOK ==
    /\ table \in BOOLEAN
    /\ rows \in [Users -> Passwords \cup {NoRow}]
    /\ store \in [Procs -> Positions]

UserStoreInit ==
    /\ table = FALSE
    /\ rows = [u \in Users |-> NoRow]
    /\ store = [p \in Procs |-> "closed"]

Reaches(p, from, to) ==
    /\ store[p] = from
    /\ store' = [store EXCEPT ![p] = to]

-----------------------------------------------------------------------------
(* The constructor, one statement at a time.                               *)

Opens(p) ==
    /\ Reaches(p, "closed", "open")
    /\ UNCHANGED <<table, rows>>

\* Mutant: without IF NOT EXISTS, a table that is there is an error.
Migrates_Always(p) ==
    /\ Reaches(p, "open", IF table THEN "closed" ELSE "migrated")
    /\ table' = TRUE
    /\ UNCHANGED rows

Migrates(p) ==
    /\ Reaches(p, "open", "migrated")
    /\ table' = TRUE
    /\ UNCHANGED rows

CountsRows(p) ==
    /\ Reaches(p, "migrated", IF Accounts = {} THEN "seeding" ELSE "ready")
    /\ UNCHANGED <<table, rows>>

\* Mutant: a count that fails is taken for a table with rows.
CountFails_NotEmpty(p) ==
    /\ Reaches(p, "migrated", "ready")
    /\ UNCHANGED <<table, rows>>

\* isEmpty() does not tell a statement that fails from a count of zero.
CountFails(p) ==
    /\ Reaches(p, "migrated", "seeding")
    /\ UNCHANGED <<table, rows>>

\* Mutant: the row is replaced if there is one.
Seeds_OrReplace(p) ==
    /\ Reaches(p, "seeding", "ready")
    /\ rows' = [rows EXCEPT ![Admin] = "default"]
    /\ UNCHANGED table

\* seedDefaultAdmin and createUser.
Seeds(p) ==
    /\ rows[Admin] = NoRow
    /\ Reaches(p, "seeding", "ready")
    /\ rows' = [rows EXCEPT ![Admin] = "default"]
    /\ UNCHANGED table

\* The primary key is taken: kUserAlreadyExists, and the constructor throws.
SeedRefused(p) ==
    /\ rows[Admin] # NoRow
    /\ Reaches(p, "seeding", "closed")
    /\ UNCHANGED <<table, rows>>

\* Opening, creating the table or inserting fails: the file is busy with
\* another process, for which no timeout is set, or cannot be read or written.
StatementFails(p) ==
    /\ store[p] \in {"closed", "open", "seeding"}
    /\ store' = [store EXCEPT ![p] = "closed"]
    /\ UNCHANGED <<table, rows>>

\* The process ends, and with it its connection.
Closes(p) ==
    /\ store' = [store EXCEPT ![p] = "closed"]
    /\ UNCHANGED <<table, rows>>

-----------------------------------------------------------------------------
(* The program adds no account but the first and removes none, so others    *)
(* are made and changed by a person with a database tool, who keeps one.    *)

ToolInserts(u) ==
    /\ table /\ rows[u] = NoRow
    /\ rows' = [rows EXCEPT ![u] = "chosen"]

ToolChanges(u) ==
    /\ rows[u] = "default"
    /\ rows' = [rows EXCEPT ![u] = "chosen"]

ToolDeletes(u) ==
    /\ rows[u] \in Passwords
    /\ Accounts # {u}
    /\ rows' = [rows EXCEPT ![u] = NoRow]

ToolStep ==
    /\ \E u \in Users : ToolInserts(u) \/ ToolChanges(u) \/ ToolDeletes(u)
    /\ UNCHANGED <<table, store>>

-----------------------------------------------------------------------------
(* Properties.                                                             *)

\* Whoever has come past the constructor has an account to log in with, however
\* many processes died or failed on the way and whoever seeded the table.
ReadyMeansAccounts == (\E p \in Procs : store[p] = "ready") => Accounts # {}

\* Nothing the program does changes or removes an account that is there: not a
\* restart, not a seeding that has been overtaken by another process or by a
\* person since its count.
AccountsSurvive ==
    [][~ToolStep =>
          \A u \in Accounts : rows'[u] = rows[u]]_storeVars
==============================================================================
