---------------------------- MODULE StartupProofs ----------------------------
(***************************************************************************)
(* Proofs about Startup for any number of processes, users, faults and any *)
(* command lines.                                                          *)
(*                                                                         *)
(* What keeps the two counters of threads honest is the range of the        *)
(* conversion to size_t: for the arguments assumed, a count that passes     *)
(* reserve is the number that was asked for, and no negative one passes.    *)
(***************************************************************************)
EXTENDS Startup, TLAPS

\* In each process that has a command line, the count is somebody's argument.
ConfigInv ==
    \A p \in Procs : phase[p] # "off" =>
        \E n \in ThreadArgs : cfg[p].threadCount = SizeOf(n)

\* Past reserve, the count that was asked for is positive and was not reached.
ThreadInv ==
    \A p \in Procs :
        /\ phase[p] \in {"spawning", "serving"} =>
              \E n \in ThreadArgs :
                  /\ n \in 1..MaxSize /\ cfg[p].threadCount = n
                  /\ threads[p] + 1 <= n
                  /\ phase[p] = "serving" => threads[p] + 1 = n
        /\ phase[p] \in {"off", "context", "built", "bound"} => threads[p] = 0

IInv == TypeOK /\ ReadyMeansAccounts /\ ConfigInv /\ ThreadInv

USE DEF Passwords, Positions, Phases

-----------------------------------------------------------------------------
(* Conversions.                                                            *)

\* The remainder of a number that is less than one modulus below the range.
LEMMA Remainder ==
    ASSUME NEW m \in Nat, NEW n \in Int, n < m, n >= -m
    PROVE  n % m = IF n >= 0 THEN n ELSE n + m
OBVIOUS

LEMMA SizeOfType ==
    ASSUME NEW n \in ThreadArgs
    PROVE  /\ SizeOf(n) \in 0..SizeMod - 1
           /\ SizeOf(n) = IF n >= 0 THEN n ELSE n + SizeMod
<1>1. /\ n \in Int /\ SizeMod \in Nat /\ MaxSize \in Nat /\ MaxSize <= SizeMod - 2
      /\ n <= MaxSize /\ n - 1 > MaxSize - SizeMod
  BY StartupAssumption
<1>2. n < SizeMod /\ n >= -SizeMod
  BY <1>1
<1>3. n % SizeMod = IF n >= 0 THEN n ELSE n + SizeMod
  BY <1>1, <1>2, Remainder
<1>. QED BY <1>1, <1>2, <1>3 DEF SizeOf

LEMMA PortOfType ==
    ASSUME NEW n \in PortArgs
    PROVE  PortOf(n) \in 0..PortMod - 1
<1>1. PortMod \in Nat /\ PortMod > 0
  BY DEF PortMod
<1>. QED BY <1>1, StartupAssumption DEF PortOf

\* A count that reserve takes is the argument itself, and positive.
LEMMA ReservedMeansAsked ==
    ASSUME NEW p \in Procs, NEW n \in ThreadArgs,
           cfg[p].threadCount = SizeOf(n), Reserved(p) <= MaxSize
    PROVE  n \in 1..MaxSize /\ SizeOf(n) = n
<1>1. /\ n \in Int /\ n <= MaxSize /\ n - 1 > MaxSize - SizeMod
      /\ SizeMod \in Nat /\ MaxSize \in Nat /\ MaxSize <= SizeMod - 2
  BY StartupAssumption
<1>2. CASE n >= 1
  BY <1>1, <1>2, SizeOfType
<1>3. CASE n < 1
  <2>1. PICK r \in Int : r = SizeOf(n) - 1 /\ r < SizeMod /\ r >= -SizeMod
    BY <1>1, SizeOfType
  <2>2. IF r >= 0 THEN r > MaxSize ELSE r + SizeMod > MaxSize
    BY <1>1, <1>3, <2>1, SizeOfType
  <2>3. r % SizeMod = IF r >= 0 THEN r ELSE r + SizeMod
    BY <1>1, <2>1, Remainder
  <2>4. Reserved(p) \in Int /\ Reserved(p) > MaxSize
    BY <1>1, <2>1, <2>2, <2>3 DEF Reserved
  <2>. QED BY <1>1, <2>4
<1>. QED BY <1>1, <1>2, <1>3

-----------------------------------------------------------------------------
(* The constructor of UserStore.                                           *)

LEMMA StoreSteps ==
    ASSUME UserStoreTypeOK, NEW p \in Procs, StoreStep(p)
    PROVE  /\ table' \in BOOLEAN
           /\ rows' \in [Users -> Passwords \cup {NoRow}]
           /\ store' = [store EXCEPT ![p] = store'[p]]
           /\ store'[p] \in Positions
           /\ \A u \in Accounts : rows'[u] = rows[u]
           /\ ReadyMeansAccounts => ReadyMeansAccounts'
<1>. USE DEF UserStoreTypeOK, Reaches, ReadyMeansAccounts, Accounts
<1>1. CASE Opens(p)
  BY <1>1 DEF Opens
<1>2. CASE Migrates(p)
  BY <1>2 DEF Migrates
<1>3. CASE CountsRows(p)
  BY <1>3 DEF CountsRows
<1>4. CASE Seeds(p)
  BY <1>4, UserStoreAssumption DEF Seeds
<1>. QED BY <1>1, <1>2, <1>3, <1>4 DEF StoreStep

\* A process that gives up its connection, or does not come to one.
LEMMA StoreEnds ==
    ASSUME UserStoreTypeOK, NEW p \in Procs,
           store' = [store EXCEPT ![p] = "closed"], UNCHANGED <<table, rows>>
    PROVE  UserStoreTypeOK' /\ (ReadyMeansAccounts => ReadyMeansAccounts')
BY DEF UserStoreTypeOK, ReadyMeansAccounts, Accounts

LEMMA ToolSteps ==
    ASSUME UserStoreTypeOK, ToolStep
    PROVE  UserStoreTypeOK' /\ (ReadyMeansAccounts => ReadyMeansAccounts')
<1>. USE DEF UserStoreTypeOK, ReadyMeansAccounts, Accounts
<1>1. ASSUME NEW u \in Users, ToolInserts(u), UNCHANGED <<table, store>>
      PROVE  UserStoreTypeOK' /\ (ReadyMeansAccounts => ReadyMeansAccounts')
  BY <1>1 DEF ToolInserts
<1>2. ASSUME NEW u \in Users, ToolChanges(u), UNCHANGED <<table, store>>
      PROVE  UserStoreTypeOK' /\ (ReadyMeansAccounts => ReadyMeansAccounts')
  BY <1>2 DEF ToolChanges
<1>3. ASSUME NEW u \in Users, ToolDeletes(u), UNCHANGED <<table, store>>
      PROVE  UserStoreTypeOK' /\ (ReadyMeansAccounts => ReadyMeansAccounts')
  <2>1. Accounts' = Accounts \ {u}
    BY <1>3, UserStoreAssumption DEF ToolDeletes
  <2>2. ReadyMeansAccounts => ReadyMeansAccounts'
    BY <1>3, <2>1 DEF ToolDeletes
  <2>. QED BY <1>3, <2>2 DEF ToolDeletes
<1>. QED BY <1>1, <1>2, <1>3 DEF ToolStep

-----------------------------------------------------------------------------
(* App::run: one lemma per way a step may change its state.                *)

RunInv == ConfigInv /\ ThreadInv

RunTypeOK ==
    /\ phase \in [Procs -> Phases]
    /\ cfg \in [Procs -> Config]
    /\ threads \in [Procs -> 0..MaxSize]
    /\ faults \in 0..MaxFaults

LEMMA FaultType ==
    ASSUME faults \in 0..MaxFaults, Fault
    PROVE  faults' \in 0..MaxFaults
BY StartupAssumption DEF Fault

\* Whatever ends a process takes its threads and its socket along.
LEMMA RunEnds ==
    ASSUME RunTypeOK, RunInv, NEW p \in Procs, Ends(p), UNCHANGED faults \/ Fault
    PROVE  RunTypeOK' /\ RunInv'
<1>. USE DEF RunTypeOK, RunInv, Ends
<1>1. RunTypeOK'
  BY FaultType, StartupAssumption
<1>2. ConfigInv'
  BY DEF ConfigInv
<1>3. ThreadInv'
  BY StartupAssumption DEF ThreadInv
<1>. QED BY <1>1, <1>2, <1>3

LEMMA RunLaunches ==
    ASSUME RunTypeOK, RunInv, NEW p \in Procs, LaunchStep(p)
    PROVE  RunTypeOK' /\ RunInv'
<1>1. PICK portArg \in PortArgs, threadArg \in ThreadArgs : Launches(p, portArg, threadArg)
  BY DEF LaunchStep
<1>. USE DEF RunTypeOK, RunInv, Launches, Advances
<1>2. cfg'[p].threadCount = SizeOf(threadArg) /\ cfg' \in [Procs -> Config]
  <2>1. [port |-> PortOf(portArg), threadCount |-> SizeOf(threadArg)] \in Config
    BY SizeOfType, PortOfType DEF Config
  <2>. QED BY <1>1, <2>1
<1>3. RunTypeOK'
  BY <1>1, <1>2, FaultType
<1>4. ConfigInv'
  BY <1>1, <1>2 DEF ConfigInv
<1>5. ThreadInv'
  BY <1>1 DEF ThreadInv
<1>. QED BY <1>3, <1>4, <1>5

\* The constructor leaves the process in its context or builds it.
LEMMA RunConstructs ==
    ASSUME RunTypeOK, RunInv, NEW p \in Procs, phase[p] = "context",
           phase' \in {phase, [phase EXCEPT ![p] = "built"]},
           UNCHANGED <<cfg, threads>>, UNCHANGED faults \/ Fault
    PROVE  RunTypeOK' /\ RunInv'
<1>. USE DEF RunTypeOK, RunInv
<1>1. RunTypeOK'
  BY FaultType
<1>2. ConfigInv'
  BY DEF ConfigInv
<1>3. ThreadInv'
  BY DEF ThreadInv
<1>. QED BY <1>1, <1>2, <1>3

LEMMA RunBinds ==
    ASSUME RunTypeOK, RunInv, NEW p \in Procs, Binds(p)
    PROVE  RunTypeOK' /\ RunInv'
<1>. USE DEF RunTypeOK, RunInv, Binds, Advances
<1>1. RunTypeOK'
  OBVIOUS
<1>2. ConfigInv'
  BY DEF ConfigInv
<1>3. ThreadInv'
  BY DEF ThreadInv
<1>. QED BY <1>1, <1>2, <1>3

LEMMA RunReserves ==
    ASSUME RunTypeOK, RunInv, NEW p \in Procs, Reserves(p)
    PROVE  RunTypeOK' /\ RunInv'
<1>. USE DEF RunTypeOK, RunInv, Reserves, Advances
<1>1. RunTypeOK'
  OBVIOUS
<1>2. ConfigInv'
  BY DEF ConfigInv
<1>3. ThreadInv'
  <2>1. PICK n \in ThreadArgs : cfg[p].threadCount = SizeOf(n)
    BY DEF ConfigInv
  <2>2. n \in 1..MaxSize /\ cfg[p].threadCount = n
    BY <2>1, ReservedMeansAsked
  <2>3. threads[p] = 0
    BY DEF ThreadInv
  <2>. QED BY <2>2, <2>3 DEF ThreadInv
<1>. QED BY <1>1, <1>2, <1>3

LEMMA RunSpawns ==
    ASSUME RunTypeOK, RunInv, NEW p \in Procs, SpawnsThread(p)
    PROVE  RunTypeOK' /\ RunInv'
<1>. USE DEF RunTypeOK, RunInv, SpawnsThread
<1>0. PICK n \in ThreadArgs : n \in 1..MaxSize /\ cfg[p].threadCount = n /\ threads[p] + 1 <= n
  BY DEF ThreadInv
<1>1. RunTypeOK'
  BY <1>0, StartupAssumption
<1>2. ConfigInv'
  BY DEF ConfigInv
<1>3. ThreadInv'
  BY <1>0, StartupAssumption DEF ThreadInv
<1>. QED BY <1>1, <1>2, <1>3

LEMMA RunServes ==
    ASSUME RunTypeOK, RunInv, NEW p \in Procs, Serves(p)
    PROVE  RunTypeOK' /\ RunInv'
<1>. USE DEF RunTypeOK, RunInv, Serves, Advances
<1>0. PICK n \in ThreadArgs : n \in 1..MaxSize /\ cfg[p].threadCount = n /\ threads[p] + 1 <= n
  BY DEF ThreadInv
<1>1. RunTypeOK'
  OBVIOUS
<1>2. ConfigInv'
  BY DEF ConfigInv
<1>3. ThreadInv'
  BY <1>0, StartupAssumption DEF ThreadInv
<1>. QED BY <1>1, <1>2, <1>3

LEMMA RunStops ==
    ASSUME RunTypeOK, RunInv, NEW p \in Procs, SignalStops(p)
    PROVE  RunTypeOK' /\ RunInv'
BY DEF RunTypeOK, RunInv, SignalStops, Advances, ConfigInv, ThreadInv

-----------------------------------------------------------------------------
(* The invariant.                                                          *)

LEMMA InvInit == Init => IInv
<1>. SUFFICES ASSUME Init PROVE IInv
  OBVIOUS
<1>1. 4 % SizeMod \in 0..SizeMod - 1 /\ 8080 \in 0..PortMod - 1
  BY StartupAssumption DEF PortMod
<1>2. TypeOK
  <2>1. cfg \in [Procs -> Config]
    <3>1. [port |-> 8080, threadCount |-> 4 % SizeMod] \in Config
      BY <1>1 DEF Config
    <3>. QED BY <3>1 DEF Init
  <2>2. 0 \in 0..MaxSize /\ 0 \in 0..MaxFaults
    BY StartupAssumption
  <2>. QED
    BY <2>1, <2>2 DEF Init, UserStoreInit, TypeOK, UserStoreTypeOK
<1>. QED
  BY <1>2 DEF Init, UserStoreInit, IInv, ReadyMeansAccounts, ConfigInv,
              ThreadInv

LEMMA InvStep ==
    ASSUME IInv, [Next]_vars
    PROVE  IInv'
<1>. USE DEF TypeOK, IInv, RunTypeOK, RunInv
<1>1. ASSUME NEW p \in Procs, LaunchStep(p) PROVE IInv'
  <2>1. UNCHANGED storeVars
    BY <1>1 DEF LaunchStep, Launches
  <2>2. UserStoreTypeOK' /\ ReadyMeansAccounts'
    BY <2>1 DEF storeVars, UserStoreTypeOK, ReadyMeansAccounts, Accounts
  <2>. QED BY <1>1, <2>2, RunLaunches
<1>2. ASSUME NEW p \in Procs, Constructs(p) PROVE IInv'
  <2>1. UserStoreTypeOK' /\ ReadyMeansAccounts'
    BY <1>2, StoreSteps DEF Constructs, UserStoreTypeOK
  <2>2. phase' \in {phase, [phase EXCEPT ![p] = "built"]}
    BY <1>2 DEF Constructs
  <2>. QED BY <1>2, <2>1, <2>2, RunConstructs DEF Constructs
<1>3. ASSUME NEW p \in Procs, MiscountsRows(p) PROVE IInv'
  <2>1. UserStoreTypeOK' /\ ReadyMeansAccounts'
    BY <1>3 DEF MiscountsRows, CountFails, Reaches, UserStoreTypeOK,
                ReadyMeansAccounts, Accounts
  <2>2. phase' \in {phase, [phase EXCEPT ![p] = "built"]}
    BY <1>3 DEF MiscountsRows
  <2>. QED BY <1>3, <2>1, <2>2, RunConstructs DEF MiscountsRows
<1>4. ASSUME NEW p \in Procs, Ends(p), UNCHANGED faults \/ Fault,
             SeedRefused(p) \/ StatementFails(p) \/ Closes(p)
      PROVE  IInv'
  <2>1. store' = [store EXCEPT ![p] = "closed"] /\ UNCHANGED <<table, rows>>
    BY <1>4 DEF SeedRefused, StatementFails, Closes, Reaches
  <2>. QED BY <1>4, <2>1, StoreEnds, RunEnds
<1>5. ASSUME NEW p \in Procs, UNCHANGED storeVars,
             Binds(p) \/ Reserves(p) \/ SpawnsThread(p) \/ Serves(p) \/ SignalStops(p)
      PROVE  IInv'
  <2>1. UserStoreTypeOK' /\ ReadyMeansAccounts'
    BY <1>5 DEF storeVars, UserStoreTypeOK, ReadyMeansAccounts, Accounts
  <2>. QED BY <1>5, <2>1, RunBinds, RunReserves, RunSpawns, RunServes, RunStops
<1>6. CASE ToolStep /\ UNCHANGED runVars
  <2>1. UserStoreTypeOK' /\ ReadyMeansAccounts'
    BY <1>6, ToolSteps
  <2>2. RunTypeOK' /\ RunInv'
    BY <1>6 DEF runVars, ConfigInv, ThreadInv
  <2>. QED BY <2>1, <2>2
<1>7. CASE UNCHANGED vars
  BY <1>7 DEF vars, storeVars, runVars, UserStoreTypeOK, ReadyMeansAccounts, Accounts,
              ConfigInv, ThreadInv
<1>8. ASSUME NEW p \in Procs, ProcStep(p) PROVE IInv'
  <2>1. CASE SeedThrows(p)
    BY <1>4, <2>1 DEF SeedThrows
  <2>2. CASE BindThrows(p) \/ ReserveThrows(p) \/ Leaves(p)
    BY <1>4, <2>2 DEF BindThrows, ReserveThrows, Leaves
  <2>3. CASE Binds(p) \/ Reserves(p) \/ SpawnsThread(p) \/ Serves(p)
    BY <1>5, <2>3 DEF Binds, Reserves, SpawnsThread, Serves
  <2>. QED BY <1>2, <1>8, <2>1, <2>2, <2>3 DEF ProcStep
<1>9. ASSUME NEW p \in Procs, FaultStep(p) PROVE IInv'
  <2>1. CASE StoreThrows(p) \/ Dies(p)
    BY <1>4, <2>1 DEF StoreThrows, Dies
  <2>. QED BY <1>3, <1>9, <2>1 DEF FaultStep
<1>10. ASSUME NEW p \in Procs, SignalStops(p) PROVE IInv'
  BY <1>5, <1>10 DEF SignalStops
<1>. QED BY <1>1, <1>6, <1>7, <1>8, <1>9, <1>10 DEF Next

THEOREM Invariance == Spec => []IInv
<1>1. Init => IInv
  BY InvInit
<1>2. IInv /\ [Next]_vars => IInv'
  BY InvStep
<1>. QED BY <1>1, <1>2, PTL DEF Spec

\* Every variable keeps its range: in particular a Config holds an unsigned short
\* and a size_t, whatever the command line was.
THEOREM TypeCorrect == Spec => []TypeOK
BY Invariance, PTL DEF IInv

\* A process that has come past UserStore's constructor has an account to log in
\* with, whatever failed, died or was restarted.
THEOREM AccountsOnceReady == Spec => []ReadyMeansAccounts
BY Invariance, PTL DEF IInv

\* The number of threads that serve is the one on the command line, and positive.
THEOREM ThreadCount == Spec => []ThreadsAsAsked
<1>1. IInv => ThreadsAsAsked
  <2>. SUFFICES ASSUME IInv, NEW p \in Procs, phase[p] = "serving"
       PROVE  \E n \in ThreadArgs :
                  n >= 1 /\ cfg[p].threadCount = SizeOf(n) /\ threads[p] + 1 = n
    BY DEF ThreadsAsAsked
  <2>1. PICK n \in ThreadArgs : n \in 1..MaxSize /\ cfg[p].threadCount = n
                               /\ threads[p] + 1 = n
    BY DEF IInv, ThreadInv
  <2>2. SizeOf(n) = n
    BY <2>1, SizeOfType
  <2>. QED BY <2>1, <2>2
<1>. QED BY <1>1, Invariance, PTL

-----------------------------------------------------------------------------
(* What the program may do to the accounts.                                *)

LEMMA StepKeepsAccounts ==
    ASSUME IInv, [Next]_vars, ~ToolStep, NEW u \in Accounts
    PROVE  rows'[u] = rows[u]
<1>. USE DEF TypeOK, IInv
<1>1. ASSUME NEW p \in Procs, LaunchStep(p) PROVE rows' = rows
  BY <1>1 DEF LaunchStep, Launches, storeVars
<1>2. ASSUME NEW p \in Procs, ProcStep(p) PROVE rows'[u] = rows[u]
  <2>1. CASE Constructs(p)
    BY <2>1, StoreSteps DEF Constructs
  <2>. QED
    BY <1>2, <2>1 DEF ProcStep, SeedThrows, SeedRefused, Binds, BindThrows, Reserves,
                      ReserveThrows, SpawnsThread, Serves, Leaves, Closes, storeVars
<1>3. ASSUME NEW p \in Procs, FaultStep(p) PROVE rows' = rows
  BY <1>3 DEF FaultStep, MiscountsRows, CountFails, StoreThrows, StatementFails,
              Dies, Closes
<1>4. ASSUME NEW p \in Procs, SignalStops(p) PROVE rows' = rows
  BY <1>4 DEF SignalStops, storeVars
<1>5. CASE UNCHANGED vars
  BY <1>5 DEF vars, storeVars
<1>. QED BY <1>1, <1>2, <1>3, <1>4, <1>5 DEF Next

\* No start, stop, failure or seeding changes or removes an account.
THEOREM ProgramKeepsAccounts == Spec => AccountsSurvive
<1>1. IInv /\ [Next]_vars => [~ToolStep => \A u \in Accounts : rows'[u] = rows[u]]_storeVars
  BY StepKeepsAccounts
<1>. QED BY <1>1, Invariance, PTL DEF Spec, AccountsSurvive
==============================================================================
