------------------------------ MODULE Startup ------------------------------
(***************************************************************************)
(* App::run from main to serving, in several processes on one database     *)
(* and, unless they were told otherwise, on one port: the command line,    *)
(* the context with its UserStore, the acceptor, the io threads, and the   *)
(* end, by a signal, by an exception or by being killed, after which the   *)
(* program may be started again.                                           *)
(***************************************************************************)
EXTENDS UserStore, Integers

CONSTANTS
    PortArgs,    \* values given to --port
    ThreadArgs,  \* values given to --threads
    SizeMod,     \* the number of values of size_t
    MaxSize,     \* max_size() of the vector of threads
    MaxFaults    \* bound: what may go wrong in a behaviour

ASSUME StartupAssumption ==
    /\ PortArgs \subseteq Int /\ ThreadArgs \subseteq Int
    /\ SizeMod \in Nat /\ MaxSize \in 1..SizeMod - 2
    /\ \A n \in ThreadArgs : n <= MaxSize /\ n - 1 > MaxSize - SizeMod
    /\ MaxFaults \in Nat

VARIABLES
    phase,       \* how far App::run is in each process
    cfg,         \* port and threadCount of each process's Config
    threads,     \* io threads that the main thread has started
    faults       \* what has gone wrong so far

runVars == <<phase, cfg, threads, faults>>
vars == <<storeVars, runVars>>

\* "off"      the process does not run
\* "context"  setupContext, in the constructor of UserStore
\* "built"    the context, the middlewares and the routes are set up
\* "bound"    HttpServer is constructed: the acceptor listens
\* "spawning" the vector is reserved, the threads are being started
\* "serving"  the main thread is in ioc_.run() as well
\* "leaving"  the signal's handler has closed the acceptor
Phases == {"off", "context", "built", "bound", "spawning", "serving", "leaving"}

Listening == {"bound", "spawning", "serving"}

PortMod == 65536    \* the number of values of an unsigned short

\* Mutant: the port is not converted.
PortOf_Whole(arg) == arg

\* static_cast<unsigned short> and static_cast<size_t> of what stoi returned.
PortOf(arg) == arg % PortMod

SizeOf(arg) == arg % SizeMod

Config == [port : 0..PortMod - 1, threadCount : 0..SizeMod - 1]

TypeOK ==
    /\ UserStoreTypeOK
    /\ phase \in [Procs -> Phases]
    /\ cfg \in [Procs -> Config]
    /\ threads \in [Procs -> 0..MaxSize]
    /\ faults \in 0..MaxFaults

Init ==
    /\ UserStoreInit
    /\ phase = [p \in Procs |-> "off"]
    /\ cfg = [p \in Procs |-> [port |-> 8080, threadCount |-> 4 % SizeMod]]
    /\ threads = [p \in Procs |-> 0]
    /\ faults = 0

Fault ==
    /\ faults < MaxFaults
    /\ faults' = faults + 1

Advances(p, from, to) ==
    /\ phase[p] = from
    /\ phase' = [phase EXCEPT ![p] = to]

-----------------------------------------------------------------------------
(* From main to serving.                                                   *)

\* reserve(threadCount - 1), in size_t.
Reserved(p) == (cfg[p].threadCount - 1) % SizeMod

\* ConfigManager::parse, Logger::init and sodium_init.  Whoever asks for a number
\* of threads that reserve will refuse has made a mistake, which is a fault.
Launches(p, portArg, threadArg) ==
    /\ Advances(p, "off", "context")
    /\ cfg' = [cfg EXCEPT ![p] = [port |-> PortOf(portArg),
                                  threadCount |-> SizeOf(threadArg)]]
    /\ IF threadArg > 0 THEN UNCHANGED faults ELSE Fault
    /\ UNCHANGED <<storeVars, threads>>

\* Statements of the constructor that succeed.
StoreStep(p) == Opens(p) \/ Migrates(p) \/ CountsRows(p) \/ Seeds(p)

Constructs(p) ==
    /\ phase[p] = "context"
    /\ StoreStep(p)
    /\ phase' = [phase EXCEPT ![p] = IF store'[p] = "ready" THEN "built" ELSE @]
    /\ UNCHANGED <<cfg, threads, faults>>

MiscountsRows(p) ==
    /\ phase[p] = "context"
    /\ CountFails(p)
    /\ phase' = [phase EXCEPT ![p] = IF store'[p] = "ready" THEN "built" ELSE @]
    /\ Fault
    /\ UNCHANGED <<cfg, threads>>

\* The port that a process holds; port 0 asks for one that is free.
Taken(port) ==
    port # 0 /\ \E q \in Procs : phase[q] \in Listening /\ cfg[q].port = port

Binds(p) ==
    /\ ~Taken(cfg[p].port)
    /\ Advances(p, "built", "bound")
    /\ UNCHANGED <<storeVars, cfg, threads, faults>>

\* Mutant: there is nothing to reserve for a thread count of zero.
Reserves_AnySize(p) ==
    /\ Advances(p, "bound", "spawning")
    /\ UNCHANGED <<storeVars, cfg, threads, faults>>

Reserves(p) ==
    /\ Reserved(p) <= MaxSize
    /\ Advances(p, "bound", "spawning")
    /\ UNCHANGED <<storeVars, cfg, threads, faults>>

SpawnsThread(p) ==
    /\ phase[p] = "spawning"
    /\ threads[p] + 1 < cfg[p].threadCount
    /\ threads' = [threads EXCEPT ![p] = @ + 1]
    /\ UNCHANGED <<storeVars, phase, cfg, faults>>

\* waitForSignal; ioc_.run() on the main thread.
Serves(p) ==
    /\ threads[p] + 1 >= cfg[p].threadCount
    /\ Advances(p, "spawning", "serving")
    /\ UNCHANGED <<storeVars, cfg, threads, faults>>

-----------------------------------------------------------------------------
(* The ends.                                                               *)

\* The process is gone: its threads, its socket and its connection to the file.
Ends(p) ==
    /\ phase' = [phase EXCEPT ![p] = "off"]
    /\ threads' = [threads EXCEPT ![p] = 0]
    /\ UNCHANGED cfg

\* The handler of SIGINT and SIGTERM, which is installed last.
SignalStops(p) ==
    /\ Advances(p, "serving", "leaving")
    /\ UNCHANGED <<storeVars, cfg, threads, faults>>

Leaves(p) ==
    /\ phase[p] = "leaving"
    /\ Ends(p) /\ Closes(p)
    /\ UNCHANGED faults

\* An exception ends run() with 1: of the seeding, of bind, of reserve.
SeedThrows(p) ==
    /\ phase[p] = "context" /\ SeedRefused(p)
    /\ Ends(p)
    /\ UNCHANGED faults

BindThrows(p) ==
    /\ phase[p] = "built" /\ Taken(cfg[p].port)
    /\ Ends(p) /\ Closes(p)
    /\ UNCHANGED faults

ReserveThrows(p) ==
    /\ phase[p] = "bound" /\ Reserved(p) > MaxSize
    /\ Ends(p) /\ Closes(p)
    /\ UNCHANGED faults

StoreThrows(p) ==
    /\ phase[p] = "context" /\ StatementFails(p)
    /\ Ends(p)
    /\ Fault

\* Killed, or a signal before its handler is installed; or no thread can be made,
\* and ~App meets joinable threads.
Dies(p) ==
    /\ phase[p] # "off"
    /\ Ends(p) /\ Closes(p)
    /\ Fault

-----------------------------------------------------------------------------
(* The specification.                                                      *)

\* What a process does when nothing goes wrong that has not gone wrong yet.
ProcStep(p) ==
    \/ Constructs(p) \/ SeedThrows(p)
    \/ Binds(p) \/ BindThrows(p)
    \/ Reserves(p) \/ ReserveThrows(p)
    \/ SpawnsThread(p) \/ Serves(p) \/ Leaves(p)

FaultStep(p) == MiscountsRows(p) \/ StoreThrows(p) \/ Dies(p)

LaunchStep(p) ==
    \E portArg \in PortArgs, threadArg \in ThreadArgs : Launches(p, portArg, threadArg)

Next ==
    \/ \E p \in Procs : LaunchStep(p) \/ ProcStep(p) \/ SignalStops(p) \/ FaultStep(p)
    \/ ToolStep /\ UNCHANGED runVars

Spec == Init /\ [][Next]_vars

\* A process that runs goes on, and whoever runs the program starts it again,
\* in the end with a number of threads that will do.
FairSpec ==
    /\ Spec
    /\ \A p \in Procs : WF_vars(ProcStep(p)) /\ WF_vars(LaunchStep(p))

-----------------------------------------------------------------------------
(* Properties.                                                             *)

\* A process that serves does so with as many threads as it was asked for, which
\* is at least one: conversions and the unsigned subtraction let no other through.
ThreadsAsAsked ==
    \A p \in Procs : phase[p] = "serving" =>
        \E n \in ThreadArgs :
            n >= 1 /\ cfg[p].threadCount = SizeOf(n) /\ threads[p] + 1 = n

\* Whatever was interrupted, and wherever, a later start gets to serving: what
\* a start leaves behind in the file never keeps the next one from succeeding.
ServesAgain == []<>(\E p \in Procs : phase[p] = "serving")
==============================================================================
