------------------------------ MODULE Lifecycle ------------------------------
(***************************************************************************)
(* The end of the process: a signal stops the io_context under the         *)
(* streaming core, run() joins the io threads, shuts the logger down and   *)
(* returns, and ~App destroys the members in reverse order.                *)
(*                                                                         *)
(* The source threads are nobody's io threads: they go on broadcasting     *)
(* until the destructor of their source joins them, which is after         *)
(* Logger::shutdown.  The io_context is App's first member, so the         *)
(* connections, which live in its pending handlers, die last.              *)
(***************************************************************************)
EXTENDS StreamManager

VARIABLES
    phase,      \* how far the process is; see Phases
    destroyed   \* the sources whose destructor has returned

lifeVars == <<vars, phase, destroyed>>

\* "up"        serving
\* "signalled" SIGINT or SIGTERM has arrived, its handler has not run yet
\* "stopping"  ioc_.stop() was called: no handler starts any more
\* "joined"    every io thread has returned from run()
\* "leaving"   Logger::shutdown was called and ~App runs
\* "gone"      StreamManager and io_context are destroyed
\* "crashed"   a thread logged through a logger that was shut down
Phases == {"up", "signalled", "stopping", "joined", "leaving", "gone", "crashed"}

Serving == phase \in {"up", "signalled"}
Ended   == phase \in {"gone", "crashed"}

LifeTypeOK ==
    /\ TypeOK
    /\ phase \in Phases
    /\ destroyed \subseteq Sources

LifeInit ==
    /\ Init
    /\ phase = "up"
    /\ destroyed = {}

-----------------------------------------------------------------------------
(* Connections, peers and sources in each phase.                           *)

\* What a handler that was running when the io_context stopped still does.
Finishes(c) ==
    \/ MutexStep(c) \/ LockSources(c) \/ SyncStep(c)
    \/ \E ch \in Sources : SpawnThrows(c, ch)

PeerStep(c) == PeerStalls(c) \/ PeerResumes(c) \/ PeerCloses(c)

ConnRuns(c) ==
    /\ \/ Serving /\ ConnStep(c)
       \/ phase = "stopping" /\ Finishes(c)
       \/ ~Ended /\ PeerStep(c)
    /\ UNCHANGED <<phase, destroyed>>

\* The source thread logs when the file is open or cannot be opened, when a
\* read or a write fails, and at the end of loop().  After Logger::shutdown
\* there is no logger to call.
SourceLogs(ch) ==
    \/ thread[ch] = "setup" /\ thread'[ch] # "setup"
    \/ thread[ch] # "done" /\ thread'[ch] = "done"
    \/ \E c \in Conns : writing = c /\ writing' = None /\ peer[c] = "closed"

Crashes(ch) == phase = "leaving" /\ SourceLogs(ch)

SourceRuns(ch) ==
    /\ ~Ended
    /\ SourceStep(ch)
    /\ phase' = IF Crashes(ch) THEN "crashed" ELSE phase
    /\ UNCHANGED destroyed

-----------------------------------------------------------------------------
(* The way down.                                                           *)

SignalArrives ==
    /\ phase = "up"
    /\ phase' = "signalled"
    /\ UNCHANGED <<vars, destroyed>>

\* The handler of waitForSignal: the acceptor is closed, ioc_.stop().
StopServer ==
    /\ phase = "signalled"
    /\ IoThreadFree
    /\ phase' = "stopping"
    /\ UNCHANGED <<vars, destroyed>>

\* Mutant: run() returns while its io threads are still at work.
JoinIoThreads_Detached ==
    /\ phase = "stopping"
    /\ phase' = "joined"
    /\ UNCHANGED <<vars, destroyed>>

\* ioc_.run() returns on the main thread, and the joins return.
JoinIoThreads ==
    /\ phase = "stopping"
    /\ \A c \in Conns : pc[c] \notin Running
    /\ phase' = "joined"
    /\ UNCHANGED <<vars, destroyed>>

\* Logger::shutdown(); run() returns.
ShutdownLogger ==
    /\ phase = "joined"
    /\ phase' = "leaving"
    /\ UNCHANGED <<vars, destroyed>>

\* ~StreamManager: sourceMutex_ and mutex_ are destroyed before sources_.  A
\* source thread may still lock mutex_; the build's mutex has a destructor that
\* does nothing, so the lock works as before.  The elements of the map go one
\* after the other, in an order its standard leaves open.
NextToDestroy(ch) ==
    /\ phase = "leaving"
    /\ ch \in Sources \ destroyed
    /\ \A other \in Sources \ {ch} : call[other] = "none"

\* ~FileFrameSource calls stop().
DestroySource(ch) ==
    /\ NextToDestroy(ch)
    /\ call[ch] = "none"
    /\ CallStop(ch)
    /\ UNCHANGED <<mgrVars, sendVars, connVars, ioThreads, phase, destroyed>>

\* Mutant: the destructor does not stop the source.
SourceDestroyed_NoStop(ch) ==
    /\ NextToDestroy(ch)
    /\ destroyed' = destroyed \cup {ch}
    /\ UNCHANGED <<vars, phase>>

SourceDestroyed(ch) ==
    /\ NextToDestroy(ch)
    /\ StopReturns(ch)
    /\ destroyed' = destroyed \cup {ch}
    /\ UNCHANGED <<mgrVars, sendVars, connVars, ioThreads, phase>>

\* Mutant: io_context is declared after the members that use it, and so
\* destroyed, its pending handlers and their connections with it, before them.
ConnectionsDie_Early ==
    /\ phase = "leaving"
    /\ phase' = IF destroyed = Sources THEN "gone" ELSE "leaving"
    /\ pc' = [c \in Conns |-> "idle"]
    /\ UNCHANGED <<sourceVars, mgrVars, sendVars, view, op, peer, ioThreads, destroyed>>

\* clients_ goes with StreamManager, and the connections with io_context.
ConnectionsDie ==
    /\ phase = "leaving"
    /\ destroyed = Sources
    /\ phase' = "gone"
    /\ pc' = [c \in Conns |-> "idle"]
    /\ clients' = {}
    /\ UNCHANGED <<sourceVars, mutex, srcOwner, entry, needed, todo, sendVars,
                   view, op, peer, ioThreads, destroyed>>

-----------------------------------------------------------------------------
(* The specification.                                                      *)

Descend ==
    \/ StopServer \/ JoinIoThreads \/ ShutdownLogger \/ ConnectionsDie
    \/ \E ch \in Sources : DestroySource(ch) \/ SourceDestroyed(ch)

LifeNext ==
    \/ \E c \in Conns : ConnRuns(c)
    \/ \E ch \in Sources : SourceRuns(ch)
    \/ SignalArrives
    \/ Descend
    \/ Ended /\ UNCHANGED lifeVars

LifeSpec == LifeInit /\ [][LifeNext]_lifeVars

\* The fairness of StreamManager's CooperativeSpec, as far as each phase lets
\* its steps happen; the signal's handler is queued like any other.
LifeFairSpec ==
    /\ LifeSpec
    /\ \A c \in Conns :
          /\ SF_lifeVars((Serving \/ phase = "stopping") /\ MutexStep(c) /\ ConnRuns(c))
          /\ SF_lifeVars((Serving \/ phase = "stopping") /\ LockSources(c) /\ ConnRuns(c))
          /\ WF_lifeVars((Serving \/ phase = "stopping") /\ SyncStep(c) /\ ConnRuns(c))
          /\ WF_lifeVars(PeerResumes(c) /\ ConnRuns(c))
    /\ \A ch \in Sources :
          /\ WF_lifeVars(LoopStep(ch) /\ SourceRuns(ch))
          /\ SF_lifeVars(BeginBroadcast(ch) /\ SourceRuns(ch))
          /\ SF_lifeVars(WriteStep(ch) /\ SourceRuns(ch))
    /\ SF_lifeVars(StopServer)
    /\ WF_lifeVars(Descend)

-----------------------------------------------------------------------------
(* Properties.                                                             *)

\* The order of App's members and of StreamManager's keeps the connections
\* alive for as long as a source thread may write to them: until the last
\* source's destructor has joined its thread.  Only an exception of add, when a
\* thread could not be made, leaves a connection that is dead in clients_.
WritesReachLiveConnections ==
    NoFault => \A c \in pending \cup ({writing} \ {None}) : pc[c] \in Registered

\* Nothing runs when main returns: every source thread was joined, and no
\* broadcast was left half done.
QuietWhenGone ==
    phase = "gone" =>
        /\ \A ch \in Sources : thread[ch] = "none"
        /\ mutex = None /\ writing = None

\* Once run() has joined its threads no handler calls a source again: the
\* destructors are the only ones to stop them, one at a time.
DestructorsAlone ==
    phase \in {"joined", "leaving"} =>
        /\ srcOwner = None
        /\ \A ch \in Sources : call[ch] # "none" => NextToDestroy(ch)

\* SIGINT and SIGTERM end the process: the io threads can be joined whatever
\* handler they are in, and the destructors join the source threads.
SignalEndsProcess == phase = "signalled" ~> Ended

\* "QUANTUM shut down cleanly": the way down does not end in a crash.
ShutsDownCleanly == phase # "crashed"
==============================================================================
