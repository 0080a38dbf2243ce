--------------------------- MODULE LifecycleProofs ---------------------------
(***************************************************************************)
(* Proofs about the end of the process, for any connections and sources.   *)
(*                                                                         *)
(* While there are handlers, IInv of the streaming core holds: every step  *)
(* of LifeNext that moves the core is a step of the core's Next.  With the *)
(* io threads gone, a destructor calls stop() without sourceMutex_, which  *)
(* IInv does not allow; LeavingInv says what takes its place.              *)
(***************************************************************************)
EXTENDS Lifecycle, StreamManagerProofs

USE DEF Waiting, Running, PCs, ThreadStates

HasHandlers == phase \in {"up", "signalled", "stopping", "joined"}

\* Of IInv, what no call on a source can disturb; until the connections die.
WriteInv == MutexInv /\ ClientInv

\* No handler is left, and only a destructor is inside a source.
LeavingInv ==
    /\ srcOwner = None
    /\ \A c \in Conns : pc[c] \notin Running
    /\ \A ch \in Sources : call[ch] # "none" => call[ch] = "stop" /\ NextToDestroy(ch)
    /\ \A ch \in destroyed : thread[ch] = "none"

LifeInv ==
    /\ LifeTypeOK
    /\ HasHandlers => IInv /\ destroyed = {}
    /\ phase = "joined" => \A c \in Conns : pc[c] \notin Running
    /\ phase = "leaving" => LeavingInv
    /\ phase # "gone" => WriteInv
    /\ QuietWhenGone
    /\ phase = "gone" => pending = {}

-----------------------------------------------------------------------------
(* Type correctness.                                                       *)

\* A step of LifeNext moves the core as Next may, or is one of the destructors'.
LEMMA CoreStep ==
    ASSUME LifeNext
    PROVE  \/ [Next]_vars
           \/ \E ch \in Sources : DestroySource(ch) \/ SourceDestroyed(ch)
           \/ ConnectionsDie
BY DEF LifeNext, ConnRuns, Finishes, PeerStep, SourceRuns, SignalArrives, Descend, StopServer,
    JoinIoThreads, ShutdownLogger, Next, ConnStep, lifeVars

LEMMA TypeNext == TypeOK /\ [Next]_vars => TypeOK'
<1> SUFFICES ASSUME TypeOK, [Next]_vars PROVE TypeOK'
  OBVIOUS
<1>1. ASSUME NEW c \in Conns, ConnStep(c) PROVE TypeOK'
  BY <1>1, TypeConn, TypeSync, StreamAssumption DEF ConnStep
<1>2. ASSUME NEW ch \in Sources, SourceStep(ch) PROVE TypeOK'
  BY <1>2, TypeSource
<1>3. CASE UNCHANGED vars
  BY <1>3 DEF vars, sourceVars, mgrVars, sendVars, connVars, TypeOK, SourceTypeOK
<1> QED
  BY <1>1, <1>2, <1>3 DEF Next

LEMMA LifeTypeNext == LifeTypeOK /\ [LifeNext]_lifeVars => LifeTypeOK'
<1> SUFFICES ASSUME LifeTypeOK, [LifeNext]_lifeVars PROVE LifeTypeOK'
  OBVIOUS
<1>a. TypeOK
  BY DEF LifeTypeOK
<1>1. CASE UNCHANGED lifeVars
  BY <1>1, <1>a, TypeNext DEF lifeVars, LifeTypeOK
<1>2. CASE LifeNext
  <2>1. phase' \in Phases /\ destroyed' \subseteq Sources
    BY <1>2 DEF LifeNext, ConnRuns, SourceRuns, SignalArrives, Descend, StopServer, JoinIoThreads,
        ShutdownLogger, ConnectionsDie, DestroySource, SourceDestroyed, NextToDestroy, lifeVars,
        LifeTypeOK, Phases
  <2>2. CASE [Next]_vars
    BY <2>1, <2>2, <1>a, TypeNext DEF LifeTypeOK
  <2>3. ASSUME NEW ch \in Sources, DestroySource(ch) \/ SourceDestroyed(ch) PROVE TypeOK'
    BY <2>3, <1>a DEF DestroySource, SourceDestroyed, CallStop, StopReturns, mgrVars, sendVars,
        connVars, TypeOK, SourceTypeOK
  <2>4. ConnectionsDie => TypeOK'
    BY <1>a DEF ConnectionsDie, sourceVars, sendVars, TypeOK, SourceTypeOK
  <2> QED
    BY <1>2, CoreStep, <2>1, <2>2, <2>3, <2>4 DEF LifeTypeOK
<1> QED
  BY <1>1, <1>2

\* Every variable of the process keeps its type up to its end.
THEOREM LifeTypeCorrect == LifeSpec => []LifeTypeOK
<1>1. LifeInit => LifeTypeOK
  BY InitInv DEF LifeInit, IInv, LifeTypeOK, Phases
<1> QED
  BY <1>1, LifeTypeNext, PTL DEF LifeSpec

-----------------------------------------------------------------------------
(* The invariant, step by step.                                            *)

\* A source thread keeps the promises about mutex_, whoever calls its source.
LEMMA WriteInvSource ==
    ASSUME TypeOK, WriteInv, NEW ch \in Sources, SourceStep(ch)
    PROVE  WriteInv'
<1> USE DEF sourceVars, mgrVars, sendVars, connVars
<1>1. ClientInv'
  BY DEF WriteInv, SourceStep, LoopStep, BeginBroadcast, WriteStep, StartWrite, EndWrite,
      EndBroadcast, ClientInv, DanglesOnlyAfterFault, NoDanglingClient, NoFault
<1>2. CASE LoopStep(ch)
  <2>1. thread[ch] # "callback"
    BY <1>2 DEF LoopStep, Opened, OpenFails, FrameReady, ReadError, LoopEnds, Goes
  <2>2. /\ \A other \in Sources : other # ch => thread'[other] = thread[other]
        /\ UNCHANGED <<mutex, writing, pending, clients>>
    BY <1>2 DEF LoopStep, Opened, OpenFails, FrameReady, ReadError, LoopEnds, Goes,
        TypeOK, SourceTypeOK
  <2> QED
    BY <1>1, <2>1, <2>2 DEF WriteInv, MutexInv, BroadcastToRegistered
<1>3. CASE BeginBroadcast(ch)
  BY <1>1, <1>3, StreamAssumption DEF BeginBroadcast, WriteInv, MutexInv, BroadcastToRegistered
<1>4. ASSUME NEW c \in Conns, StartWrite(ch, c) PROVE WriteInv'
  BY <1>1, <1>4, StreamAssumption DEF StartWrite, WriteInv, MutexInv, BroadcastToRegistered
<1>5. CASE EndWrite(ch)
  BY <1>1, <1>5, StreamAssumption DEF EndWrite, WriteInv, MutexInv, BroadcastToRegistered
<1>6. CASE EndBroadcast(ch)
  BY <1>1, <1>6, StreamAssumption DEF EndBroadcast, CallbackReturns, Goes, WriteInv, MutexInv,
      BroadcastToRegistered, TypeOK, SourceTypeOK
<1> QED
  BY <1>2, <1>3, <1>4, <1>5, <1>6 DEF SourceStep, WriteStep

LEMMA LifeInitInv == LifeInit => LifeInv
BY InitInv DEF LifeInit, IInv, LifeInv, LifeTypeOK, Phases, HasHandlers, WriteInv, QuietWhenGone

\* As long as there are handlers, the streaming core's own proof applies.
LEMMA HandlersKeepInv ==
    ASSUME LifeInv, HasHandlers, [Next]_vars
    PROVE  IInv' /\ WriteInv'
BY NextInv DEF LifeInv, IInv, WriteInv

LEMMA InvConnRuns ==
    ASSUME LifeInv, LifeTypeOK', NEW c \in Conns, ConnRuns(c)
    PROVE  LifeInv'
<1>1. CASE HasHandlers
  <2>1. [Next]_vars
    BY DEF ConnRuns, Finishes, PeerStep, Next, ConnStep
  <2>2. phase = "joined" => UNCHANGED pc
    BY DEF ConnRuns, Serving, PeerStep, PeerStalls, PeerResumes, PeerCloses, PeerTurns
  <2> QED
    BY <1>1, <2>1, <2>2, HandlersKeepInv
    DEF ConnRuns, LifeInv, HasHandlers, QuietWhenGone
<1>2. CASE phase = "leaving"
  <2>1. UNCHANGED <<vars, phase, destroyed>> \/
        UNCHANGED <<sourceVars, mgrVars, sendVars, pc, view, op, ioThreads, phase, destroyed>>
    BY <1>2 DEF ConnRuns, Serving, PeerStep, PeerStalls, PeerResumes, PeerCloses, PeerTurns
  <2> QED
    BY <1>2, <2>1 DEF vars, sourceVars, mgrVars, sendVars, connVars, LifeInv, HasHandlers,
        LeavingInv, NextToDestroy, WriteInv, MutexInv, BroadcastToRegistered, ClientInv,
        DanglesOnlyAfterFault, NoDanglingClient, NoFault, QuietWhenGone
<1>3. CASE Ended
  BY <1>3 DEF ConnRuns, Serving, Ended
<1> QED
  BY <1>1, <1>2, <1>3 DEF LifeInv, LifeTypeOK, Phases, HasHandlers, Ended

LEMMA InvSourceRuns ==
    ASSUME LifeInv, LifeTypeOK', NEW ch \in Sources, SourceRuns(ch)
    PROVE  LifeInv'
<1> USE DEF sourceVars, mgrVars, sendVars, connVars
<1>a. SourceStep(ch) /\ ~Ended /\ UNCHANGED destroyed
  BY DEF SourceRuns
<1>b. TypeOK /\ WriteInv
  BY <1>a DEF LifeInv, LifeTypeOK, Ended
<1>c. UNCHANGED <<pc, call, srcOwner>>
  BY <1>a DEF SourceStep, LoopStep, Opened, OpenFails, FrameReady, ReadError, LoopEnds, Goes,
      BeginBroadcast, WriteStep, StartWrite, EndWrite, EndBroadcast, CallbackReturns
<1>d. WriteInv'
  BY <1>a, <1>b, WriteInvSource
<1>1. CASE HasHandlers
  <2>1. [Next]_vars
    BY <1>a DEF Next
  <2>2. UNCHANGED phase
    BY <1>1 DEF SourceRuns, Crashes, HasHandlers
  <2> QED
    BY <1>1, <1>a, <1>c, <2>1, <2>2, HandlersKeepInv DEF LifeInv, HasHandlers, QuietWhenGone
<1>2. CASE phase = "leaving"
  <2>1. phase' \in {"leaving", "crashed"}
    BY <1>2 DEF SourceRuns
  <2>2. \A other \in destroyed : thread'[other] = "none"
    <3> SUFFICES ASSUME NEW other \in destroyed PROVE thread'[other] = "none"
      OBVIOUS
    <3>1. other \in Sources /\ thread[other] = "none"
      BY <1>2 DEF LifeInv, LifeTypeOK, LeavingInv
    <3> QED
      BY <3>1, <1>a, <1>b DEF SourceStep, LoopStep, Opened, OpenFails, FrameReady, ReadError,
          LoopEnds, Goes, BeginBroadcast, WriteStep, StartWrite, EndWrite, EndBroadcast,
          CallbackReturns, TypeOK, SourceTypeOK
  <2>3. phase' = "leaving" => LeavingInv'
    BY <1>2, <1>a, <1>c, <2>2 DEF LifeInv, LeavingInv, NextToDestroy
  <2> QED
    BY <1>d, <2>1, <2>3 DEF LifeInv, HasHandlers, QuietWhenGone
<1> QED
  BY <1>1, <1>2, <1>a DEF LifeInv, LifeTypeOK, Phases, HasHandlers, Ended

LEMMA InvDestructors ==
    ASSUME LifeInv, LifeTypeOK', NEW ch \in Sources, DestroySource(ch) \/ SourceDestroyed(ch)
    PROVE  LifeInv'
<1> USE DEF mgrVars, sendVars, connVars
<1>a. phase = "leaving" /\ phase' = "leaving" /\ ch \notin destroyed
  BY DEF DestroySource, SourceDestroyed, NextToDestroy
<1>b. TypeOK /\ WriteInv /\ LeavingInv /\ destroyed \subseteq Sources
  BY <1>a DEF LifeInv, LifeTypeOK
<1>c. \A other \in Sources \ {ch} : call[other] = "none"
  BY DEF DestroySource, SourceDestroyed, NextToDestroy
<1>1. WriteInv'
  BY <1>b DEF DestroySource, SourceDestroyed, CallStop, StopReturns, Joined, WriteInv, MutexInv,
      BroadcastToRegistered, ClientInv, DanglesOnlyAfterFault, NoDanglingClient, NoFault,
      TypeOK, SourceTypeOK
<1>2. CASE DestroySource(ch)
  <2>1. LeavingInv'
    BY <1>2, <1>a, <1>b, <1>c DEF DestroySource, CallStop, LeavingInv, NextToDestroy, TypeOK,
        SourceTypeOK
  <2> QED
    BY <1>a, <1>1, <2>1 DEF LifeInv, HasHandlers, QuietWhenGone
<1>3. CASE SourceDestroyed(ch)
  <2>1. LeavingInv'
    BY <1>3, <1>a, <1>b, <1>c DEF SourceDestroyed, StopReturns, LeavingInv, NextToDestroy, TypeOK,
        SourceTypeOK
  <2> QED
    BY <1>a, <1>1, <2>1 DEF LifeInv, HasHandlers, QuietWhenGone
<1> QED
  BY <1>2, <1>3

\* run() has joined its threads: nobody owns sourceMutex_ or is inside a source.
LEMMA JoinedIsQuiet ==
    ASSUME LifeInv, phase = "joined"
    PROVE  srcOwner = None /\ \A ch \in Sources : call[ch] = "none"
<1>1. TypeOK /\ OwnerInv /\ \A c \in Conns : pc[c] \notin Running
  BY DEF LifeInv, HasHandlers, IInv
<1> QED
  BY <1>1 DEF OwnerInv, TypeOK, SourceTypeOK

LEMMA InvDescend ==
    ASSUME LifeInv, LifeTypeOK',
           \/ SignalArrives \/ StopServer \/ JoinIoThreads \/ ShutdownLogger \/ ConnectionsDie
    PROVE  LifeInv'
<1>1. CASE SignalArrives \/ StopServer \/ JoinIoThreads
  <2>1. /\ HasHandlers /\ HasHandlers' /\ UNCHANGED <<vars, destroyed>>
        /\ phase' = "joined" => \A c \in Conns : pc[c] \notin Running
    BY <1>1 DEF SignalArrives, StopServer, JoinIoThreads, HasHandlers
  <2>2. IInv' /\ WriteInv'
    BY <2>1, HandlersKeepInv
  <2> QED
    BY <2>1, <2>2 DEF LifeInv, HasHandlers, QuietWhenGone, vars, connVars
<1>2. CASE ShutdownLogger
  <2>1. phase = "joined" /\ phase' = "leaving" /\ UNCHANGED <<vars, destroyed>>
    BY <1>2 DEF ShutdownLogger
  <2>2. WriteInv'
    BY <2>1, HandlersKeepInv DEF HasHandlers
  <2>3. LeavingInv'
    BY <2>1, JoinedIsQuiet DEF LifeInv, HasHandlers, LeavingInv, vars, sourceVars, mgrVars, connVars
  <2> QED
    BY <2>1, <2>2, <2>3 DEF LifeInv, HasHandlers, QuietWhenGone
<1>3. CASE ConnectionsDie
  <2>1. /\ phase = "leaving" /\ phase' = "gone" /\ destroyed = Sources
        /\ UNCHANGED <<thread, mutex, pending, writing>>
    BY <1>3 DEF ConnectionsDie, sourceVars, sendVars
  <2>2. TypeOK /\ MutexInv /\ \A ch \in Sources : thread[ch] = "none"
    BY <2>1 DEF LifeInv, LifeTypeOK, WriteInv, LeavingInv
  <2>3. mutex = None /\ writing = None /\ pending = {}
    BY <2>2 DEF MutexInv, TypeOK
  <2> QED
    BY <2>1, <2>2, <2>3 DEF LifeInv, HasHandlers, QuietWhenGone
<1> QED
  BY <1>1, <1>2, <1>3

LEMMA LifeNextInv == LifeInv /\ [LifeNext]_lifeVars => LifeInv'
<1> SUFFICES ASSUME LifeInv, [LifeNext]_lifeVars PROVE LifeInv'
  OBVIOUS
<1>1. LifeTypeOK'
  BY LifeTypeNext DEF LifeInv
<1>2. CASE UNCHANGED lifeVars
  BY <1>1, <1>2 DEF lifeVars, vars, sourceVars, mgrVars, sendVars, connVars, LifeInv, HasHandlers,
      IInv, TypeOK, SourceTypeOK, OwnerInv, Visiting, MutexInv, BroadcastToRegistered, ClientInv,
      DanglesOnlyAfterFault, NoDanglingClient, NoFault, StoppedMeansJoined, WriteInv, LeavingInv,
      NextToDestroy, QuietWhenGone
<1>3. ASSUME LifeNext, ~UNCHANGED lifeVars PROVE LifeInv'
  BY <1>1, <1>3, InvConnRuns, InvSourceRuns, InvDestructors, InvDescend DEF LifeNext, Descend
<1> QED
  BY <1>2, <1>3

LEMMA LifeInvariance == LifeSpec => []LifeInv
BY LifeInitInv, LifeNextInv, PTL DEF LifeSpec

-----------------------------------------------------------------------------
(* What follows from it.                                                   *)

\* After run() has joined its threads only destructors stop the sources, one
\* after the other, without sourceMutex_ and without anyone to need it.
THEOREM OnlyDestructorsStop == LifeSpec => []DestructorsAlone
<1>1. ASSUME LifeInv PROVE DestructorsAlone
  BY <1>1, JoinedIsQuiet DEF LifeInv, LeavingInv, DestructorsAlone
<1> QED
  BY <1>1, LifeInvariance, PTL

\* When main returns every source thread has been joined and mutex_ is free.
THEOREM EndsQuietly == LifeSpec => []QuietWhenGone
<1>1. LifeInv => QuietWhenGone
  BY DEF LifeInv
<1> QED
  BY <1>1, LifeInvariance, PTL

\* Where creating a thread has not failed, a source thread writes to connections
\* that are still there, from the start of the process to its end: the order of
\* App's members destroys the connections after the last source has been joined.
THEOREM WritesStaySafe == LifeSpec => []WritesReachLiveConnections
<1>1. ASSUME LifeInv, NoFault
      PROVE  \A c \in pending \cup ({writing} \ {None}) : pc[c] \in Registered
  <2>1. CASE phase = "gone"
    BY <1>1, <2>1 DEF LifeInv, QuietWhenGone
  <2>2. CASE phase # "gone"
    BY <1>1, <2>2 DEF LifeInv, WriteInv, MutexInv, BroadcastToRegistered, ClientInv,
        DanglesOnlyAfterFault, NoDanglingClient
  <2> QED
    BY <2>1, <2>2
<1>2. LifeInv => WritesReachLiveConnections
  BY <1>1 DEF WritesReachLiveConnections
<1> QED
  BY <1>2, LifeInvariance, PTL

\* What the locks protect stays protected on the way down, a thread that cannot be
\* made included: until every io thread has been joined, the streaming core keeps
\* its promises about broadcasts, calls on sources and joins; from there to the end
\* of the last source, a broadcast still goes to registered clients only, and a
\* dangling pointer in clients_ is still the mark of an exception.
THEOREM CoreSurvivesShutdown ==
    LifeSpec => []( /\ HasHandlers =>
                          BroadcastToRegistered /\ SourceCallsExclusive /\ StoppedMeansJoined
                    /\ phase # "gone" => BroadcastToRegistered /\ DanglesOnlyAfterFault )
<1>1. LifeInv => ( /\ HasHandlers =>
                         BroadcastToRegistered /\ SourceCallsExclusive /\ StoppedMeansJoined
                   /\ phase # "gone" => BroadcastToRegistered /\ DanglesOnlyAfterFault )
  BY DEF LifeInv, IInv, OwnerInv, SourceCallsExclusive, WriteInv, MutexInv, ClientInv
<1> QED
  BY <1>1, LifeInvariance, PTL

-----------------------------------------------------------------------------
(* When the way down is clean: without source threads there is nobody left to *)
(* log, and without clients there are no source threads.                      *)

NoSourceThreads == \A ch \in Sources : thread[ch] \in {"none", "done"}

\* No thread comes back once the io threads are gone.
LEMMA NoThreadReturns ==
    ASSUME LifeInv, NoSourceThreads, ~HasHandlers, [LifeNext]_lifeVars
    PROVE  NoSourceThreads' /\ phase' \in {phase, "gone"}
<1>0. LifeTypeOK
  BY DEF LifeInv
<1>1. ASSUME NEW ch \in Sources, SourceRuns(ch) PROVE FALSE
  <2>1. SourceStep(ch) /\ mutex # ch
    BY <1>1 DEF SourceRuns, Ended, LifeInv, WriteInv, MutexInv, NoSourceThreads
  <2> QED
    BY <2>1 DEF NoSourceThreads, SourceStep, LoopStep, Opened, OpenFails, FrameReady, ReadError,
        LoopEnds, Goes, BeginBroadcast, WriteStep, StartWrite, EndWrite, EndBroadcast
<1>2. ASSUME NEW c \in Conns, ConnRuns(c) PROVE UNCHANGED <<thread, phase>>
  BY <1>2 DEF ConnRuns, HasHandlers, Serving, PeerStep, PeerStalls, PeerResumes, PeerCloses,
      PeerTurns, sourceVars
<1>3. ASSUME NEW ch \in Sources, DestroySource(ch) \/ SourceDestroyed(ch)
      PROVE  NoSourceThreads' /\ phase' = phase
  BY <1>0, <1>3 DEF DestroySource, SourceDestroyed, CallStop, StopReturns, NoSourceThreads,
      LifeTypeOK, TypeOK, SourceTypeOK
<1>4. CASE ConnectionsDie
  BY <1>4 DEF ConnectionsDie, sourceVars, NoSourceThreads
<1>5. CASE UNCHANGED lifeVars
  BY <1>5 DEF lifeVars, vars, sourceVars, NoSourceThreads
<1>6. ~(SignalArrives \/ StopServer \/ JoinIoThreads \/ ShutdownLogger)
  BY DEF SignalArrives, StopServer, JoinIoThreads, ShutdownLogger, HasHandlers
<1> QED
  BY <1>1, <1>2, <1>3, <1>4, <1>5, <1>6 DEF LifeNext, Descend, NoSourceThreads

\* Nobody logs through the logger that is gone, if no source thread is left when
\* run() has joined its io threads.
CleanInv ==
    /\ phase # "crashed"
    /\ ~HasHandlers => NoSourceThreads

LEMMA CleanNext ==
    ASSUME LifeInv, CleanInv, phase = "joined" => NoSourceThreads, [LifeNext]_lifeVars
    PROVE  CleanInv'
<1>1. CASE ~HasHandlers
  BY <1>1, NoThreadReturns DEF CleanInv, HasHandlers
<1>2. CASE HasHandlers
  <2>1. CASE ShutdownLogger
    BY <2>1 DEF ShutdownLogger, vars, sourceVars, CleanInv, HasHandlers, NoSourceThreads
  <2>2. CASE ~ShutdownLogger
    <3>1. HasHandlers'
      BY <1>2, <2>2 DEF HasHandlers, LifeNext, ConnRuns, SourceRuns, Crashes, SignalArrives,
          Descend, StopServer, JoinIoThreads, ConnectionsDie, DestroySource, SourceDestroyed,
          NextToDestroy, Ended, lifeVars
    <3> QED
      BY <3>1 DEF CleanInv, HasHandlers
  <2> QED
    BY <2>1, <2>2
<1> QED
  BY <1>1, <1>2

\* "QUANTUM shut down cleanly" is true unless a source thread is still there when
\* run() has joined the io threads: that is the only way to the crash.
THEOREM CleanWithoutSources ==
    LifeSpec /\ [](phase = "joined" => NoSourceThreads) => []ShutsDownCleanly
<1>1. LifeInit => CleanInv
  BY DEF LifeInit, CleanInv, HasHandlers
<1>2. LifeInv /\ CleanInv /\ (phase = "joined" => NoSourceThreads) /\ [LifeNext]_lifeVars
        => CleanInv'
  BY CleanNext
<1>3. CleanInv => ShutsDownCleanly
  BY DEF CleanInv, ShutsDownCleanly
<1> QED
  BY <1>1, <1>2, <1>3, LifeInvariance, PTL DEF LifeSpec

\* What the core's proof of matching sources needs, while there are handlers.
MatchingInv == HasHandlers => SyncInv /\ OpInv /\ MatchInv

LEMMA HandlersStep ==
    ASSUME HasHandlers', [LifeNext]_lifeVars
    PROVE  HasHandlers /\ [Next]_vars
<1>1. HasHandlers
  BY DEF HasHandlers, LifeNext, ConnRuns, SourceRuns, SignalArrives, Descend, StopServer,
      JoinIoThreads, ShutdownLogger, ConnectionsDie, DestroySource, SourceDestroyed,
      NextToDestroy, Ended, lifeVars
<1>2. ~ConnectionsDie /\ \A ch \in Sources : ~DestroySource(ch) /\ ~SourceDestroyed(ch)
  BY <1>1 DEF HasHandlers, ConnectionsDie, DestroySource, SourceDestroyed, NextToDestroy
<1>3. UNCHANGED lifeVars => UNCHANGED vars
  BY DEF lifeVars
<1> QED
  BY <1>1, <1>2, <1>3, CoreStep

LEMMA MatchingNext ==
    ASSUME LifeInv, MatchingInv, HasHandlers => CallsApart, (HasHandlers => CallsApart)',
           [LifeNext]_lifeVars
    PROVE  MatchingInv'
<1> SUFFICES ASSUME HasHandlers' PROVE SyncInv' /\ OpInv' /\ MatchInv'
  BY DEF MatchingInv
<1>1. HasHandlers /\ [Next]_vars
  BY HandlersStep
<1>2. IInv /\ SyncInv /\ OpInv /\ MatchInv /\ CallsApart /\ CallsApart' /\ TypeOK
  BY <1>1 DEF LifeInv, LifeTypeOK, MatchingInv
<1> QED
  BY <1>1, <1>2, NextSync, NextOp, NextMatch

\* With no client registered when the io threads are joined, no source is wanted,
\* and every source that was stopped has been joined.
LEMMA NobodyWantsSources ==
    ASSUME LifeInv, MatchingInv, phase = "joined", clients = {}
    PROVE  NoSourceThreads
<1>1. IInv /\ OpInv /\ MatchInv /\ \A c \in Conns : pc[c] \notin Running
  BY DEF LifeInv, MatchingInv, HasHandlers
<1>2. {ch \in Sources : entry[ch]} = Wanted \cap Sources
  BY <1>1 DEF MatchInv, AfterSnap
<1>3. Wanted = {}
  BY DEF Wanted, NeededChannels
<1>4. \A ch \in Sources : ~entry[ch] /\ call[ch] = "none"
  BY <1>2, <1>3, <1>1, JoinedIsQuiet DEF IInv, TypeOK
<1> QED
  BY <1>1, <1>4 DEF IInv, StoppedMeansJoined, NoSourceThreads

\* A server that nobody watches shuts down cleanly: if no client is registered
\* when run() has joined the io threads, and no two calls of add and remove have
\* overlapped, no source thread is left to log.
THEOREM CleanWithoutClients ==
    LifeSpec /\ [](HasHandlers => CallsApart) /\ [](phase = "joined" => clients = {})
        => []ShutsDownCleanly
<1>1. LifeInit => MatchingInv
  BY InitSync DEF LifeInit, Init, SyncInv, MatchingInv, OpInv, InCall, MatchInv, AfterSnap, Wanted,
      NeededChannels
<1>2. /\ LifeInv /\ MatchingInv /\ [LifeNext]_lifeVars
      /\ (HasHandlers => CallsApart) /\ (HasHandlers => CallsApart)'
      => MatchingInv'
  BY MatchingNext
<1>3. LifeInv /\ MatchingInv /\ (phase = "joined" => clients = {})
        => (phase = "joined" => NoSourceThreads)
  BY NobodyWantsSources
<1> QED
  BY <1>1, <1>2, <1>3, LifeInvariance, CleanWithoutSources, PTL DEF LifeSpec

LEMMA OneHandlerLives ==
    ASSUME IoThreads = 1
    PROVE  LifeSpec => [](HasHandlers => CallsApart)
<1> DEFINE Inv == HasHandlers => OneHandler /\ OpInv
<1>1. LifeInit => Inv
  BY DEF LifeInit, Init, OneHandler, Handlers, OpInv, InCall
<1>2. LifeTypeOK /\ Inv /\ [LifeNext]_lifeVars => Inv'
  <2> SUFFICES ASSUME LifeTypeOK, Inv, [LifeNext]_lifeVars, HasHandlers' PROVE (OneHandler /\ OpInv)'
    OBVIOUS
  <2>1. HasHandlers /\ [Next]_vars
    BY HandlersStep
  <2> QED
    BY <2>1, NextOneHandler, NextOp DEF LifeTypeOK
<1>3. Inv => (HasHandlers => CallsApart)
  BY DEF OneHandler, Handlers, OpInv, InCall, CallsApart, NoFault
<1> QED
  BY <1>1, <1>2, <1>3, LifeTypeCorrect, PTL DEF LifeSpec

\* On one io thread, only a client that is still registered can keep the process
\* from shutting down cleanly.
THEOREM OneThreadCleanWithoutClients ==
    ASSUME IoThreads = 1
    PROVE  LifeSpec /\ [](phase = "joined" => clients = {}) => []ShutsDownCleanly
BY OneHandlerLives, CleanWithoutClients, PTL
==============================================================================
