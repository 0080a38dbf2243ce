------------------------- MODULE StreamManagerProofs -------------------------
(***************************************************************************)
(* Proofs about the streaming core, for any set of connections, any number *)
(* of io threads and any session limit.                                    *)
(*                                                                         *)
(* IInv is the inductive invariant.  It says what each lock protects:      *)
(*   OwnerInv   sourceMutex_'s owner is the one handler inside syncSources *)
(*              and the only caller of a source, whose entry it has set;   *)
(*   MutexInv   mutex_'s holder is in its callback, and the clients it has *)
(*              still to write are registered;                             *)
(*   ClientInv  clients_ holds the connections between add and remove.     *)
(***************************************************************************)
EXTENDS StreamManager, FiniteSetTheorems, TLAPS

OwnerInv ==
    /\ \A c \in Conns : pc[c] \in {"sync", "start", "stop"} <=> srcOwner = c
    /\ \A ch \in Sources : call[ch] # "none" =>
          /\ Visiting(ch)
          /\ \E c \in Conns : srcOwner = c /\ pc[c] = call[ch]
    /\ \A c \in Conns : pc[c] \in {"start", "stop"} =>
          \E ch \in Sources : Visiting(ch) /\ call[ch] = pc[c]
    /\ \A ch \in Sources : call[ch] = "start" => entry[ch]
    /\ \A ch \in Sources : call[ch] = "stop" => ~entry[ch]

MutexInv ==
    /\ \A ch \in Sources : mutex = ch => thread[ch] = "callback"
    /\ mutex = None => writing = None /\ pending = {}
    /\ BroadcastToRegistered

ClientInv ==
    /\ DanglesOnlyAfterFault
    /\ \A c \in Conns : pc[c] = "adding" => op[c] = "add"
    /\ \A c \in Conns : op[c] = "remove" /\ pc[c] # "removing" => c \notin clients

IInv == TypeOK /\ OwnerInv /\ MutexInv /\ ClientInv /\ StoppedMeansJoined

-----------------------------------------------------------------------------
(* Type correctness.                                                       *)

USE DEF Waiting, Running, PCs, ThreadStates

LEMMA NeededType ==
    ASSUME NEW registered, NEW views
    PROVE  NeededChannels(registered, views) \in SUBSET {0, 1}
BY DEF NeededChannels, ChannelsOf

LEMMA DestroyedType ==
    ASSUME TypeOK, NEW c \in Conns, Destroyed(c)
    PROVE  /\ pc' \in [Conns -> PCs]
           /\ view' \in [Conns -> Views \cup {None}]
           /\ op' \in [Conns -> {"none", "add", "remove"}]
           /\ peer' \in [Conns -> {"reads", "stalled", "closed"}]
BY DEF TypeOK, Destroyed

\* A handler's steps up to the first critical section, and the peer's.
LEMMA TypeConn ==
    ASSUME TypeOK, ClientViews \subseteq Views, NEW c \in Conns,
           \/ \E v \in ClientViews : Upgrade(c, v)
           \/ Accepted(c) \/ AcceptFails(c) \/ ReadFails(c) \/ MutexStep(c)
           \/ PeerStalls(c) \/ PeerResumes(c) \/ PeerCloses(c)
    PROVE  TypeOK'
<1> USE DEF TypeOK, SourceTypeOK, sourceVars, mgrVars, sendVars
<1>1. CASE \E v \in ClientViews : Upgrade(c, v)
  BY <1>1 DEF Upgrade, Calls
<1>2. CASE Accepted(c)
  BY <1>2 DEF Accepted, Calls
<1>3. CASE AcceptFails(c)
  BY <1>3, DestroyedType DEF AcceptFails
<1>4. CASE ReadFails(c)
  BY <1>4 DEF ReadFails, Calls
<1>5. CASE Refuse(c)
  BY <1>5, DestroyedType DEF Refuse
<1>6. CASE Admit(c)
  BY <1>6 DEF Admit
<1>7. CASE AddClient(c)
  BY <1>7, NeededType DEF AddClient, Registers
<1>8. CASE RemoveClient(c)
  BY <1>8, NeededType DEF RemoveClient, Registers
<1>9. CASE PeerStalls(c) \/ PeerResumes(c) \/ PeerCloses(c)
  BY <1>9 DEF PeerStalls, PeerResumes, PeerCloses, PeerTurns
<1> QED
  BY <1>1, <1>2, <1>3, <1>4, <1>5, <1>6, <1>7, <1>8, <1>9 DEF MutexStep

\* The second critical section: syncSources and its calls on the sources.
LEMMA TypeSync ==
    ASSUME TypeOK, IoThreads \in Nat, NEW c \in Conns,
           LockSources(c) \/ SyncStep(c) \/ \E ch \in Sources : SpawnThrows(c, ch)
    PROVE  TypeOK'
<1> USE DEF TypeOK, SourceTypeOK, sourceVars, mgrVars, sendVars
<1>1. CASE LockSources(c)
  BY <1>1 DEF LockSources
<1>2. ASSUME NEW ch \in Sources, SourceInLine(c, ch) PROVE TypeOK'
  BY <1>2 DEF SourceInLine, Visits, connVars
<1>3. ASSUME NEW ch \in Sources, StartSource(c, ch) PROVE TypeOK'
  BY <1>3 DEF StartSource, CallStart
<1>4. ASSUME NEW ch \in Sources, StopSource(c, ch) PROVE TypeOK'
  BY <1>4 DEF StopSource, CallStop
<1>5. ASSUME NEW ch \in Sources, SourceStarted(c, ch) PROVE TypeOK'
  BY <1>5 DEF SourceStarted, StartReturns, MovesOn
<1>6. ASSUME NEW ch \in Sources, SourceStopped(c, ch) PROVE TypeOK'
  BY <1>6 DEF SourceStopped, StopReturns, MovesOn
<1>7. CASE AddReturns(c)
  BY <1>7 DEF AddReturns
<1>8. CASE RemoveReturns(c)
  BY <1>8, DestroyedType DEF RemoveReturns
<1>9. ASSUME NEW ch \in Sources, SpawnThrows(c, ch) PROVE TypeOK'
  BY <1>9, DestroyedType DEF SpawnThrows, StartThrows
<1> QED
  BY <1>1, <1>2, <1>3, <1>4, <1>5, <1>6, <1>7, <1>8, <1>9 DEF SyncStep

\* The source threads.
LEMMA TypeSource ==
    ASSUME TypeOK, NEW ch \in Sources, SourceStep(ch)
    PROVE  TypeOK'
<1> USE DEF TypeOK, SourceTypeOK, sourceVars, mgrVars, sendVars, connVars
<1>1. CASE LoopStep(ch)
  BY <1>1 DEF LoopStep, Opened, OpenFails, FrameReady, ReadError, LoopEnds, Goes
<1>2. CASE BeginBroadcast(ch)
  BY <1>2 DEF BeginBroadcast
<1>3. CASE WriteStep(ch)
  BY <1>3 DEF WriteStep, StartWrite, EndWrite, EndBroadcast, CallbackReturns, Goes
<1> QED
  BY <1>1, <1>2, <1>3 DEF SourceStep

\* Every variable keeps its type, whatever the connections and sources do.
THEOREM TypeCorrect == Spec => []TypeOK
<1>1. Init => TypeOK
  BY StreamAssumption DEF Init, SourceInit, TypeOK, SourceTypeOK
<1>2. TypeOK /\ [Next]_vars => TypeOK'
  <2> SUFFICES ASSUME TypeOK, [Next]_vars PROVE TypeOK'
    OBVIOUS
  <2>1. ASSUME NEW c \in Conns, ConnStep(c) PROVE TypeOK'
    BY <2>1, TypeConn, TypeSync, StreamAssumption DEF ConnStep
  <2>2. ASSUME NEW ch \in Sources, SourceStep(ch) PROVE TypeOK'
    BY <2>2, TypeSource
  <2>3. CASE UNCHANGED vars
    BY <2>3 DEF vars, sourceVars, mgrVars, sendVars, connVars, TypeOK, SourceTypeOK
  <2> QED
    BY <2>1, <2>2, <2>3 DEF Next
<1> QED
  BY <1>1, <1>2, PTL DEF Spec

-----------------------------------------------------------------------------
(* The inductive invariant, step by step.                                  *)

LEMMA InitInv == Init => IInv
BY StreamAssumption DEF Init, SourceInit, IInv, TypeOK, SourceTypeOK, OwnerInv, MutexInv,
    BroadcastToRegistered, ClientInv, DanglesOnlyAfterFault, NoDanglingClient, NoFault,
    StoppedMeansJoined

\* Steps that leave the sources and both mutexes alone and move a connection
\* outside syncSources keep OwnerInv and MutexInv.
LEMMA OutsideSync ==
    ASSUME IInv, NEW c \in Conns,
           pc[c] \notin {"sync", "start", "stop"}, pc'[c] \notin {"sync", "start", "stop"},
           \A d \in Conns : d # c => pc'[d] = pc[d],
           UNCHANGED <<sourceVars, srcOwner, entry, todo>>
    PROVE  OwnerInv' /\ StoppedMeansJoined'
BY DEF IInv, OwnerInv, StoppedMeansJoined, Visiting, sourceVars, TypeOK

LEMMA InvConn ==
    ASSUME IInv, TypeOK', NEW c \in Conns,
           \/ \E v \in ClientViews : Upgrade(c, v)
           \/ Accepted(c) \/ AcceptFails(c) \/ ReadFails(c) \/ MutexStep(c)
           \/ PeerStalls(c) \/ PeerResumes(c) \/ PeerCloses(c)
    PROVE  IInv'
<1> USE DEF sourceVars, mgrVars, sendVars
<1>a. MutexInv /\ ClientInv /\ TypeOK
  BY DEF IInv
<1> DEFINE Keeps == MutexInv' /\ ClientInv'
<1> USE DEF MutexInv, BroadcastToRegistered, ClientInv, DanglesOnlyAfterFault,
            NoDanglingClient, NoFault, Registered
<1>1. ASSUME NEW v \in ClientViews, Upgrade(c, v) PROVE IInv'
  <2>1. OwnerInv' /\ StoppedMeansJoined'
    BY <1>1, OutsideSync, <1>a DEF Upgrade, Calls, TypeOK
  <2>2. Keeps
    BY <1>1, <1>a DEF Upgrade, Calls, TypeOK
  <2> QED
    BY <2>1, <2>2 DEF IInv
<1>2. CASE Accepted(c)
  <2>1. OwnerInv' /\ StoppedMeansJoined'
    BY <1>2, OutsideSync, <1>a DEF Accepted, Calls, TypeOK
  <2>2. Keeps
    BY <1>2, <1>a DEF Accepted, Calls, TypeOK
  <2> QED
    BY <2>1, <2>2 DEF IInv
<1>3. CASE AcceptFails(c)
  <2>1. OwnerInv' /\ StoppedMeansJoined'
    BY <1>3, OutsideSync, <1>a DEF AcceptFails, Destroyed, TypeOK
  <2>2. Keeps
    BY <1>3, <1>a DEF AcceptFails, Destroyed, TypeOK
  <2> QED
    BY <2>1, <2>2 DEF IInv
<1>4. CASE ReadFails(c)
  <2>1. OwnerInv' /\ StoppedMeansJoined'
    BY <1>4, OutsideSync, <1>a DEF ReadFails, Calls, TypeOK
  <2>2. Keeps
    BY <1>4, <1>a DEF ReadFails, Calls, TypeOK
  <2> QED
    BY <2>1, <2>2 DEF IInv
<1>5. CASE Refuse(c)
  <2>1. OwnerInv' /\ StoppedMeansJoined'
    BY <1>5, OutsideSync, <1>a DEF Refuse, Destroyed, TypeOK
  <2>2. Keeps
    BY <1>5, <1>a DEF Refuse, Destroyed, TypeOK
  <2> QED
    BY <2>1, <2>2 DEF IInv
<1>6. CASE Admit(c)
  <2>1. OwnerInv' /\ StoppedMeansJoined'
    BY <1>6, OutsideSync, <1>a DEF Admit, TypeOK
  <2>2. Keeps
    BY <1>6, <1>a DEF Admit, TypeOK
  <2> QED
    BY <2>1, <2>2 DEF IInv
<1>7. CASE AddClient(c)
  <2>1. OwnerInv' /\ StoppedMeansJoined'
    BY <1>7, OutsideSync, <1>a DEF AddClient, Registers, TypeOK
  <2>2. op[c] # "remove"
    BY <1>7, <1>a DEF AddClient, TypeOK
  <2>3. Keeps
    BY <1>7, <1>a, <2>2 DEF AddClient, Registers, TypeOK
  <2> QED
    BY <2>1, <2>3 DEF IInv
<1>8. CASE RemoveClient(c)
  <2>1. OwnerInv' /\ StoppedMeansJoined'
    BY <1>8, OutsideSync, <1>a DEF RemoveClient, Registers, TypeOK
  <2>2. Keeps
    BY <1>8, <1>a DEF RemoveClient, Registers, TypeOK
  <2> QED
    BY <2>1, <2>2 DEF IInv
<1>9. CASE PeerStalls(c) \/ PeerResumes(c) \/ PeerCloses(c)
  <2>1. OwnerInv' /\ StoppedMeansJoined'
    BY <1>9, <1>a DEF PeerStalls, PeerResumes, PeerCloses, PeerTurns, IInv, OwnerInv,
        StoppedMeansJoined, Visiting
  <2>2. Keeps
    BY <1>9, <1>a DEF PeerStalls, PeerResumes, PeerCloses, PeerTurns
  <2> QED
    BY <2>1, <2>2 DEF IInv
<1> QED
  BY <1>1, <1>2, <1>3, <1>4, <1>5, <1>6, <1>7, <1>8, <1>9 DEF MutexStep

LEMMA InvSync ==
    ASSUME IInv, TypeOK', NEW c \in Conns,
           LockSources(c) \/ SyncStep(c) \/ \E ch \in Sources : SpawnThrows(c, ch)
    PROVE  IInv'
<1> USE DEF sourceVars, mgrVars, sendVars
<1>a. TypeOK /\ OwnerInv /\ MutexInv /\ ClientInv /\ StoppedMeansJoined
  BY DEF IInv
<1>b. Sources \subseteq Int
  BY SourcesAssumption
<1> SUFFICES OwnerInv' /\ MutexInv' /\ ClientInv' /\ StoppedMeansJoined'
  BY DEF IInv
<1>1. CASE LockSources(c)
  <2>1. OwnerInv' /\ StoppedMeansJoined'
    BY <1>1, <1>a, StreamAssumption DEF LockSources, OwnerInv, StoppedMeansJoined, Visiting, TypeOK
  <2>2. MutexInv' /\ ClientInv'
    BY <1>1, <1>a DEF LockSources, MutexInv, ClientInv, BroadcastToRegistered,
        DanglesOnlyAfterFault, NoDanglingClient, NoFault, Registered, TypeOK
  <2> QED
    BY <2>1, <2>2
<1>2. ASSUME NEW ch \in Sources, SourceInLine(c, ch)
      PROVE  OwnerInv' /\ MutexInv' /\ ClientInv' /\ StoppedMeansJoined'
  <2>1. \A other \in Sources : call[other] = "none"
    BY <1>2, <1>a DEF SourceInLine, Visits, OwnerInv, TypeOK, SourceTypeOK
  <2>2. OwnerInv' /\ StoppedMeansJoined'
    BY <1>2, <1>a, <2>1 DEF SourceInLine, Visits, OwnerInv, StoppedMeansJoined, connVars, TypeOK
  <2>3. MutexInv' /\ ClientInv'
    BY <1>2, <1>a DEF SourceInLine, MutexInv, ClientInv, BroadcastToRegistered,
        DanglesOnlyAfterFault, NoDanglingClient, NoFault, connVars
  <2> QED
    BY <2>2, <2>3
<1>3. ASSUME NEW ch \in Sources, StartSource(c, ch)
      PROVE  OwnerInv' /\ MutexInv' /\ ClientInv' /\ StoppedMeansJoined'
  <2>1. \A other \in Sources : call[other] = "none"
    BY <1>3, <1>a DEF StartSource, Visits, OwnerInv, TypeOK, SourceTypeOK
  <2>2. OwnerInv' /\ StoppedMeansJoined'
    BY <1>3, <1>a, <2>1 DEF StartSource, CallStart, Visits, Visiting, OwnerInv,
        StoppedMeansJoined, TypeOK, SourceTypeOK
  <2>3. MutexInv' /\ ClientInv'
    BY <1>3, <1>a DEF StartSource, CallStart, Visits, MutexInv, ClientInv, BroadcastToRegistered,
        DanglesOnlyAfterFault, NoDanglingClient, NoFault, Registered, TypeOK
  <2> QED
    BY <2>2, <2>3
<1>4. ASSUME NEW ch \in Sources, StopSource(c, ch)
      PROVE  OwnerInv' /\ MutexInv' /\ ClientInv' /\ StoppedMeansJoined'
  <2>1. \A other \in Sources : call[other] = "none"
    BY <1>4, <1>a DEF StopSource, Visits, OwnerInv, TypeOK, SourceTypeOK
  <2>2. OwnerInv' /\ StoppedMeansJoined'
    BY <1>4, <1>a, <2>1 DEF StopSource, CallStop, Visits, Visiting, OwnerInv,
        StoppedMeansJoined, TypeOK, SourceTypeOK
  <2>3. MutexInv' /\ ClientInv'
    BY <1>4, <1>a DEF StopSource, CallStop, Visits, MutexInv, ClientInv, BroadcastToRegistered,
        DanglesOnlyAfterFault, NoDanglingClient, NoFault, Registered, TypeOK
  <2> QED
    BY <2>2, <2>3
<1>5. ASSUME NEW ch \in Sources, SourceStarted(c, ch)
      PROVE  OwnerInv' /\ MutexInv' /\ ClientInv' /\ StoppedMeansJoined'
  <2>1. \A other \in Sources : other # ch => call[other] = "none"
    BY <1>5, <1>a, <1>b DEF SourceStarted, MovesOn, Visiting, OwnerInv, TypeOK, SourceTypeOK
  <2>2. OwnerInv' /\ StoppedMeansJoined'
    BY <1>5, <1>a, <2>1 DEF SourceStarted, StartReturns, MovesOn, OwnerInv,
        StoppedMeansJoined, TypeOK, SourceTypeOK
  <2>3. MutexInv' /\ ClientInv'
    BY <1>5, <1>a DEF SourceStarted, StartReturns, Joined, MovesOn, MutexInv, ClientInv,
        BroadcastToRegistered, DanglesOnlyAfterFault, NoDanglingClient, NoFault, Registered,
        TypeOK, SourceTypeOK
  <2> QED
    BY <2>2, <2>3
<1>6. ASSUME NEW ch \in Sources, SourceStopped(c, ch)
      PROVE  OwnerInv' /\ MutexInv' /\ ClientInv' /\ StoppedMeansJoined'
  <2>1. \A other \in Sources : other # ch => call[other] = "none"
    BY <1>6, <1>a, <1>b DEF SourceStopped, MovesOn, Visiting, OwnerInv, TypeOK, SourceTypeOK
  <2>2. OwnerInv' /\ StoppedMeansJoined'
    BY <1>6, <1>a, <2>1 DEF SourceStopped, StopReturns, MovesOn, OwnerInv,
        StoppedMeansJoined, TypeOK, SourceTypeOK
  <2>3. MutexInv' /\ ClientInv'
    BY <1>6, <1>a DEF SourceStopped, StopReturns, Joined, MovesOn, MutexInv, ClientInv,
        BroadcastToRegistered, DanglesOnlyAfterFault, NoDanglingClient, NoFault, Registered,
        TypeOK, SourceTypeOK
  <2> QED
    BY <2>2, <2>3
<1>7. CASE AddReturns(c)
  <2>1. \A other \in Sources : call[other] = "none"
    BY <1>7, <1>a DEF AddReturns, Visiting, OwnerInv
  <2>2. OwnerInv' /\ StoppedMeansJoined'
    BY <1>7, <1>a, <2>1, StreamAssumption DEF AddReturns, OwnerInv, StoppedMeansJoined, TypeOK
  <2>3. MutexInv' /\ ClientInv'
    BY <1>7, <1>a DEF AddReturns, MutexInv, ClientInv, BroadcastToRegistered,
        DanglesOnlyAfterFault, NoDanglingClient, NoFault, Registered, TypeOK
  <2> QED
    BY <2>2, <2>3
<1>8. CASE RemoveReturns(c)
  <2>1. \A other \in Sources : call[other] = "none"
    BY <1>8, <1>a DEF RemoveReturns, Visiting, OwnerInv
  <2>2. OwnerInv' /\ StoppedMeansJoined'
    BY <1>8, <1>a, <2>1, StreamAssumption DEF RemoveReturns, Destroyed, OwnerInv,
        StoppedMeansJoined, TypeOK
  <2>3. MutexInv' /\ ClientInv'
    BY <1>8, <1>a DEF RemoveReturns, Destroyed, MutexInv, ClientInv, BroadcastToRegistered,
        DanglesOnlyAfterFault, NoDanglingClient, NoFault, Registered, TypeOK
  <2> QED
    BY <2>2, <2>3
<1>9. ASSUME NEW ch \in Sources, SpawnThrows(c, ch)
      PROVE  OwnerInv' /\ MutexInv' /\ ClientInv' /\ StoppedMeansJoined'
  <2>1. \A other \in Sources : other # ch => call[other] = "none"
    BY <1>9, <1>a, <1>b DEF SpawnThrows, Visiting, OwnerInv, TypeOK, SourceTypeOK
  <2>2. OwnerInv' /\ StoppedMeansJoined'
    BY <1>9, <1>a, <2>1, StreamAssumption DEF SpawnThrows, StartThrows, Destroyed, OwnerInv,
        StoppedMeansJoined, TypeOK, SourceTypeOK
  <2>3. ~NoFault'
    BY <1>9, <1>a, StreamAssumption DEF SpawnThrows, NoFault, TypeOK
  <2>4. MutexInv'
    BY <1>9, <1>a DEF SpawnThrows, StartThrows, Joined, MutexInv, BroadcastToRegistered,
        TypeOK, SourceTypeOK
  <2>5. ClientInv'
    BY <1>9, <1>a, <2>3 DEF SpawnThrows, Destroyed, ClientInv, DanglesOnlyAfterFault, TypeOK
  <2> QED
    BY <2>2, <2>4, <2>5
<1> QED
  BY <1>1, <1>2, <1>3, <1>4, <1>5, <1>6, <1>7, <1>8, <1>9 DEF SyncStep

LEMMA InvSource ==
    ASSUME IInv, TypeOK', NEW ch \in Sources, SourceStep(ch)
    PROVE  IInv'
<1> USE DEF sourceVars, mgrVars, sendVars, connVars
<1>a. TypeOK /\ OwnerInv /\ MutexInv /\ ClientInv /\ StoppedMeansJoined
  BY DEF IInv
<1>1. OwnerInv' /\ ClientInv'
  BY <1>a DEF SourceStep, LoopStep, Opened, OpenFails, FrameReady, ReadError, LoopEnds, Goes,
      BeginBroadcast, WriteStep, StartWrite, EndWrite, EndBroadcast, CallbackReturns,
      OwnerInv, ClientInv, Visiting, DanglesOnlyAfterFault, NoDanglingClient, NoFault
<1>2. CASE LoopStep(ch)
  <2>1. thread[ch] # "none" /\ thread[ch] # "callback" /\ thread'[ch] # "none"
    BY <1>2, <1>a DEF LoopStep, Opened, OpenFails, FrameReady, ReadError, LoopEnds, Goes,
        TypeOK, SourceTypeOK
  <2>2. /\ \A other \in Sources : other # ch => thread'[other] = thread[other]
        /\ UNCHANGED <<call, entry, mutex, writing, pending, clients>>
    BY <1>2, <1>a DEF LoopStep, Opened, OpenFails, FrameReady, ReadError, LoopEnds, Goes,
        TypeOK, SourceTypeOK
  <2> QED
    BY <1>a, <1>1, <2>1, <2>2 DEF IInv, MutexInv, BroadcastToRegistered, StoppedMeansJoined
<1>3. CASE BeginBroadcast(ch)
  BY <1>3, <1>a, <1>1, StreamAssumption DEF BeginBroadcast, IInv, MutexInv, BroadcastToRegistered,
      StoppedMeansJoined
<1>4. ASSUME NEW c \in Conns, StartWrite(ch, c) PROVE IInv'
  BY <1>4, <1>a, <1>1, StreamAssumption DEF StartWrite, IInv, MutexInv, BroadcastToRegistered,
      StoppedMeansJoined
<1>5. CASE EndWrite(ch)
  BY <1>5, <1>a, <1>1, StreamAssumption DEF EndWrite, IInv, MutexInv, BroadcastToRegistered,
      StoppedMeansJoined
<1>6. CASE EndBroadcast(ch)
  BY <1>6, <1>a, <1>1, StreamAssumption DEF EndBroadcast, CallbackReturns, Goes, IInv, MutexInv,
      BroadcastToRegistered, StoppedMeansJoined, TypeOK, SourceTypeOK
<1> QED
  BY <1>2, <1>3, <1>4, <1>5, <1>6 DEF SourceStep, WriteStep

LEMMA NextInv == IInv /\ [Next]_vars => IInv'
<1> SUFFICES ASSUME IInv, [Next]_vars PROVE IInv'
  OBVIOUS
<1>1. ASSUME NEW c \in Conns, ConnStep(c) PROVE IInv'
  BY <1>1, InvConn, InvSync, TypeConn, TypeSync, StreamAssumption DEF ConnStep, IInv
<1>2. ASSUME NEW ch \in Sources, SourceStep(ch) PROVE IInv'
  BY <1>2, InvSource, TypeSource DEF IInv
<1>3. CASE UNCHANGED vars
  BY <1>3 DEF vars, sourceVars, mgrVars, sendVars, connVars, IInv, TypeOK, SourceTypeOK, OwnerInv,
      Visiting, MutexInv, BroadcastToRegistered, ClientInv, DanglesOnlyAfterFault,
      NoDanglingClient, NoFault, StoppedMeansJoined
<1> QED
  BY <1>1, <1>2, <1>3 DEF Next

LEMMA Invariance == Spec => []IInv
BY InitInv, NextInv, PTL DEF Spec

-----------------------------------------------------------------------------
(* What follows from it.                                                   *)

\* A broadcast never writes to a client that has been erased from clients_.
THEOREM BroadcastIsSafe == Spec => []BroadcastToRegistered
<1>1. IInv => BroadcastToRegistered
  BY DEF IInv, MutexInv
<1> QED
  BY <1>1, Invariance, PTL

\* The raw pointers in clients_ stay valid until an exception escapes a handler.
THEOREM PointersStayValid == Spec => []DanglesOnlyAfterFault
<1>1. IInv => DanglesOnlyAfterFault
  BY DEF IInv, ClientInv
<1> QED
  BY <1>1, Invariance, PTL

\* A stopped source has been joined: no std::thread is assigned while joinable.
THEOREM StopJoins == Spec => []StoppedMeansJoined
<1>1. IInv => StoppedMeansJoined
  BY DEF IInv
<1> QED
  BY <1>1, Invariance, PTL

\* Only the owner of sourceMutex_ is inside start() or stop() of a source.
THEOREM CallsAreExclusive == Spec => []SourceCallsExclusive
<1>1. IInv => SourceCallsExclusive
  BY DEF IInv, OwnerInv, SourceCallsExclusive
<1> QED
  BY <1>1, Invariance, PTL

\* The two mutexes, the joins and the blocking writes never close a circle of
\* threads that wait for one another.
THEOREM NoDeadlock == Spec => []NoWaitCycle
<1>1. ASSUME IInv PROVE NoWaitCycle
  <2> SUFFICES ASSUME NEW S \in SUBSET (Conns \cup Sources), S # {},
                      \A a \in S : \E b \in S : WaitsFor(a, b)
               PROVE  FALSE
    BY DEF NoWaitCycle
  <2>1. TypeOK /\ OwnerInv /\ MutexInv
    BY <1>1 DEF IInv
  \* A source thread waits for the broadcasting one, which waits for nobody.
  <2>2. S \cap Sources = {}
    <3> SUFFICES ASSUME NEW a \in S, a \in Sources PROVE FALSE
      OBVIOUS
    <3>1. PICK b \in S : mutex = b /\ b # a
      BY StreamAssumption DEF WaitsFor
    <3>2. b \in Sources
      BY <3>1, <2>1, StreamAssumption DEF TypeOK
    <3>3. PICK d \in S : WaitsFor(b, d)
      OBVIOUS
    <3> QED
      BY <3>1, <3>2, <3>3, StreamAssumption DEF WaitsFor
  \* So everyone is a handler that waits for sourceMutex_, and so is its owner.
  <2>3. \A a \in S : pc[a] = "wait" /\ srcOwner \in S
    BY <2>1, <2>2, StreamAssumption DEF WaitsFor, TypeOK
  <2> QED
    BY <2>1, <2>2, <2>3 DEF OwnerInv
<1> QED
  BY <1>1, Invariance, PTL

-----------------------------------------------------------------------------
(* What sourceMutex_ buys: a caller's target reached at its release.       *)

SyncInv == \A c \in Conns : srcOwner = c =>
    \A ch \in Sources :
        /\ ch \notin todo => (entry[ch] <=> ch \in needed[c])
        /\ call[ch] = "start" => ch \in needed[c]
        /\ call[ch] = "stop" => ch \notin needed[c]

LEMMA NoneOwnsNothing == \A c \in Conns : c # None
BY StreamAssumption

LEMMA InitSync == Init => SyncInv
<1> SUFFICES ASSUME Init, NEW c \in Conns, srcOwner = c PROVE FALSE
  BY DEF SyncInv
<1> QED
  BY NoneOwnsNothing DEF Init

\* Outside the second critical section nobody touches what SyncInv is about.
LEMMA SyncInvElsewhere ==
    ASSUME IInv, SyncInv, UNCHANGED <<srcOwner, entry, todo, call>>,
           \A c \in Conns : srcOwner = c => needed'[c] = needed[c]
    PROVE  SyncInv'
BY DEF SyncInv

LEMMA NextSync == IInv /\ SyncInv /\ [Next]_vars => SyncInv'
<1> SUFFICES ASSUME IInv, SyncInv, [Next]_vars PROVE SyncInv'
  OBVIOUS
<1> USE DEF sourceVars, mgrVars, sendVars, connVars
<1>a. TypeOK /\ OwnerInv
  BY DEF IInv
<1>b. Sources \subseteq Int
  BY SourcesAssumption
<1>1. ASSUME NEW c \in Conns,
             \/ \E v \in ClientViews : Upgrade(c, v)
             \/ Accepted(c) \/ AcceptFails(c) \/ ReadFails(c) \/ MutexStep(c)
             \/ PeerStalls(c) \/ PeerResumes(c) \/ PeerCloses(c)
      PROVE  SyncInv'
  <2>1. UNCHANGED <<srcOwner, entry, todo, call>>
    BY <1>1 DEF Upgrade, Accepted, AcceptFails, ReadFails, MutexStep, Calls, Refuse, Admit,
        AddClient, RemoveClient, Registers, PeerStalls, PeerResumes, PeerCloses, PeerTurns
  <2>2. \A d \in Conns : srcOwner = d => needed'[d] = needed[d]
    <3>1. UNCHANGED needed \/ AddClient(c) \/ RemoveClient(c)
      BY <1>1 DEF Upgrade, Accepted, AcceptFails, ReadFails, MutexStep, Calls, Refuse, Admit,
          PeerStalls, PeerResumes, PeerCloses, PeerTurns
    <3>2. CASE AddClient(c) \/ RemoveClient(c)
      BY <3>2, <1>a DEF AddClient, RemoveClient, Registers, OwnerInv, TypeOK
    <3> QED
      BY <3>1, <3>2
  <2> QED
    BY <2>1, <2>2, SyncInvElsewhere
<1>2. ASSUME NEW c \in Conns, LockSources(c) PROVE SyncInv'
  BY <1>2, <1>a, NoneOwnsNothing DEF LockSources, SyncInv, Visiting, OwnerInv, TypeOK, SourceTypeOK
<1>3. ASSUME NEW c \in Conns, NEW ch \in Sources, SourceInLine(c, ch) PROVE SyncInv'
  BY <1>3, <1>a DEF SourceInLine, Visits, SyncInv, OwnerInv, TypeOK
<1>4. ASSUME NEW c \in Conns, NEW ch \in Sources, StartSource(c, ch) PROVE SyncInv'
  BY <1>4, <1>a DEF StartSource, CallStart, Visits, Visiting, SyncInv, OwnerInv, TypeOK, SourceTypeOK
<1>5. ASSUME NEW c \in Conns, NEW ch \in Sources, StopSource(c, ch) PROVE SyncInv'
  BY <1>5, <1>a DEF StopSource, CallStop, Visits, Visiting, SyncInv, OwnerInv, TypeOK, SourceTypeOK
<1>6. ASSUME NEW c \in Conns, NEW ch \in Sources, SourceStarted(c, ch) PROVE SyncInv'
  BY <1>6, <1>a DEF SourceStarted, StartReturns, MovesOn, SyncInv, OwnerInv, TypeOK, SourceTypeOK
<1>7. ASSUME NEW c \in Conns, NEW ch \in Sources, SourceStopped(c, ch) PROVE SyncInv'
  BY <1>7, <1>a DEF SourceStopped, StopReturns, MovesOn, SyncInv, OwnerInv, TypeOK, SourceTypeOK
<1>8. ASSUME NEW c \in Conns,
             AddReturns(c) \/ RemoveReturns(c) \/ \E ch \in Sources : SpawnThrows(c, ch)
      PROVE  SyncInv'
  BY <1>8, StreamAssumption DEF AddReturns, RemoveReturns, SpawnThrows, SyncInv
<1>9. ASSUME NEW ch \in Sources, SourceStep(ch) PROVE SyncInv'
  BY <1>9, SyncInvElsewhere DEF SourceStep, LoopStep, Opened, OpenFails, FrameReady, ReadError,
      LoopEnds, Goes, BeginBroadcast, WriteStep, StartWrite, EndWrite, EndBroadcast, CallbackReturns
<1>10. CASE UNCHANGED vars
  BY <1>10, SyncInvElsewhere DEF vars
<1> QED
  BY <1>1, <1>2, <1>3, <1>4, <1>5, <1>6, <1>7, <1>8, <1>9, <1>10 DEF Next, ConnStep, SyncStep

\* Whoever releases sourceMutex_ leaves running exactly the sources its own
\* snapshot of clients_ asked for.
THEOREM SyncIsExact == Spec => SyncReachesSnapshot
<1> DEFINE Exact == \A c \in Conns :
        srcOwner = c /\ srcOwner' = None /\ ioThreads' = ioThreads =>
            {ch \in Sources : entry'[ch]} = needed[c] \cap Sources
<1>1. ASSUME IInv, SyncInv, Next PROVE Exact
  <2> SUFFICES ASSUME NEW c \in Conns, srcOwner = c, srcOwner' = None, ioThreads' = ioThreads
               PROVE  {ch \in Sources : entry'[ch]} = needed[c] \cap Sources
    BY DEF Exact
  <2>a. srcOwner' # srcOwner
    BY NoneOwnsNothing
  <2>b. ASSUME NEW ch \in Sources, SourceStep(ch) PROVE FALSE
    BY <2>a, <2>b DEF SourceStep, LoopStep, BeginBroadcast, WriteStep, StartWrite, EndWrite,
        EndBroadcast, mgrVars
  <2>c. ASSUME NEW d \in Conns,
               \/ \E v \in ClientViews : Upgrade(d, v)
               \/ Accepted(d) \/ AcceptFails(d) \/ ReadFails(d) \/ MutexStep(d)
               \/ PeerStalls(d) \/ PeerResumes(d) \/ PeerCloses(d)
        PROVE  FALSE
    BY <2>a, <2>c DEF Upgrade, Accepted, AcceptFails, ReadFails, MutexStep, Refuse, Admit,
        AddClient, RemoveClient, Registers, PeerStalls, PeerResumes, PeerCloses, PeerTurns, mgrVars
  <2>d. ASSUME NEW d \in Conns, LockSources(d) PROVE FALSE
    BY <2>d, NoneOwnsNothing DEF LockSources
  <2>e. ASSUME NEW d \in Conns, NEW ch \in Sources,
               \/ SourceInLine(d, ch) \/ StartSource(d, ch) \/ StopSource(d, ch)
               \/ SourceStarted(d, ch) \/ SourceStopped(d, ch)
        PROVE  FALSE
    BY <2>a, <2>e DEF SourceInLine, StartSource, StopSource, SourceStarted, SourceStopped, MovesOn
  <2>f. ASSUME NEW d \in Conns, NEW ch \in Sources, SpawnThrows(d, ch) PROVE FALSE
    BY <2>f, <1>1 DEF SpawnThrows, IInv, TypeOK
  <2>1. PICK d \in Conns : AddReturns(d) \/ RemoveReturns(d)
    BY <1>1, <2>b, <2>c, <2>d, <2>e, <2>f DEF Next, ConnStep, SyncStep
  <2>2. todo = {} /\ UNCHANGED entry
    BY <2>1 DEF AddReturns, RemoveReturns
  <2> QED
    BY <1>1, <2>2 DEF SyncInv
<1>2. ASSUME IInv, SyncInv, UNCHANGED vars PROVE Exact
  BY <1>2, StreamAssumption DEF vars, mgrVars
<1>3. IInv /\ SyncInv /\ [Next]_vars => [Exact]_vars
  BY <1>1, <1>2
<1>4. Spec => [][Exact]_vars
  BY <1>3, Invariance, InitSync, NextSync, PTL DEF Spec
<1> QED
  BY <1>4 DEF SyncReachesSnapshot

-----------------------------------------------------------------------------
(* Calls that do not overlap: the sources match the clients.               *)

\* Where a connection's handler is while it is inside add or remove, and where
\* it is from its snapshot of the channels to the release of sourceMutex_.
InCall    == {"adding", "removing", "wait", "sync", "start", "stop"}
AfterSnap == {"wait", "sync", "start", "stop"}

OpInv == \A c \in Conns : op[c] # "none" <=> pc[c] \in InCall

Wanted == NeededChannels(clients, view)

\* A snapshot stays true until its call has brought the sources in line, and
\* they stay so until the next snapshot.
MatchInv ==
    /\ \A c \in Conns : pc[c] \in AfterSnap => needed[c] = Wanted
    /\ (\A c \in Conns : pc[c] \notin AfterSnap) =>
           {ch \in Sources : entry[ch]} = Wanted \cap Sources

LEMMA NextOp == TypeOK /\ OpInv /\ [Next]_vars => OpInv'
<1> SUFFICES ASSUME TypeOK, OpInv, [Next]_vars PROVE OpInv'
  OBVIOUS
<1> USE DEF TypeOK, OpInv, InCall
<1>1. ASSUME NEW c \in Conns, NEW v \in ClientViews, Upgrade(c, v) PROVE OpInv'
  BY <1>1 DEF Upgrade, Calls
<1>2. ASSUME NEW c \in Conns, Accepted(c) \/ ReadFails(c) PROVE OpInv'
  BY <1>2 DEF Accepted, ReadFails, Calls
<1>3. ASSUME NEW c \in Conns, AcceptFails(c) \/ MutexStep(c) PROVE OpInv'
  BY <1>3 DEF AcceptFails, MutexStep, Refuse, Admit, AddClient, RemoveClient, Registers, Destroyed
<1>4. ASSUME NEW c \in Conns, PeerStalls(c) \/ PeerResumes(c) \/ PeerCloses(c) PROVE OpInv'
  BY <1>4 DEF PeerStalls, PeerResumes, PeerCloses, PeerTurns
<1>5. ASSUME NEW c \in Conns, LockSources(c) \/ AddReturns(c) \/ RemoveReturns(c) PROVE OpInv'
  BY <1>5 DEF LockSources, AddReturns, RemoveReturns, Destroyed
<1>6. ASSUME NEW c \in Conns, NEW ch \in Sources,
             SourceInLine(c, ch) \/ StartSource(c, ch) \/ StopSource(c, ch)
      PROVE  OpInv'
  BY <1>6 DEF SourceInLine, StartSource, StopSource, Visits, connVars
<1>7. ASSUME NEW c \in Conns, NEW ch \in Sources,
             SourceStarted(c, ch) \/ SourceStopped(c, ch) \/ SpawnThrows(c, ch)
      PROVE  OpInv'
  BY <1>7 DEF SourceStarted, SourceStopped, MovesOn, SpawnThrows, Destroyed
<1>8. ASSUME NEW ch \in Sources, SourceStep(ch) PROVE OpInv'
  BY <1>8 DEF SourceStep, LoopStep, BeginBroadcast, WriteStep, StartWrite, EndWrite,
      EndBroadcast, connVars
<1>9. CASE UNCHANGED vars
  BY <1>9 DEF vars, connVars
<1> QED
  BY <1>1, <1>2, <1>3, <1>4, <1>5, <1>6, <1>7, <1>8, <1>9 DEF Next, ConnStep, SyncStep

LEMMA OpInvariant == Spec => []OpInv
<1>1. Init => OpInv
  BY DEF Init, OpInv, InCall
<1> QED
  BY <1>1, NextOp, TypeCorrect, PTL DEF Spec

\* The view of a connection that is not registered does not matter.
LEMMA SameViewsSameNeed ==
    ASSUME NEW registered, NEW v, NEW w, \A c \in registered : v[c] = w[c]
    PROVE  NeededChannels(registered, v) = NeededChannels(registered, w)
BY DEF NeededChannels

\* A step that neither registers nor touches an entry, and leaves every handler
\* on its side of the snapshot.
LEMMA MatchElsewhere ==
    ASSUME MatchInv, UNCHANGED <<clients, entry>>,
           \A c \in clients : view'[c] = view[c],
           \A c \in Conns : pc'[c] \in AfterSnap <=> pc[c] \in AfterSnap,
           \A c \in Conns : pc[c] \in AfterSnap => needed'[c] = needed[c]
    PROVE  MatchInv'
<1>1. Wanted' = Wanted
  BY SameViewsSameNeed DEF Wanted
<1> QED
  BY <1>1 DEF MatchInv

LEMMA NextMatch ==
    ASSUME IInv, SyncInv, OpInv, CallsApart, CallsApart', MatchInv, [Next]_vars
    PROVE  MatchInv'
<1>a. TypeOK /\ OwnerInv /\ ClientInv
  BY DEF IInv
<1>1. ASSUME NEW c \in Conns, NEW v \in ClientViews, Upgrade(c, v) PROVE MatchInv'
  BY <1>1, <1>a, MatchElsewhere DEF Upgrade, Calls, mgrVars, AfterSnap, TypeOK
<1>2. ASSUME NEW c \in Conns, Accepted(c) \/ ReadFails(c) PROVE MatchInv'
  BY <1>2, <1>a, MatchElsewhere DEF Accepted, ReadFails, Calls, mgrVars, AfterSnap, TypeOK
<1>3. ASSUME NEW c \in Conns, AcceptFails(c) \/ Refuse(c) \/ Admit(c) PROVE MatchInv'
  BY <1>3, <1>a, MatchElsewhere DEF AcceptFails, Refuse, Admit, Destroyed, mgrVars, AfterSnap, TypeOK
<1>4. ASSUME NEW c \in Conns, PeerStalls(c) \/ PeerResumes(c) \/ PeerCloses(c) PROVE MatchInv'
  BY <1>4, MatchElsewhere DEF PeerStalls, PeerResumes, PeerCloses, PeerTurns, mgrVars
\* The one call in progress takes its snapshot.
<1>5. ASSUME NEW c \in Conns, AddClient(c) \/ RemoveClient(c) PROVE MatchInv'
  <2>1. /\ needed'[c] = NeededChannels(clients', view) /\ view' = view
        /\ pc'[c] = "wait" /\ UNCHANGED op
    BY <1>5, <1>a DEF AddClient, RemoveClient, Registers, TypeOK
  <2>2. op[c] # "none"
    BY <1>5 DEF AddClient, RemoveClient, OpInv, InCall
  <2>3. \A d \in Conns : d # c => pc'[d] = pc[d] /\ pc[d] \notin AfterSnap
    BY <1>5, <1>a, <2>2 DEF AddClient, RemoveClient, Registers, CallsApart, OpInv, InCall,
        AfterSnap, TypeOK
  <2>4. needed'[c] = Wanted'
    BY <2>1 DEF Wanted
  <2> QED
    BY <2>1, <2>3, <2>4 DEF MatchInv, AfterSnap
<1>6. ASSUME NEW c \in Conns, LockSources(c) PROVE MatchInv'
  BY <1>6, <1>a, MatchElsewhere DEF LockSources, AfterSnap, TypeOK
\* Until it returns, the entries are its own business.
<1>7. ASSUME NEW c \in Conns, NEW ch \in Sources,
             \/ SourceInLine(c, ch) \/ StartSource(c, ch) \/ StopSource(c, ch)
             \/ SourceStarted(c, ch) \/ SourceStopped(c, ch)
      PROVE  MatchInv'
  <2>1. pc[c] \in AfterSnap /\ pc'[c] \in AfterSnap
    BY <1>7, <1>a DEF SourceInLine, StartSource, StopSource, SourceStarted, SourceStopped,
        Visits, MovesOn, connVars, AfterSnap, TypeOK
  <2>2. \A d \in Conns : d # c => pc'[d] = pc[d]
    BY <1>7, <1>a DEF SourceInLine, StartSource, StopSource, SourceStarted, SourceStopped,
        MovesOn, connVars, TypeOK
  <2>3. UNCHANGED <<clients, view, needed>>
    BY <1>7 DEF SourceInLine, StartSource, StopSource, SourceStarted, SourceStopped,
        MovesOn, connVars
  <2> QED
    BY <2>1, <2>2, <2>3 DEF MatchInv, Wanted
<1>8. ASSUME NEW c \in Conns, AddReturns(c) \/ RemoveReturns(c) PROVE MatchInv'
  <2>1. /\ pc[c] = "sync" /\ srcOwner = c /\ todo = {} /\ pc'[c] \notin AfterSnap
        /\ UNCHANGED <<clients, entry>>
    BY <1>8, <1>a DEF AddReturns, RemoveReturns, Destroyed, OwnerInv, AfterSnap, TypeOK
  <2>2. \A d \in Conns : d # c => pc'[d] = pc[d] /\ pc[d] \notin AfterSnap
    BY <1>8, <1>a, <2>1 DEF AddReturns, RemoveReturns, Destroyed, CallsApart, OpInv, InCall,
        AfterSnap, TypeOK
  <2>3. needed[c] = Wanted
    BY <2>1 DEF MatchInv, AfterSnap
  <2>4. {ch \in Sources : entry[ch]} = Wanted \cap Sources
    BY <2>1, <2>3 DEF SyncInv
  <2>5. \A d \in clients : view'[d] = view[d]
    BY <1>8, <1>a DEF AddReturns, RemoveReturns, Destroyed, TypeOK
  <2>6. Wanted' = Wanted
    BY <2>1, <2>5, SameViewsSameNeed DEF Wanted
  <2> QED
    BY <2>1, <2>2, <2>4, <2>6 DEF MatchInv
<1>9. ASSUME NEW c \in Conns, NEW ch \in Sources, SpawnThrows(c, ch) PROVE MatchInv'
  BY <1>9, StreamAssumption DEF SpawnThrows, CallsApart, NoFault
<1>10. ASSUME NEW ch \in Sources, SourceStep(ch) PROVE MatchInv'
  BY <1>10, MatchElsewhere DEF SourceStep, LoopStep, BeginBroadcast, WriteStep, StartWrite,
      EndWrite, EndBroadcast, mgrVars, connVars
<1>11. CASE UNCHANGED vars
  BY <1>11, MatchElsewhere DEF vars, mgrVars, connVars
<1> QED
  BY <1>1, <1>2, <1>3, <1>4, <1>5, <1>6, <1>7, <1>8, <1>9, <1>10, <1>11
     DEF Next, ConnStep, MutexStep, SyncStep

\* On any number of threads: for as long as no two calls of add and remove have
\* overlapped and no exception has escaped one, the sources that run between
\* calls are the ones the clients need.
THEOREM MatchUnlessCallsOverlap == Spec => MatchUnlessOverlap
<1>1. Init => MatchInv
  BY DEF Init, MatchInv, AfterSnap, Wanted, NeededChannels
<1>2. MatchInv /\ OpInv => SourcesMatchClients
  BY DEF MatchInv, OpInv, InCall, AfterSnap, SourcesMatchClients, Wanted
<1>3. IInv /\ SyncInv /\ OpInv /\ CallsApart /\ CallsApart' /\ MatchInv /\ [Next]_vars
        => MatchInv'
  BY NextMatch
<1>4. IInv /\ SyncInv /\ [Next]_vars => SyncInv'
  BY NextSync
<1> QED
  BY <1>1, <1>2, <1>3, <1>4, Invariance, InitSync, OpInvariant, PTL
     DEF Spec, MatchUnlessOverlap

-----------------------------------------------------------------------------
(* One io thread: calls cannot overlap.                                    *)

Handlers == {c \in Conns : pc[c] \in Running}

OneHandler == ioThreads = 1 /\ \A c, d \in Handlers : c = d

LEMMA NextOneHandler ==
    ASSUME IoThreads = 1, TypeOK, OneHandler, [Next]_vars
    PROVE  OneHandler'
<1>1. CASE Handlers' \subseteq Handlers /\ UNCHANGED ioThreads
  BY <1>1 DEF OneHandler
<1>2. ASSUME NEW c \in Conns,
             (\E v \in ClientViews : Upgrade(c, v)) \/ Accepted(c) \/ ReadFails(c)
      PROVE  OneHandler'
  <2>1. IoThreadFree /\ Handlers' \subseteq Handlers \cup {c} /\ UNCHANGED ioThreads
    BY <1>2 DEF Upgrade, Accepted, ReadFails, Calls, Handlers, TypeOK
  <2>2. IsFiniteSet(Handlers) /\ Cardinality(Handlers) < 1
    BY <2>1, FS_Subset, StreamAssumption DEF IoThreadFree, Handlers, OneHandler
  <2>3. Handlers = {}
    BY <2>2, FS_CardinalityType, FS_EmptySet
  <2> QED
    BY <2>1, <2>3 DEF OneHandler
<1>3. ASSUME NEW c \in Conns,
             \/ AcceptFails(c) \/ MutexStep(c) \/ LockSources(c) \/ SyncStep(c)
             \/ PeerStalls(c) \/ PeerResumes(c) \/ PeerCloses(c)
      PROVE  Handlers' \subseteq Handlers /\ UNCHANGED ioThreads
  BY <1>3 DEF AcceptFails, MutexStep, Refuse, Admit, AddClient, RemoveClient, Registers,
      LockSources, SyncStep, SourceInLine, StartSource, StopSource, SourceStarted, SourceStopped,
      Visits, MovesOn, AddReturns, RemoveReturns, Destroyed, PeerStalls, PeerResumes, PeerCloses,
      PeerTurns, connVars, Handlers, TypeOK
<1>4. ASSUME NEW c \in Conns, NEW ch \in Sources, SpawnThrows(c, ch) PROVE FALSE
  BY <1>4 DEF SpawnThrows, OneHandler
<1>5. ASSUME NEW ch \in Sources, SourceStep(ch)
      PROVE  Handlers' \subseteq Handlers /\ UNCHANGED ioThreads
  BY <1>5 DEF SourceStep, LoopStep, BeginBroadcast, WriteStep, StartWrite, EndWrite,
      EndBroadcast, connVars, Handlers
<1>6. CASE UNCHANGED vars
  BY <1>1, <1>6 DEF vars, connVars, Handlers
<1> QED
  BY <1>1, <1>2, <1>3, <1>4, <1>5, <1>6 DEF Next, ConnStep

\* "Sources are started on-demand per channel" holds with one io thread: the
\* handlers run one after the other, and what each snapshot asked for is running
\* before the next one is taken.
THEOREM OneThreadMatches == IoThreads = 1 => (Spec => []SourcesMatchClients)
<1> SUFFICES ASSUME IoThreads = 1 PROVE Spec => []SourcesMatchClients
  OBVIOUS
<1>1. Init => OneHandler
  BY DEF Init, OneHandler, Handlers
<1>2. TypeOK /\ OneHandler /\ [Next]_vars => OneHandler'
  BY NextOneHandler
<1>3. OneHandler /\ OpInv => CallsApart
  BY DEF OneHandler, Handlers, OpInv, InCall, CallsApart, NoFault
<1> QED
  BY <1>1, <1>2, <1>3, TypeCorrect, OpInvariant, MatchUnlessCallsOverlap, PTL
     DEF Spec, MatchUnlessOverlap

-----------------------------------------------------------------------------
(* The session limit, and how far handshakes that overlap exceed it.       *)

\* Past the capacity check and not yet counted by it.
Handshaking == {c \in Conns : pc[c] \in {"accepting", "adding"}}

\* Whoever is counted, or will be, when at most k are past the check at a time.
WithinLimit(k) == Cardinality(clients \cup Handshaking) <= MaxSessions + k - 1

LEMMA InConns ==
    ASSUME TypeOK, NEW S, S \subseteq clients \cup Handshaking
    PROVE  /\ IsFiniteSet(S) /\ Cardinality(S) \in Nat
           /\ IsFiniteSet(clients \cup Handshaking)
           /\ Cardinality(S) <= Cardinality(clients \cup Handshaking)
           /\ Cardinality(clients \cup Handshaking) \in Nat
<1>1. clients \cup Handshaking \subseteq Conns
  BY DEF Handshaking, TypeOK
<1>2. IsFiniteSet(clients \cup Handshaking)
  BY <1>1, FS_Subset, StreamAssumption
<1>3. IsFiniteSet(S) /\ Cardinality(S) <= Cardinality(clients \cup Handshaking)
  BY <1>2, FS_Subset
<1> QED
  BY <1>2, <1>3, FS_CardinalityType

LEMMA NextWithinLimit ==
    ASSUME NEW k \in Nat \ {0}, TypeOK, TypeOK', WithinLimit(k), Cardinality(Handshaking') <= k,
           [Next]_vars
    PROVE  WithinLimit(k)'
<1> DEFINE counted == clients \cup Handshaking
<1>1. CASE counted' \subseteq counted
  <2>1. /\ Cardinality(counted') <= Cardinality(counted)
        /\ Cardinality(counted') \in Nat /\ Cardinality(counted) \in Nat
    BY <1>1, InConns
  <2> QED
    BY <2>1, StreamAssumption DEF WithinLimit
\* Only the check lets somebody in, and only below the limit.
<1>2. ASSUME NEW c \in Conns, Admit(c) PROVE WithinLimit(k)'
  <2>1. clients' = clients /\ Cardinality(clients) < MaxSessions
    BY <1>2 DEF Admit, mgrVars
  <2>2. IsFiniteSet(clients) /\ Cardinality(clients) \in Nat
    BY InConns
  <2>3. IsFiniteSet(Handshaking') /\ Cardinality(Handshaking') \in Nat
    <3>1. Handshaking' \subseteq Conns
      BY DEF Handshaking
    <3> QED
      BY <3>1, FS_Subset, FS_CardinalityType, StreamAssumption
  <2>4. Cardinality(clients \cup Handshaking') =
          Cardinality(clients) + Cardinality(Handshaking') - Cardinality(clients \cap Handshaking')
    BY <2>2, <2>3, FS_Union
  <2>5. Cardinality(clients \cap Handshaking') \in Nat
    BY <2>2, FS_Subset, FS_CardinalityType
  <2> HIDE DEF Handshaking
  <2> QED
    BY <2>1, <2>2, <2>3, <2>4, <2>5, StreamAssumption DEF WithinLimit
<1>3. ASSUME NEW c \in Conns,
             \/ \E v \in ClientViews : Upgrade(c, v)
             \/ Accepted(c) \/ AcceptFails(c) \/ ReadFails(c) \/ Refuse(c)
             \/ AddClient(c) \/ RemoveClient(c)
             \/ PeerStalls(c) \/ PeerResumes(c) \/ PeerCloses(c)
      PROVE  counted' \subseteq counted
  BY <1>3 DEF Upgrade, Accepted, AcceptFails, ReadFails, Calls, Refuse, AddClient, RemoveClient,
      Registers, Destroyed, PeerStalls, PeerResumes, PeerCloses, PeerTurns, mgrVars, Handshaking,
      TypeOK
<1>4. ASSUME NEW c \in Conns,
             LockSources(c) \/ SyncStep(c) \/ \E ch \in Sources : SpawnThrows(c, ch)
      PROVE  counted' \subseteq counted
  BY <1>4 DEF LockSources, SyncStep, SourceInLine, StartSource, StopSource, SourceStarted,
      SourceStopped, Visits, MovesOn, AddReturns, RemoveReturns, SpawnThrows, Destroyed, connVars,
      Handshaking, TypeOK
<1>5. ASSUME NEW ch \in Sources, SourceStep(ch) PROVE counted' \subseteq counted
  BY <1>5 DEF SourceStep, LoopStep, BeginBroadcast, WriteStep, StartWrite, EndWrite,
      EndBroadcast, mgrVars, connVars, Handshaking
<1>6. CASE UNCHANGED vars
  BY <1>1, <1>6 DEF vars, mgrVars, connVars, Handshaking
<1> QED
  BY <1>1, <1>2, <1>3, <1>4, <1>5, <1>6 DEF Next, ConnStep, MutexStep

LEMMA InitWithinLimit ==
    ASSUME NEW k \in Nat \ {0}, Init
    PROVE  WithinLimit(k)
<1>1. clients \cup Handshaking = {}
  BY DEF Init, Handshaking
<1> QED
  BY <1>1, FS_EmptySet, StreamAssumption DEF WithinLimit

LEMMA LimitOfClients ==
    ASSUME NEW k \in Nat \ {0}, TypeOK, WithinLimit(k)
    PROVE  Cardinality(clients) <= MaxSessions + k - 1
BY InConns, StreamAssumption DEF WithinLimit

\* The limit that validateUpgrade checks before an asynchronous handshake: while
\* at most k handshakes are past the check at a time, k - 1 sessions are too many.
THEOREM LimitExceededByHandshakes ==
    ASSUME NEW k \in Nat \ {0}
    PROVE  Spec /\ [](Cardinality(Handshaking) <= k)
              => [](Cardinality(clients) <= MaxSessions + k - 1)
<1> DEFINE Few == Cardinality(Handshaking) <= k
<1>1. TypeOK /\ TypeOK' /\ WithinLimit(k) /\ Few' /\ [Next]_vars => WithinLimit(k)'
  BY NextWithinLimit
<1> QED
  BY <1>1, InitWithinLimit, LimitOfClients, TypeCorrect, PTL DEF Spec

HandshakesApart == \A c, d \in Handshaking : c = d

\* The session limit holds for as long as no two handshakes overlap: the race
\* for the last place is the only way to exceed it.
THEOREM CapacityUnlessHandshakesOverlap == Spec /\ []HandshakesApart => []CapacityRespected
<1>1. 1 \in Nat \ {0}
  OBVIOUS
<1>2. ASSUME NEW S, \A c, d \in S : c = d PROVE Cardinality(S) <= 1
  <2>1. CASE S = {}
    BY <2>1, FS_EmptySet
  <2>2. CASE S # {}
    <3>1. PICK c \in S : S = {c}
      BY <1>2, <2>2
    <3>2. Cardinality(S) = 1
      BY <3>1, FS_Singleton, Zenon
    <3> QED
      BY <3>2
  <2> QED
    BY <2>1, <2>2
<1>3. TypeOK /\ TypeOK' /\ WithinLimit(1) /\ HandshakesApart' /\ [Next]_vars => WithinLimit(1)'
  <2>1. HandshakesApart' => Cardinality(Handshaking') <= 1
    BY <1>2 DEF HandshakesApart
  <2> QED
    BY <1>1, <2>1, NextWithinLimit
<1>4. Init => WithinLimit(1)
  BY <1>1, InitWithinLimit
<1>5. TypeOK /\ WithinLimit(1) => CapacityRespected
  BY <1>1, LimitOfClients, StreamAssumption DEF CapacityRespected
<1> QED
  BY <1>3, <1>4, <1>5, TypeCorrect, PTL DEF Spec

-----------------------------------------------------------------------------
(* The sources keep the promise of IFrameSource: the refinement.           *)

PhaseOf(ch) == IF call[ch] = "stop" THEN "stopping"
               ELSE IF entry[ch] /\ call[ch] = "none" THEN "started" ELSE "stopped"

Phase  == [ch \in Sources |-> PhaseOf(ch)]
Firing == [ch \in Sources |-> thread[ch] = "callback"]

\* A step that leaves the phases and the callbacks alone is a stutter.
LEMMA Stutters ==
    ASSUME UNCHANGED <<call, entry, thread>>
    PROVE  UNCHANGED Phase /\ UNCHANGED Firing
BY DEF Phase, PhaseOf, Firing

LEMMA RefinesStep ==
    ASSUME IInv, IInv', [Next]_vars
    PROVE  [Producers!Next]_(Producers!producerVars)
<1> DEFINE Goal == Producers!Next \/ (UNCHANGED Phase /\ UNCHANGED Firing)
<1> SUFFICES Goal
  BY DEF Producers!producerVars, Phase, PhaseOf, Firing
<1> USE DEF sourceVars, mgrVars, sendVars, connVars
<1>a. TypeOK /\ OwnerInv /\ MutexInv /\ StoppedMeansJoined
  BY DEF IInv
<1>1. ASSUME NEW c \in Conns,
             \/ \E v \in ClientViews : Upgrade(c, v)
             \/ Accepted(c) \/ AcceptFails(c) \/ ReadFails(c) \/ MutexStep(c)
             \/ PeerStalls(c) \/ PeerResumes(c) \/ PeerCloses(c)
             \/ LockSources(c) \/ AddReturns(c) \/ RemoveReturns(c)
             \/ \E ch \in Sources : SourceInLine(c, ch)
      PROVE  Goal
  <2>1. UNCHANGED <<call, entry, thread>>
    BY <1>1 DEF Upgrade, Accepted, AcceptFails, ReadFails, MutexStep, Calls, Refuse, Admit,
        AddClient, RemoveClient, Registers, PeerStalls, PeerResumes, PeerCloses, PeerTurns,
        LockSources, AddReturns, RemoveReturns, SourceInLine
  <2> QED
    BY <2>1, Stutters
<1>2. ASSUME NEW c \in Conns, NEW ch \in Sources, StartSource(c, ch) PROVE Goal
  <2>1. call[ch] = "none" /\ ~entry[ch]
    BY <1>2, <1>a DEF StartSource, Visits, OwnerInv, TypeOK, SourceTypeOK
  <2>2. PhaseOf(ch)' = PhaseOf(ch) /\ thread' = thread
    BY <1>2, <1>a, <2>1 DEF StartSource, CallStart, PhaseOf, TypeOK, SourceTypeOK
  <2>3. \A other \in Sources : other # ch =>
            call'[other] = call[other] /\ entry'[other] = entry[other]
    BY <1>2, <1>a DEF StartSource, CallStart, TypeOK, SourceTypeOK
  <2> QED
    BY <2>2, <2>3 DEF Phase, PhaseOf, Firing
<1>3. ASSUME NEW c \in Conns, NEW ch \in Sources, SourceStarted(c, ch) \/ SpawnThrows(c, ch)
      PROVE  Goal
  <2>1. call[ch] = "start" /\ entry[ch] /\ thread[ch] = "none"
    BY <1>3, <1>a DEF SourceStarted, SpawnThrows, StartReturns, StartThrows, OwnerInv,
        StoppedMeansJoined
  <2>2. /\ call'[ch] = "none" /\ entry' = entry /\ thread'[ch] \in {"none", "setup"}
        /\ \A other \in Sources : other # ch =>
               call'[other] = call[other] /\ thread'[other] = thread[other]
    BY <1>3, <1>a DEF SourceStarted, SpawnThrows, StartReturns, StartThrows, MovesOn,
        TypeOK, SourceTypeOK
  <2>3. Firing' = Firing
    BY <2>1, <2>2 DEF Firing
  <2>4. Phase[ch] = "stopped" /\ Phase' = [Phase EXCEPT ![ch] = "started"]
    BY <2>1, <2>2 DEF Phase, PhaseOf
  <2>5. Producers!Start(ch)
    BY <2>3, <2>4 DEF Producers!Start, Producers!Moves, Phase, PhaseOf, Firing
  <2> QED
    BY <2>5 DEF Producers!Next
<1>4. ASSUME NEW c \in Conns, NEW ch \in Sources, StopSource(c, ch) PROVE Goal
  <2>1. call[ch] = "none" /\ entry[ch]
    BY <1>4, <1>a DEF StopSource, Visits, OwnerInv, TypeOK, SourceTypeOK
  <2>2. /\ call'[ch] = "stop" /\ thread' = thread
        /\ \A other \in Sources : other # ch =>
               call'[other] = call[other] /\ entry'[other] = entry[other]
    BY <1>4, <1>a DEF StopSource, CallStop, TypeOK, SourceTypeOK
  <2>3. Phase[ch] = "started" /\ Phase' = [Phase EXCEPT ![ch] = "stopping"] /\ Firing' = Firing
    BY <2>1, <2>2 DEF Phase, PhaseOf, Firing
  <2>4. Producers!StopCalled(ch)
    BY <2>3 DEF Producers!StopCalled, Producers!Moves, Phase, PhaseOf, Firing
  <2> QED
    BY <2>4 DEF Producers!Next
<1>5. ASSUME NEW c \in Conns, NEW ch \in Sources, SourceStopped(c, ch) PROVE Goal
  <2>1. call[ch] = "stop" /\ ~entry[ch] /\ thread[ch] # "callback"
    BY <1>5, <1>a DEF SourceStopped, StopReturns, Joined, OwnerInv
  <2>2. /\ call'[ch] = "none" /\ entry' = entry /\ thread'[ch] = "none"
        /\ \A other \in Sources : other # ch =>
               call'[other] = call[other] /\ thread'[other] = thread[other]
    BY <1>5, <1>a DEF SourceStopped, StopReturns, MovesOn, TypeOK, SourceTypeOK
  <2>3. Phase[ch] = "stopping" /\ Phase' = [Phase EXCEPT ![ch] = "stopped"]
    BY <2>1, <2>2 DEF Phase, PhaseOf
  <2>4. ~Firing[ch] /\ Firing' = Firing
    BY <2>1, <2>2 DEF Firing
  <2>5. Producers!StopReturn(ch)
    BY <2>3, <2>4 DEF Producers!StopReturn, Producers!Moves, Phase, PhaseOf, Firing
  <2> QED
    BY <2>5 DEF Producers!Next
<1>6. ASSUME NEW ch \in Sources, SourceStep(ch) PROVE Goal
  <2>1. UNCHANGED <<call, entry>>
    BY <1>6 DEF SourceStep, LoopStep, Opened, OpenFails, FrameReady, ReadError, LoopEnds, Goes,
        BeginBroadcast, WriteStep, StartWrite, EndWrite, EndBroadcast, CallbackReturns
  <2>2. Phase' = Phase
    BY <2>1 DEF Phase, PhaseOf
  <2>3. CASE FrameReady(ch)
    <3>1. /\ thread[ch] = "loop" /\ thread'[ch] = "callback"
          /\ \A other \in Sources : other # ch => thread'[other] = thread[other]
      BY <2>3, <1>a DEF FrameReady, Goes, TypeOK, SourceTypeOK
    <3>2. PhaseOf(ch) # "stopped"
      BY <3>1, <1>a DEF PhaseOf, StoppedMeansJoined, TypeOK, SourceTypeOK
    <3>3. ~Firing[ch] /\ Firing' = [Firing EXCEPT ![ch] = TRUE]
      BY <3>1 DEF Firing
    <3>4. Producers!Fire(ch)
      BY <2>2, <3>2, <3>3 DEF Producers!Fire, Phase, PhaseOf, Firing
    <3> QED
      BY <3>4 DEF Producers!Next
  <2>4. CASE EndBroadcast(ch)
    <3>1. /\ thread[ch] = "callback" /\ thread'[ch] = "loop"
          /\ \A other \in Sources : other # ch => thread'[other] = thread[other]
      BY <2>4, <1>a DEF EndBroadcast, CallbackReturns, Goes, TypeOK, SourceTypeOK
    <3>2. Firing[ch] /\ Firing' = [Firing EXCEPT ![ch] = FALSE]
      BY <3>1 DEF Firing
    <3>3. Producers!Returned(ch)
      BY <2>2, <3>2 DEF Producers!Returned, Phase, PhaseOf, Firing
    <3> QED
      BY <3>3 DEF Producers!Next
  <2>5. CASE UNCHANGED thread
    BY <2>1, <2>5, Stutters
  <2>6. CASE Opened(ch) \/ OpenFails(ch) \/ ReadError(ch) \/ LoopEnds(ch)
    <3>1. /\ thread[ch] # "callback" /\ thread'[ch] # "callback"
          /\ \A other \in Sources : other # ch => thread'[other] = thread[other]
      BY <2>6, <1>a DEF Opened, OpenFails, ReadError, LoopEnds, Goes, TypeOK, SourceTypeOK
    <3>2. Firing' = Firing
      BY <3>1 DEF Firing
    <3> QED
      BY <2>2, <3>2
  <2> QED
    BY <1>6, <2>3, <2>4, <2>5, <2>6 DEF SourceStep, LoopStep, BeginBroadcast, WriteStep,
        StartWrite, EndWrite
<1>7. CASE UNCHANGED vars
  BY <1>7, Stutters DEF vars
<1> QED
  BY <1>1, <1>2, <1>3, <1>4, <1>5, <1>6, <1>7 DEF Next, ConnStep, SyncStep

\* The streaming core implements FrameProducer, on every channel: a callback
\* runs only between start() and the return of stop().
THEOREM SourcesImplementProducer == Spec => SourcesKeepPromise
<1>1. Init => Producers!Init
  BY DEF Init, SourceInit, Producers!Init
<1>2. IInv /\ IInv' /\ [Next]_vars => [Producers!Next]_(Producers!producerVars)
  BY RefinesStep
<1> QED
  BY <1>1, <1>2, Invariance, PTL DEF Spec, SourcesKeepPromise, Producers!Spec
==============================================================================
