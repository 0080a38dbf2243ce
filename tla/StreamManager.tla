---------------------------- MODULE StreamManager ----------------------------
(***************************************************************************)
(* The streaming core: WebSocket connections that subscribe to a view, the *)
(* StreamManager that keeps the subscriptions and runs the sources they    *)
(* need, and the source threads that broadcast frames to them.             *)
(*                                                                         *)
(* Actors: the handlers of the connections, which run on IoThreads threads *)
(* of one io_context, and one thread per running source.  Two mutexes:     *)
(*   mutex_        protects clients_; an io handler takes it for a step,   *)
(*                 a source thread holds it for a whole broadcast;         *)
(*   sourceMutex_  serialises starting and stopping sources, and is held   *)
(*                 while a source thread is joined.                        *)
(***************************************************************************)
EXTENDS FrameSource, FiniteSets

CONSTANTS
    Conns,          \* the connections a client side may have at one time
    ClientViews,    \* the view types the clients ask for
    MaxSessions,    \* maxSessions_ of WebSocketHandler
    IoThreads,      \* threads that run the io_context, the main one included
    SpawnMayFail,   \* TRUE: creating a thread may throw std::system_error
    None

Views == {"color", "ir", "both", "colorSub", "irSub", "bothSub"}

ASSUME StreamAssumption ==
    /\ ClientViews \subseteq Views
    /\ MaxSessions \in Nat \ {0}
    /\ IoThreads \in Nat \ {0}
    /\ SpawnMayFail \in BOOLEAN
    /\ None \notin Conns /\ None \notin Sources
    /\ Conns \cap Sources = {}
    /\ IsFiniteSet(Conns)

VARIABLES
    clients,     \* clients_: the registered connections
    mutex,       \* who holds mutex_ across steps: a source thread, or None
    srcOwner,    \* who holds sourceMutex_: a connection's handler, or None
    entry,       \* SourceEntry::running of each source
    pc,          \* where each connection is in its life
    view,        \* wsViewType_ of each connection
    op,          \* the StreamManager call a connection's handler is inside
    needed,      \* the local `needed` of that call
    todo,        \* the sources syncSources has still to visit
    pending,     \* the clients the broadcast in progress has still to write
    writing,     \* the client whose conn->write is in progress, or None
    peer,        \* what the remote end does: "reads", "stalled" or "closed"
    ioThreads    \* io threads that have not been lost to an exception

mgrVars  == <<clients, mutex, srcOwner, entry, needed, todo>>
sendVars == <<pending, writing>>
connVars == <<pc, view, op, peer>>
vars     == <<sourceVars, mgrVars, sendVars, connVars, ioThreads>>

-----------------------------------------------------------------------------
(* Views and channels.                                                     *)

\* The channels a view type needs running.
ChannelsOf(v) ==
    {ch \in {0, 1} : \/ v \in {"color", "colorSub"} /\ ch = 0
                     \/ v \in {"ir", "irSub"} /\ ch = 1
                     \/ v \in {"both", "bothSub"}}

\* neededChannels() for a value of clients_.
NeededChannels(registered, views) == UNION {ChannelsOf(views[c]) : c \in registered}

\* pushFrame sends every frame as the channel's main view; broadcast lets
\* through that view and the "both" view of the same kind.
Matches(ch, v) == v \in (IF ch = 0 THEN {"color", "both"} ELSE {"ir", "both"})

-----------------------------------------------------------------------------
(* Connections and the io threads they occupy.                             *)

\* No Connection object, an async operation pending, or a handler running.
Waiting == {"accepting", "reading"}
Running == {"checking", "adding", "removing", "wait", "sync", "start", "stop"}
PCs     == {"idle"} \cup Waiting \cup Running

IoThreadFree == Cardinality({c \in Conns : pc[c] \in Running}) < ioThreads

TypeOK ==
    /\ SourceTypeOK
    /\ clients \subseteq Conns
    /\ mutex \in Sources \cup {None}
    /\ srcOwner \in Conns \cup {None}
    /\ entry \in [Sources -> BOOLEAN]
    /\ pc \in [Conns -> PCs]
    /\ view \in [Conns -> Views \cup {None}]
    /\ op \in [Conns -> {"none", "add", "remove"}]
    /\ needed \in [Conns -> SUBSET {0, 1}]
    /\ todo \subseteq Sources
    /\ pending \subseteq Conns
    /\ writing \in Conns \cup {None}
    /\ peer \in [Conns -> {"reads", "stalled", "closed"}]
    /\ ioThreads \in 0..IoThreads

Init ==
    /\ SourceInit
    /\ clients = {}
    /\ mutex = None
    /\ srcOwner = None
    /\ entry = [ch \in Sources |-> FALSE]
    /\ pc = [c \in Conns |-> "idle"]
    /\ view = [c \in Conns |-> None]
    /\ op = [c \in Conns |-> "none"]
    /\ needed = [c \in Conns |-> {}]
    /\ todo = {}
    /\ pending = {}
    /\ writing = None
    /\ peer = [c \in Conns |-> "reads"]
    /\ ioThreads = IoThreads

-----------------------------------------------------------------------------
(* A connection's life: upgrade, handshake, subscription, end.             *)

\* The handler ends and nothing refers to the Connection any more; clients_, if
\* it still holds the stream's address, has its own copy of the view.
Destroyed(c) ==
    /\ pc' = [pc EXCEPT ![c] = "idle"]
    /\ op' = [op EXCEPT ![c] = "none"]
    /\ view' = [view EXCEPT ![c] = IF c \in clients THEN view[c] ELSE None]
    /\ peer' = [peer EXCEPT ![c] = "reads"]

\* A handler starts on a free io thread and calls into the manager.
Calls(c, from, to, method) ==
    /\ pc[c] = from
    /\ IoThreadFree
    /\ pc' = [pc EXCEPT ![c] = to]
    /\ op' = [op EXCEPT ![c] = method]

\* validateUpgrade has accepted the view, the token and the headers, and comes
\* to its last step.  (A slot of Conns is a WsStream address; one that clients_
\* still holds is not handed out again.)
Upgrade(c, v) ==
    /\ c \notin clients
    /\ Calls(c, "idle", "checking", "none")
    /\ view' = [view EXCEPT ![c] = v]
    /\ UNCHANGED <<sourceVars, mgrVars, sendVars, peer, ioThreads>>

\* clientCount() takes mutex_: at the limit the request is answered 503.
Refuse(c) ==
    /\ pc[c] = "checking"
    /\ mutex = None
    /\ Cardinality(clients) >= MaxSessions
    /\ Destroyed(c)
    /\ UNCHANGED <<sourceVars, mgrVars, sendVars, ioThreads>>

\* Below the limit async_accept sends the handshake.
Admit(c) ==
    /\ pc[c] = "checking"
    /\ mutex = None
    /\ Cardinality(clients) < MaxSessions
    /\ pc' = [pc EXCEPT ![c] = "accepting"]
    /\ UNCHANGED <<sourceVars, mgrVars, sendVars, view, op, peer, ioThreads>>

\* async_accept completes: the handler calls StreamManager::add.
Accepted(c) ==
    /\ Calls(c, "accepting", "adding", "add")
    /\ UNCHANGED <<sourceVars, mgrVars, sendVars, view, peer, ioThreads>>

\* async_accept fails: the connection is dropped, never having been added.
AcceptFails(c) ==
    /\ pc[c] = "accepting"
    /\ IoThreadFree
    /\ Destroyed(c)
    /\ UNCHANGED <<sourceVars, mgrVars, sendVars, ioThreads>>

\* Mutant: a failed read drops the connection without removing it.
ReadFails_NotRemoved(c) ==
    /\ pc[c] = "reading"
    /\ peer[c] = "closed"
    /\ IoThreadFree
    /\ Destroyed(c)
    /\ UNCHANGED <<sourceVars, mgrVars, sendVars, ioThreads>>

\* The pending async_read fails once the peer has gone: the handler calls
\* StreamManager::remove.  (A message that does arrive is thrown away.)
ReadFails(c) ==
    /\ peer[c] = "closed"
    /\ Calls(c, "reading", "removing", "remove")
    /\ UNCHANGED <<sourceVars, mgrVars, sendVars, view, peer, ioThreads>>

\* What the remote end does once the WebSocket is open: it stops reading, so
\* that a write to it blocks; it reads again; it closes.
PeerTurns(c, from, to) ==
    /\ pc[c] \notin {"idle", "checking", "accepting"}
    /\ peer[c] \in from
    /\ peer' = [peer EXCEPT ![c] = to]
    /\ UNCHANGED <<sourceVars, mgrVars, sendVars, pc, view, op, ioThreads>>

PeerStalls(c)  == PeerTurns(c, {"reads"}, "stalled")
PeerResumes(c) == PeerTurns(c, {"stalled"}, "reads")
PeerCloses(c)  == PeerTurns(c, {"reads", "stalled"}, "closed")

-----------------------------------------------------------------------------
(* StreamManager::add and remove: first clients_ under mutex_, then, with  *)
(* a snapshot of the channels needed, the sources under sourceMutex_.      *)

\* The end of the first critical section: clients_ becomes `registered`.
Registers(c, registered) ==
    /\ mutex = None
    /\ clients' = registered
    /\ needed' = [needed EXCEPT ![c] = NeededChannels(registered, view)]
    /\ pc' = [pc EXCEPT ![c] = "wait"]
    /\ UNCHANGED <<sourceVars, mutex, srcOwner, entry, todo, sendVars,
                   view, op, peer, ioThreads>>

\* Mutant: mutex_ stays locked while the sources are brought in line.
AddClient_KeepsMutex(c) ==
    /\ pc[c] = "adding"
    /\ mutex = None
    /\ mutex' = c
    /\ clients' = clients \cup {c}
    /\ needed' = [needed EXCEPT ![c] = NeededChannels(clients', view)]
    /\ pc' = [pc EXCEPT ![c] = "wait"]
    /\ UNCHANGED <<sourceVars, srcOwner, entry, todo, sendVars,
                   view, op, peer, ioThreads>>

\* Mutant: the snapshot is taken before the client is in.
AddClient_EarlySnapshot(c) ==
    /\ pc[c] = "adding"
    /\ mutex = None
    /\ clients' = clients \cup {c}
    /\ needed' = [needed EXCEPT ![c] = NeededChannels(clients, view)]
    /\ pc' = [pc EXCEPT ![c] = "wait"]
    /\ UNCHANGED <<sourceVars, mutex, srcOwner, entry, todo, sendVars,
                   view, op, peer, ioThreads>>

AddClient(c) == pc[c] = "adding" /\ Registers(c, clients \cup {c})

\* Mutant: a client is erased while a broadcast still iterates over clients_.
RemoveClient_NoLock(c) ==
    /\ pc[c] = "removing"
    /\ clients' = clients \ {c}
    /\ needed' = [needed EXCEPT ![c] = NeededChannels(clients', view)]
    /\ pc' = [pc EXCEPT ![c] = "wait"]
    /\ UNCHANGED <<sourceVars, mutex, srcOwner, entry, todo, sendVars,
                   view, op, peer, ioThreads>>

RemoveClient(c) == pc[c] = "removing" /\ Registers(c, clients \ {c})

\* Mutant: sourceMutex_ is not taken.
LockSources_NoLock(c) ==
    /\ pc[c] = "wait"
    /\ srcOwner' = c
    /\ todo' = Sources
    /\ pc' = [pc EXCEPT ![c] = "sync"]
    /\ UNCHANGED <<sourceVars, clients, mutex, entry, needed, sendVars,
                   view, op, peer, ioThreads>>

\* The second critical section begins: syncSources(needed).
LockSources(c) ==
    /\ pc[c] = "wait"
    /\ srcOwner = None
    /\ srcOwner' = c
    /\ todo' = Sources
    /\ pc' = [pc EXCEPT ![c] = "sync"]
    /\ UNCHANGED <<sourceVars, clients, mutex, entry, needed, sendVars,
                   view, op, peer, ioThreads>>

\* sources_ is a std::map: the channels come in increasing order.
Visiting(ch) == ch \in todo /\ \A other \in todo : ch <= other

Visits(c, ch) == pc[c] = "sync" /\ Visiting(ch)

SourceInLine(c, ch) ==
    /\ Visits(c, ch)
    /\ entry[ch] = (ch \in needed[c])
    /\ todo' = todo \ {ch}
    /\ UNCHANGED <<sourceVars, clients, mutex, srcOwner, entry, needed, sendVars,
                   connVars, ioThreads>>

\* entry.running = true, then source->start(...).
StartSource(c, ch) ==
    /\ Visits(c, ch)
    /\ ch \in needed[c] /\ ~entry[ch]
    /\ entry' = [entry EXCEPT ![ch] = TRUE]
    /\ CallStart(ch)
    /\ pc' = [pc EXCEPT ![c] = "start"]
    /\ UNCHANGED <<clients, mutex, srcOwner, needed, todo, sendVars,
                   view, op, peer, ioThreads>>

\* Mutant: the entry is not marked stopped.
StopSource_EntryKept(c, ch) ==
    /\ Visits(c, ch)
    /\ ch \notin needed[c] /\ entry[ch]
    /\ CallStop(ch)
    /\ pc' = [pc EXCEPT ![c] = "stop"]
    /\ UNCHANGED <<clients, mutex, srcOwner, entry, needed, todo, sendVars,
                   view, op, peer, ioThreads>>

\* entry.running = false, then source->stop().
StopSource(c, ch) ==
    /\ Visits(c, ch)
    /\ ch \notin needed[c] /\ entry[ch]
    /\ entry' = [entry EXCEPT ![ch] = FALSE]
    /\ CallStop(ch)
    /\ pc' = [pc EXCEPT ![c] = "stop"]
    /\ UNCHANGED <<clients, mutex, srcOwner, needed, todo, sendVars,
                   view, op, peer, ioThreads>>

\* The call on the source returns and the loop moves on.
MovesOn(c, ch) ==
    /\ Visiting(ch)
    /\ pc' = [pc EXCEPT ![c] = "sync"]
    /\ todo' = todo \ {ch}
    /\ UNCHANGED <<clients, mutex, srcOwner, entry, needed, sendVars,
                   view, op, peer, ioThreads>>

SourceStarted(c, ch) == pc[c] = "start" /\ StartReturns(ch) /\ MovesOn(c, ch)
SourceStopped(c, ch) == pc[c] = "stop" /\ StopReturns(ch) /\ MovesOn(c, ch)

\* sourceMutex_ is released; add's handler goes on to read from the socket.
AddReturns(c) ==
    /\ pc[c] = "sync" /\ todo = {} /\ op[c] = "add"
    /\ srcOwner' = None
    /\ needed' = [needed EXCEPT ![c] = {}]
    /\ pc' = [pc EXCEPT ![c] = "reading"]
    /\ op' = [op EXCEPT ![c] = "none"]
    /\ UNCHANGED <<sourceVars, clients, mutex, entry, todo, sendVars,
                   view, peer, ioThreads>>

\* After remove the handler returns without another read pending.
RemoveReturns(c) ==
    /\ pc[c] = "sync" /\ todo = {} /\ op[c] = "remove"
    /\ srcOwner' = None
    /\ needed' = [needed EXCEPT ![c] = {}]
    /\ Destroyed(c)
    /\ UNCHANGED <<sourceVars, clients, mutex, entry, todo, sendVars, ioThreads>>

\* The exception of std::thread unwinds syncSources, which releases sourceMutex_,
\* and add's handler, which ends the Connection and the io thread.  Out of the
\* main thread's run(), or out of remove, which is noexcept, it ends the process:
\* no step follows, as Spec allows at any time.
SpawnThrows(c, ch) ==
    /\ SpawnMayFail /\ ioThreads > 1
    /\ pc[c] = "start" /\ op[c] = "add"
    /\ Visiting(ch)
    /\ StartThrows(ch)
    /\ srcOwner' = None
    /\ todo' = {}
    /\ needed' = [needed EXCEPT ![c] = {}]
    /\ Destroyed(c)
    /\ ioThreads' = ioThreads - 1
    /\ UNCHANGED <<clients, mutex, entry, sendVars>>

-----------------------------------------------------------------------------
(* pushFrame and broadcast, on the source's thread: mutex_ is held from    *)
(* the first client to the last, through every blocking write.             *)

BeginBroadcast(ch) ==
    /\ thread[ch] = "callback"
    /\ mutex = None
    /\ mutex' = ch
    /\ pending' = {c \in clients : Matches(ch, view[c])}
    /\ UNCHANGED <<sourceVars, clients, srcOwner, entry, needed, todo, writing,
                   connVars, ioThreads>>

StartWrite(ch, c) ==
    /\ mutex = ch
    /\ writing = None
    /\ c \in pending
    /\ writing' = c
    /\ pending' = pending \ {c}
    /\ UNCHANGED <<sourceVars, mgrVars, connVars, ioThreads>>

\* The frame is sent, or the write fails and the error is logged; either way
\* the client stays registered.  A peer that does not read blocks the write.
EndWrite(ch) ==
    /\ mutex = ch
    /\ writing # None
    /\ peer[writing] # "stalled"
    /\ writing' = None
    /\ UNCHANGED <<sourceVars, mgrVars, pending, connVars, ioThreads>>

EndBroadcast(ch) ==
    /\ mutex = ch
    /\ writing = None
    /\ pending = {}
    /\ mutex' = None
    /\ CallbackReturns(ch)
    /\ UNCHANGED <<clients, srcOwner, entry, needed, todo, sendVars, connVars, ioThreads>>

\* The steps of loop() up to the callback, and its ends.
LoopStep(ch) ==
    /\ \/ Opened(ch) \/ OpenFails(ch)
       \/ FrameReady(ch) \/ ReadError(ch) \/ LoopEnds(ch)
    /\ UNCHANGED <<mgrVars, sendVars, connVars, ioThreads>>

-----------------------------------------------------------------------------
(* The specification.                                                      *)

SyncStep(c) ==
    \/ \E ch \in Sources :
          \/ SourceInLine(c, ch)
          \/ StartSource(c, ch) \/ SourceStarted(c, ch)
          \/ StopSource(c, ch) \/ SourceStopped(c, ch)
    \/ AddReturns(c)
    \/ RemoveReturns(c)

MutexStep(c) == Refuse(c) \/ Admit(c) \/ AddClient(c) \/ RemoveClient(c)

ConnStep(c) ==
    \/ \E v \in ClientViews : Upgrade(c, v)
    \/ Accepted(c) \/ AcceptFails(c) \/ ReadFails(c)
    \/ MutexStep(c) \/ LockSources(c) \/ SyncStep(c)
    \/ \E ch \in Sources : SpawnThrows(c, ch)
    \/ PeerStalls(c) \/ PeerResumes(c) \/ PeerCloses(c)

WriteStep(ch) == (\E c \in Conns : StartWrite(ch, c)) \/ EndWrite(ch) \/ EndBroadcast(ch)

SourceStep(ch) == LoopStep(ch) \/ BeginBroadcast(ch) \/ WriteStep(ch)

Next ==
    \/ \E c \in Conns : ConnStep(c)
    \/ \E ch \in Sources : SourceStep(ch)

Spec == Init /\ [][Next]_vars

\* Threads run when they can.  The io_context serves its handlers in the order
\* they became ready, and a mutex does not starve a waiter: a source thread
\* sleeps between frames, an io handler holds a lock for a bounded time.  A write
\* ends if its peer reads again and again.  No peer is obliged to do anything.
FairSpec ==
    /\ Spec
    /\ \A c \in Conns :
          /\ SF_vars(Accepted(c))
          /\ SF_vars(ReadFails(c))
          /\ SF_vars(MutexStep(c))
          /\ SF_vars(LockSources(c))
          /\ WF_vars(SyncStep(c))
    /\ \A ch \in Sources :
          /\ WF_vars(LoopStep(ch))
          /\ SF_vars(BeginBroadcast(ch))
          /\ SF_vars(WriteStep(ch))

\* The same, when a peer that stops reading does read again some day.
CooperativeSpec == FairSpec /\ \A c \in Conns : WF_vars(PeerResumes(c))

-----------------------------------------------------------------------------
(* Safety.                                                                 *)

\* A broadcast only ever writes to clients that are registered: nobody erases
\* one from clients_ while the loop of broadcast() is on its way to it.
BroadcastToRegistered == pending \cup ({writing} \ {None}) \subseteq clients

NoFault == ioThreads = IoThreads

Registered == {"wait", "sync", "start", "stop", "reading", "removing"}

\* StreamManager stores raw WsStream pointers it does not own: whoever is in
\* clients_ still has its Connection, kept alive by a pending read or handler.
NoDanglingClient == \A c \in clients : pc[c] \in Registered

\* A dangling pointer is left behind by nothing but an exception that escaped
\* a handler and took its io thread away.
DanglesOnlyAfterFault == NoFault => NoDanglingClient

\* A source that is marked stopped has no thread, unless its stop() is still
\* under way: the defensive stop() in start() never finds a thread to wait for
\* and std::thread is never assigned over a joinable one.
StoppedMeansJoined ==
    \A ch \in Sources :
        call[ch] = "start" \/ (call[ch] = "none" /\ ~entry[ch]) => thread[ch] = "none"

\* sourceMutex_ keeps the callers of start() and stop() apart: the sources are
\* touched by its owner alone, one source at a time.
SourceCallsExclusive ==
    /\ \A c \in Conns : pc[c] \in {"sync", "start", "stop"} => srcOwner = c
    /\ \A ch \in Sources : call[ch] # "none" =>
          /\ Visiting(ch)
          /\ \E c \in Conns : srcOwner = c /\ pc[c] = call[ch]

\* Who cannot go on before whom: a handler or a source thread that needs
\* mutex_, a handler that needs sourceMutex_, a handler that joins a thread.
WaitsFor(a, b) ==
    \/ /\ a \in Conns
       /\ \/ pc[a] \in {"checking", "adding", "removing"} /\ mutex = b
          \/ pc[a] = "wait" /\ srcOwner = b
          \/ pc[a] \in {"start", "stop"} /\ b \in Sources /\ Visiting(b) /\ ~Joined(b)
    \/ a \in Sources /\ thread[a] = "callback" /\ mutex = b /\ b # a

\* No set of threads in which everyone waits for another of the set, although
\* sourceMutex_ is held across a join and mutex_ across blocking writes.
NoWaitCycle ==
    \A S \in SUBSET (Conns \cup Sources) :
        S # {} => \E a \in S : \A b \in S : ~WaitsFor(a, b)

\* When sourceMutex_ is released, the sources that run are the ones the caller's
\* snapshot asked for, whatever other calls have done meanwhile.
SyncReachesSnapshot ==
    [][\A c \in Conns :
          srcOwner = c /\ srcOwner' = None /\ ioThreads' = ioThreads =>
              {ch \in Sources : entry'[ch]} = needed[c] \cap Sources]_vars

\* Each source keeps the promise of IFrameSource towards the manager.
Producers == INSTANCE FrameProducer WITH
    phase  <- [ch \in Sources |->
                  IF call[ch] = "stop" THEN "stopping"
                  ELSE IF entry[ch] /\ call[ch] = "none" THEN "started" ELSE "stopped"],
    firing <- [ch \in Sources |-> thread[ch] = "callback"]

SourcesKeepPromise == Producers!Spec

\* "Sources are started on-demand per channel": with no call on the manager in
\* progress, the sources that run are the ones the clients need.
SourcesMatchClients ==
    (\A c \in Conns : op[c] = "none") =>
        {ch \in Sources : entry[ch]} = NeededChannels(clients, view) \cap Sources

\* No call on the manager begins while another is in progress, and none ends in
\* an exception.
CallsApart ==
    /\ NoFault
    /\ \A c, d \in Conns : op[c] # "none" /\ op[d] # "none" => c = d

\* What keeps "started on-demand per channel" true: for as long as no two calls
\* of add and remove overlap, the sources that run between calls are the ones the
\* clients need, whatever source threads and peers do.
MatchUnlessOverlap == []CallsApart => []SourcesMatchClients

\* The configured limit on concurrent streaming sessions holds.
CapacityRespected == Cardinality(clients) <= MaxSessions

-----------------------------------------------------------------------------
(* Liveness.                                                               *)

\* Every call on the manager returns.
CallsReturn == \A c \in Conns : op[c] # "none" ~> op[c] = "none"

\* A client whose peer is gone leaves clients_.
ClosedIsRemoved ==
    \A c \in Conns : c \in clients /\ peer[c] = "closed" ~> c \notin clients

\* Every source that could serve the client has ended by itself: its file could
\* not be opened, or a read failed.
NoSource(c) ==
    \A ch \in Sources \cap ChannelsOf(view[c]) : thread[ch] = "done" /\ running[ch]

\* A client with one of the given views is written a frame, again and again,
\* for as long as it stays and a source for it is alive.
Served(views) ==
    \A c \in Conns :
        (pc[c] = "reading" /\ view[c] \in views)
            ~> (writing = c \/ pc[c] # "reading" \/ peer[c] = "closed" \/ NoSource(c))

\* Served for the three main views.
MainViewsServed == Served({"color", "ir", "both"})

\* Every client of a main view is served again and again where calls of add and
\* remove do not overlap: no source it needs is stopped by a stale snapshot.
ServedUnlessOverlap == []CallsApart => MainViewsServed
==============================================================================
