# QUANTUM streaming server: TLA+ models, checks and proofs

This directory holds TLA+ specifications of the server under `src/src/` (a C++ backend on
Boost.Beast: login, sessions, static files and live video over WebSockets), the TLC configurations
that check them on small instances, and TLAPS proofs for every instance. `PROJECT.json` maps each
definition to the source lines it stands for.

Run a check with `tlc -config MCStreamSafety.cfg MCStream` and a proof with `tlapm
StreamManagerProofs.tla`.

## 1. The system

One process at a time is meant to run on one database. `App::run` builds everything, then
`threadCount` threads run one `io_context`; each connection has a strand, so one connection's
handlers never overlap but those of two connections do. Each running video source adds one thread of
its own. Shared state is guarded by one mutex per object (two in `StreamManager`).

| Part | State it keeps | Operations | Talks to | Hard behaviour |
|---|---|---|---|---|
| `FileFrameSource` | `running_`, `callback_`, `thread_` | `start`, `stop`, thread `loop` | callback into `StreamManager` | start/stop from several threads, join, a thread that ends early |
| `StreamManager` | `clients_` (raw `WsStream*`), `sources_` (source, running), `mutex_`, `sourceMutex_` | `add`, `remove`, `syncSources`, `pushFrame`, `broadcast`, `clientCount` | sources, sockets | two locks, blocking writes under a lock, stale snapshots, raw pointers |
| `WebSocketHandler` | the session limit | `validateUpgrade` | `SessionStore`, `StreamManager` | check before an asynchronous handshake; three sources of a token |
| `Connection` | HTTP stream or WebSocket, view, pending read | `onRead`, `upgradeToWebSocket`, `onWsRead`, `sendResponse` | router, handler, manager | lifetime: kept alive by pending operations only |
| `FailDelay` | failures and lockout per address | `check`, `recordFailure`, `recordSuccess` | login | check-then-act around a slow comparison |
| `SessionStore` | token to session, sliding expiry | `create`, `validate`, `revoke` | middleware, login, logout, upgrade | copies used after the lock, expiry |
| Login, logout | none | `handleLogin`, `handleLogout` | the two above, `UserStore` | several critical sections per request |
| `Router`, `Trie`, middlewares, `AsyncResp` | routes; rate-limit buckets | `dispatch`, `match`, `before` | handlers | who answers what, exactly once |
| `UserStore` | SQLite table | open, migrate, count, seed, `findUser` | login | restart between statements, two processes |
| `ConfigManager`, `App`, `HttpServer` | configuration, acceptor, threads | start, accept loop, signal, shutdown | everything | conversions of numbers, failures half way, shutdown order |
| Web UI (`src/ui/src`) | login state, the stream's socket, canvases | connect, close, draw | the server | callbacks of a socket that was replaced, images decoded late |

What makes each part correct:

* sources: a callback only between `start` and the return of `stop`; never two threads;
* `StreamManager`: no write to a client that has gone, no deadlock, running sources are those the
  clients need, every subscriber is sent frames, the session limit holds;
* `Connection`: a client whose peer has gone is removed, once;
* `FailDelay` and login: a bounded number of guesses, a lockout that lasts and that the next failure
  begins again;
* `SessionStore`: an ended session stays ended, a used one does not lapse;
* pipeline: a bounded number of requests per stretch of time, the handler a path means, behind every
  middleware, a response with its headers, and the end of the connection;
* upgrades: who has a live session gets a stream, and only users learn whether there is room;
* `UserStore` and the start: whoever is ready has an account, accounts survive restarts, as many
  threads as were asked for, and a start that succeeds in the end;
* the stream page: one socket that nobody has told to close, a badge and a signal that are true, and
  a picture for every channel of a view that stays.

## 2. Modules

| Module | Models | State and actions in terms of the code |
|---|---|---|
| `FrameProducer` | the promise of `IFrameSource` | abstract: a phase per channel and whether its callback runs |
| `FrameSource` | `FileFrameSource` | `running`, `thread`, `call`; `CallStart`/`StartReturns`/`StartThrows`, `CallStop`/`StopReturns`, and the loop's steps: opened, frame ready, read error, end, callback returned |
| `StreamManager` | `StreamManager`, the WebSocket half of `Connection`, the capacity check of `WebSocketHandler` | EXTENDS `FrameSource`; one action per critical section or blocking call |
| `StreamManagerProofs` | | the theorems about `StreamManager` |
| `FailDelay` | `auth::FailDelay` | `entries`; one operator per method |
| `SessionStore` | `session::SessionStore` | `sessions`, `issued`; one operator per method and outcome |
| `Auth` | login and logout handlers, the session checks of `AuthMiddleware` and `validateUpgrade` | EXTENDS `FailDelay` and `SessionStore`; one action per critical section of a handler |
| `AuthProofs` | | the theorems about `Auth` |
| `Trie` | `routing::Trie` | pure: `Insert`, `Match`, and `Means`, what a pattern stands for |
| `RateLimit` | `RateLimitMiddleware` | `buckets`; `CountRequest` is the critical section |
| `Upgrade` | `validateUpgrade` with the parsing of target, protocol header and cookies | pure: `ViewOf`, `TokenOf`, `ValidateUpgrade`, and what the answers mean over bounded inputs |
| `Pipeline` | `HttpServer`'s accept, the HTTP half of `Connection`, `Router`, the middlewares' decisions, `AsyncResp`, what each handler does to the response | EXTENDS `RateLimit`, `Trie` and `Upgrade`; per connection `pc`, its request and its response |
| `PipelineProofs` | | the theorems about `Pipeline`, its trie, and the trie of any route table |
| `RateProofs` | | the theorem about `RateLimit` under concurrent requests |
| `UpgradeProofs` | | the theorems about `Upgrade`, for requests of any length |
| `Lifecycle` | the way from a signal through `App::run` to the end of `~App` | EXTENDS `StreamManager`; `phase`, and the handlers, source threads and destructors each phase still lets run |
| `LifecycleProofs` | | the theorems about `Lifecycle`, on top of `StreamManagerProofs` |
| `UserStore` | the constructor of `UserStore` on a file that outlives the process | `table`, `rows`, and how far each process's constructor is; one action per SQL statement and way it ends |
| `Startup` | `main`, `ConfigManager`, `App::run` up to serving, the acceptor, and the ends of a process | EXTENDS `UserStore`; per process `phase`, its configuration and its threads |
| `StartupProofs` | | the theorems about `Startup` and `UserStore` |
| `StreamView` | `Stream.vue`: the socket, the canvases, the images being decoded | one action per event handler; a handler is one step, as the browser has one thread |
| `StreamViewProofs` | | the theorems about `StreamView` |
| `MCStream`, `MCAuth`, `MCPipeline`, `MCLifecycle`, `MCStartup`, `MCStreamView` | | the constants of the TLC instances |

Operators named `X_Something` right before `X` are mutants: the definition `X` with a plausible bug,
used to see that a property notices it.

### The streaming core

*Connections.* A member of `Conns` is a place for a `Connection` and, at the same time, the address
of its `WsStream`: an address may be reused once the object is gone. `pc` follows the life: `idle`,
`checking` (in `validateUpgrade`), `accepting` (handshake pending), `adding`, `wait` (for
`sourceMutex_`), `sync`, `start`/`stop` (inside a source), `reading` (read pending), `removing`. The
view is chosen when the upgrade begins. HTTP requests that do not upgrade, and the parts of
`validateUpgrade` before the capacity check, do not touch this state; they are in `Pipeline` and
`Upgrade`.

*Threads.* A handler that is running occupies an io thread (`IoThreadFree`); one that waits for a
mutex or a join still does. An exception that escapes a handler takes its thread away
(`SpawnThrows`, `ioThreads`). Where the code would end the process instead (an exception on the main
thread, or out of the `noexcept` `remove`), the behaviour ends: there is nothing to model after it,
and every safety property covers it.

*Locks.* `add` and `remove` hold `mutex_` for a short section, an atomic step here that needs `mutex
= None`. `broadcast` holds it across blocking writes, so a source thread appears as its owner.
`srcOwner` owns `sourceMutex_`, which is held across the join in `stop`. `needed` is the local
snapshot that `add` and `remove` carry from the first lock to the second, and `todo` the sources the
loop of `syncSources` has not visited.

*Peers.* A remote end reads, stalls or closes (external). A write to a stalled peer does not return;
a write to a closed one fails, which the code ignores.

*Left out.* Frame contents, decoding and encoding; the text of messages; `setSource`, which is only
called before the server starts (the constant `Sources`); a `ws::stream` used by two threads at once
(listed as a hazard: the stream's internals are not in `src/`).

### Login and sessions

*Time.* The code stores deadlines and compares them with the steady clock. Only the distance
matters, so the models hold the time left and `Tick` shortens all of it; ticks come whenever they
like, and the clock needs no bound. `-1` means that `now > expiresAt`.

*Requests.* A handler never waits for another, so a request is a thread: `checked` (past
`FailDelay::check`), `denied` or `accepted` (password compared), `cleared` (`recordSuccess` done,
session not created), `authed` (a logout whose session `AuthMiddleware` has validated). Requests
that change nothing are stuttering steps.

*Data.* An erased `FailDelay` entry and a fresh one behave alike, so erasing stores `NoEntry`.
`failCount` is only compared with the limit and stops there. A session is its time left; a new token
has never been issued before (256 random bits). A database error is one of the ways to be `denied`,
as in the code.

*History.* `attempts` counts the passwords compared for an address since its entry was erased or its
lockout ran out; `lapsed` holds the addresses whose lockout has run out and whose entry was not
erased since; `unused` counts the ticks since a token was last accepted. No action's guard looks at
them.

### Requests

*Steps.* `pc` of a connection: `idle`, `reading`, then inside `onRead` on an io thread `routed` (a
request has been read), `limited` (the clock was read in `RateLimitMiddleware`) and `handling`, and
`writing`. Router, Auth and CSRF share a step: they touch nothing another request could have changed
but the session store, whose part `Auth` models and which is here the outcome `stale` or `live` of a
request's token. `CountRequest`, the limiter's critical section, is a step of its own, because the
time it compares was read before; `lag` is how long before. CORS follows it without another lock.

*Upgrades.* A request to upgrade goes past the router and the middlewares, whatever its target.
`Upgrade` says what `validateUpgrade` answers: the view comes from the target or else from
`Sec-WebSocket-Protocol`; the token from that header only if the target names no view, and else from
the first place in the cookies where the text `session=` occurs, which may be the end of another
name or within a value: `session` of a cookie says whether it occurs there. The checks come in the
order view, token present, token valid, RFC headers, room. `RefusesUpgrade` writes the
error; after `AcceptsUpgrade` the connection is `StreamManager`'s, which is why this module lets
both happen whether or not there is room. The session store's answer is part of the token.

*Responses.* `resp` is `asyncResp->resp`, the object middlewares and handlers write to. `Assigns` is
what `asyncResp->resp = HttpResponse::...` does: whatever was on it is gone. `ServesFile` alone
writes to what it was given. Of a response the model keeps whether it is an error and which headers
it has.

*Paths.* The parts of the server read a target in three ways. The router drops the query and the
empty segments: it sees `path` alone. `isProtectedPath` and the exemptions compare the beginning of
the text (`BeginsApi`, `BeginsWith`), and CSRF's exemption of the login all of it, query included
(`IsLoginTarget`). So a request has its segments, `slashes`, the number of slashes before each and
after the last, and `query`. A comparison with `/api/v1/login` ends inside a segment: `LoginNames`
and `StreamNames` are the segments whose text begins with those words. Which segments there are is a
constant. `RouteTrie` is built by inserting the routes in the order of `setupRoutes`. The domain of
a trie is closed under prefixes, so the greedy descent of `match` ends at the longest prefix of the
path in it, and no recursion is needed.

*Time.* A bucket holds its window's age, a thread its lag; both stop where no comparison could tell
them apart (`OldAge`) or at the bound `MaxLag`. `passed` is history: for each number of ticks up to
the window's, the requests let through in the last so many. The window's last tick belongs to it
(`>` in the code), so a stretch has `Window + 1` ticks.

### The end of the process

`phase` follows the main thread: `up`, `signalled`, `stopping` (`ioc_.stop()` was called: handlers
that run finish, none starts), `joined`, `leaving` (the logger is shut down, `~App` destroys the
members in reverse), `gone`. Source threads belong to no `io_context`: they go on broadcasting,
through the raw pointers in `clients_`, until `~FileFrameSource` joins them. What keeps this from
writing to dead connections is the order of `App`'s members: `ioc_` is the first, so the pending
handlers that own the connections die last. `mutex_` is destroyed before the sources and may still
be locked after that; the standard calls it undefined, and the build's `std::mutex` has a destructor
that does nothing, so the model lets the lock work as before. Two elements of `sources_` are
destroyed in an order the standard leaves open. `crashed` is reached when a source thread logs after
`Logger::shutdown`.

### The start of the process

*Processes.* A member of `Procs` is a place for a process; it may run, end and be started again. The
file (`table`, `rows`) is what they share and what survives them. `phase` follows `App::run`:
`context` (inside the constructor of `UserStore`, whose position is `store`), `built`, `bound` (the
acceptor listens), `spawning`, `serving`, `leaving`.

*Statements.* `migrate`, `isEmpty` and `createUser` are three transactions, so anything may happen
between them: another process does the same, a person with a database tool inserts, changes or
deletes an account (`ToolStep`, external, who never deletes the last one), or the process dies. A
row holds `default` or `chosen`: what its hash was made of.

*Faults.* A statement fails (`StatementFails`; `CountFails` is the count, whose failure `isEmpty`
does not tell from zero), a process is killed, somebody asks for a number of threads that cannot be
had. `faults` counts them up to `MaxFaults`. What the code does by itself after a fault is no fault:
`SeedThrows`, `BindThrows` and `ReserveThrows` end `run` with 1.

*Numbers.* `--port` and `--threads` go through `stoi`, then `static_cast` to `unsigned short` and
`size_t`: `PortOf` and `SizeOf` are these conversions, and `Reserved` is `threadCount - 1` in
`size_t`, which `reserve` compares with `MaxSize`. The assumption says that arguments are small
against `SizeMod`, as an `int` is against 2^64.

### The stream page

*Sockets.* A member of `Sockets` is a `WebSocket` object that is not collected yet; its value is the
`readyState`, with the closing ones split by whether the socket was open. `closeWs` clears `onclose`
only, so `SocketFails` still runs the `onerror` of a socket that was closed while it was connecting;
`onmessage` and `onopen` do not come any more. `selectView`, the watcher and the render after it are
one turn of the event loop, hence one action.

*Canvases.* `canvasRefs` says for which channels the page has a canvas to draw on. `decodes` holds
the images under way, and whether the canvas that was current when the frame came is still shown;
`drawn` the shown canvases with a picture. Several images for one canvas are one element, which
`ImageLoads` may leave.

*History.* `late` records what has answered for a view that was left. No guard looks at it.

## 3. Runs

Passing:

| Run | Instance | Shows |
|---|---|---|
| `stream_safety` | 2 connections, both sources, views color and both, 2 io threads, limit 1, thread creation may fail | types; broadcasts go to registered clients only; no dangling pointer unless an exception escaped; a stopped source has no thread; calls on sources exclude one another; no cycle of waiting threads; the owner of `sourceMutex_` leaves the sources as its snapshot says; the sources implement `FrameProducer` |
| `stream_liveness` | 2 connections, 1 source, 2 io threads, limit 2, view color | every `add` and `remove` returns, joins included; a client whose peer is gone is removed; where no two calls overlap, the running sources match the clients and every main-view client is written frames again and again |
| `auth_safety` | 3 threads, 2 addresses, 2 tokens, limit 2, lockout 2, lifetime 2 | types; attempts per address bounded, and after a lockout by the number of threads; an ended session never returns; a used one does not lapse |
| `pipeline_requests` | 2 connections, 1 address, one request for each way through and some respelled, 2 io threads, limit 1, window 1, clock read up to 3 ticks before the lock; four upgrades | types; what passes in a stretch of time; the handler a path means, past every middleware; headers on every response; every connection ends; only users learn whether there is room |
| `lifecycle_ends` | 2 connections, both sources, view color, 2 io threads, thread creation may fail | after a signal no source thread writes to a dead connection; the destructors alone stop the sources; every thread is joined before the end; the end is reached |
| `startup` | 2 processes, 2 users, 3 ports, 4 thread counts, 3 faults | types; whoever is ready has an account; threads as asked; accounts survive; some process serves again and again |
| `stream_view` | 3 socket objects | types; one socket nobody has told to close; `Connected` is true; what is wrong on the page is late; a picture for every channel of a view that stays |

Violations: what a comment, a test or a document says and the code does not do. Each has an entry
under "findings" that quotes the claim.

| Run | Violated | What happens |
|---|---|---|
| `stream_stale_snapshot` | `SourcesMatchClients` | with two io threads two calls take their snapshots under `mutex_` in one order and apply them under `sourceMutex_` in the other: a needed source is stopped, or an unneeded one runs on |
| `stream_capacity` | `CapacityRespected` | two handshakes pass the check for the same last place |
| `auth_lockout` | `LockoutRunsItsCourse` | a login past the check succeeds during the lockout and erases it |
| `lifecycle_clean` | `ShutsDownCleanly` | a source that runs at shutdown logs through a logger that is gone |
| `pipeline_guarded` | `LogoutIsGuarded` | a logout whose path begins with two slashes is routed like any other, and is no protected path: its handler runs without a session |

`stream_liveness` and `stream_stale_snapshot` both have two io threads: the first checks
`SourcesMatchClients` of the behaviours in which no two calls overlap (`MatchUnlessOverlap`), the
second finds it violated where they may, so the overlap is the cause.

For each of them a theorem says what remains true, of every instance: if the race does not happen,
if no source thread is left at shutdown, if the path begins with one slash, the claim holds.

| Violated | Holds when | Theorem |
|---|---|---|
| `SourcesMatchClients` | no two calls of `add` and `remove` overlap, and no exception leaves one (`CallsApart`) | `MatchUnlessCallsOverlap` |
| `CapacityRespected` | no two handshakes are past the check (`HandshakesApart`) | `CapacityUnlessHandshakesOverlap` |
| `LockoutRunsItsCourse` | no two logins of one address are past the check (`LoginsApart`) | `LockoutUnlessLoginsOverlap` |
| `ShutsDownCleanly` | no source thread is left when `run` has joined its io threads; no client left is enough for that (`CallsApart` as above) | `CleanWithoutSources`, `CleanWithoutClients` |
| `LogoutIsGuarded` | the path begins with one slash, however the rest is spelled (`GuardedBehindOneSlash`) | `OnlyGuardedHandlers` |

Section 5 lists disagreements that have no run of their own.

### Bounds

Streaming: every race in the list is between two handlers, or a handler and a source thread, so two
connections and two io threads reach it; two sources make `syncSources` visit one while the other
broadcasts. For liveness one source and one view are enough: it is wanted or not as the two clients
come and go. Limit 1 with two connections is the last-place race. Connections come back after they
end, so two places give any number of connections one after the other. The proofs remove these
bounds for safety. `SourcesMatchClients` and `CapacityRespected`, which fail with two threads and
two handshakes, are proved for as many threads and connections as you like under the condition that
the race does not happen (section 4).

Auth: with limit 2 and three threads one thread records the failure that locks while two are past
the check. The bound of `RelocksAtOnce` is then three and that of `AttemptsBounded` four, so a
second full round after a lockout would show. Two ticks separate "not yet", "just now" and "over"
for a lockout and a session. Two tokens let one end while another is created. Actions and initial
states treat threads, addresses and tokens alike, so the symmetry sets of `MCAuth` are sound; no
liveness is checked under them.

Requests: with limit 1, two io threads and lags of up to 3 ticks the bound of `RateBounded` is
reached, not only kept: a thread whose clock reading is old opens a window that is over at once,
next to two that are not. (With `IoThreads - 2` in its place the run fails; `RateIsBounded` proves
it for every instance.) The requests of `EachWay` take every branch of router, middlewares and
handlers that a request can take with this route table; the 204 of a preflight is none of them,
since the router refuses `OPTIONS` first. Some are spelled with two slashes at a place, so that
router, Auth and CSRF disagree about them: a logout that is protected and one that is not, a login
that CSRF does not know for one. The violation needs one connection.

Life cycle: a signal may arrive in any state of the streaming instance, with one connection inside
`add` or `remove` and another being written to. Only the view color is asked for, so the second
source is one that never ran; both need the destructor's turn. Creating a thread may fail at any
moment, in a handler that finishes after `ioc_.stop()` too.

Upgrades: `RoomIsForUsers` ranges over all requests with up to two values in the target, two items
in the protocol header and two cookies, of every name and value the code tells apart. First and last
differ with two; the proofs have requests of any length and any strings. It is a state predicate of
the moment in which a connection may read an upgrade.

Start: two processes are enough for every race on the file, as a third would do what one of the two
does after it was started again. The ports are 8080, 73616, which is the same after truncation, and
65536, which is 0; the thread counts are on both sides of 0 and 1. `SizeMod` and `MaxSize` are small
here, with the order among the numbers kept; the proofs have them as constants. With three faults
both processes can fail half way and one of them once more.

Stream page: three socket objects are the current one, one that is closing, and a new one. A fourth
would be another closing one, whose only effect is that of the first.

### Fairness

`FairSpec` assumes of the code's environment only what the scheduler and the libraries give:

* a thread that can run does (weak fairness of a source's loop and of a handler inside
  `syncSources`);
* the `io_context` serves ready handlers in order, so a completed accept or read is handled even if
  others keep the threads busy (strong fairness of `Accepted` and `ReadFails`);
* a mutex does not starve a waiter: a source thread sleeps between frames and a handler holds a lock
  for a bounded time (strong fairness of the steps that take a mutex);
* a write returns if its peer reads again and again (strong fairness of `WriteStep`).

The same holds of `Pipeline`'s `FairSpec`: threads run, and reads and writes end because the
stream's timer ends them (`expires_after` in `doRead`).

`Startup`'s `FairSpec`: a process that runs goes on, and whoever runs the program starts it again,
in the end with a thread count that will do (the bound on faults). Nothing obliges anyone to end a
process. `StreamView`'s `ViewFairness`: the browser ends what was begun (a socket that connects or
closes reports, an image is decoded), and a server that streams sends another frame. Users owe
nothing.

Nothing obliges a client to connect, to disconnect, or to read. `CooperativeSpec` adds that a peer
which stalls reads again some day: `stream_liveness` needs it for every call and every view, since
one peer that stops reading for good blocks `broadcast` under `mutex_`. The end of the process
(`SignalEndsProcess`) needs it too, since a destructor that joins a source thread waits for its
write. The weakness is the code's: `expires_never` removes the timeout that would have bounded the
write. The safety runs use `Spec`, with no fairness.

## 4. Proofs

The eight proof modules use only the named assumptions on constants (`SourcesAssumption`,
`StreamAssumption`, `FailDelayAssumption`, `SessionStoreAssumption`, `AuthAssumption`,
`UserStoreAssumption`, `StartupAssumption`, `StreamViewAssumption`, `RateLimitAssumption`,
`PipelineAssumption`): sets of connections and threads are finite, limits and durations are natural
numbers, `None` is no element, requests have their type. Theorems that assume more say so in their
statement: `OneThreadMatches` and `OneThreadCleanWithoutClients` (one io thread),
`LimitExceededByHandshakes` (at most `k` handshakes past the check), and those of the table in
section 3. Their conditions are met by the behaviours in which clients come one after the other; TLC
checked the conclusions of that table under their conditions, as state constraints, before they were
proved.

`StreamManagerProofs`, for any connections, any number of io threads, any subset of the two sources.
The invariants the run checks are not inductive one by one: that a broadcast goes to registered
clients needs to know that a broadcasting thread holds `mutex_`; that calls on sources exclude one
another needs to know where the owner of `sourceMutex_` is in its loop. `IInv` joins what each lock
protects:

* `OwnerInv`: the owner of `sourceMutex_` is the one handler in `syncSources`, the only caller of a
  source, and has set that source's entry;
* `MutexInv`: the holder of `mutex_` is in its callback and the clients it still has to write are
  registered;
* `ClientInv`: `clients_` holds the connections between `add` and `remove`;
* `StoppedMeansJoined`, and the types.

One lemma per group of actions and part of the invariant gives `Spec => []IInv`; from it follow
`TypeCorrect`, `BroadcastIsSafe`, `PointersStayValid`, `StopJoins`, `CallsAreExclusive`, and
`NoDeadlock`, whose argument orders the waiters (whoever waits for `sourceMutex_` waits for a
handler that at most waits for a source thread, which at most waits for the holder of `mutex_`,
which waits for nobody). `SyncIsExact` needs a further invariant on the visited sources, and
`SourcesImplementProducer` is a step-by-step refinement: every step of the core is a step of
`FrameProducer` under the mapping in `Producers`, or a stutter.

`MatchUnlessCallsOverlap` (the property `MatchUnlessOverlap`) says for any number of threads what
keeps the sources in line with the clients. `MatchInv` has two halves: from its snapshot to its
return, what a call carries in `needed` is what the clients need (nobody else registers meanwhile);
when no call is between the two, the entries are what they need. `SyncInv`, of visited and unvisited
sources, joins the halves at the return. `OneThreadMatches` adds `OneHandler`: one io thread runs
one handler, so calls are apart. For the session limit, `WithinLimit(k)` counts the registered
clients together with those past the check, as sets: `Admit` alone enlarges the union, and only
below the limit. It gives the exact damage, `k - 1` sessions for `k` handshakes at a time.

`AuthProofs`, for any threads, addresses, tokens, limit, lockout and lifetime. `AttemptsBounded` is
not inductive: the model must know how many threads are on their way. `BoundInv` counts them. While
an address is not locked out, `attempts` is at most the fresh failures plus the threads that have
compared and not reported; once it is locked, nobody new passes the check, and `attempts` plus the
threads still before the comparison is at most limit + threads - 1. The two halves meet at the
failure that locks, by the cardinality of two disjoint sets of threads. `RelockInv` is the same
count for an address whose lockout has run out once: its `failCount` stays at the limit, so there
are no fresh failures, and threads past the check make up for all attempts (`LapsedAreRelocked`).
`EndedStayEnded` rests on stored tokens being issued ones, `UsedSessionsLast` on the time left being
the lifetime less the time unused. `LockoutUnlessLoginsOverlap` rests on `CourseInv`: a login past
the check is of an address that is not locked. It is inductive only if no other login of the address
is there to lock it (`LoginsApart`); then neither `recordFailure` nor `recordSuccess` meets a
lockout, and at most `MaxFailAttempts` passwords are compared (`ExactLimitUnlessLoginsOverlap`),
with no allowance for threads.

`LifecycleProofs`, for any connections, io threads and subset of the two sources. While there are
handlers every step of `LifeNext` that moves the core is a step of the core's `Next`, so `IInv`
carries over. A destructor calls `stop` without `sourceMutex_`, which `IInv` does not allow, so from
`leaving` on `LeavingInv` takes its place: nobody owns `sourceMutex_`, no handler is left, a call on
a source is the destructor's, and a destroyed source has no thread. `WriteInv`, the part about
`mutex_` and `clients_`, holds until the connections die. `CoreSurvivesShutdown` says which of the
core's own promises that gives for each phase. `WritesStaySafe` is about the states before a thread
creation has failed (`NoFault`): an exception in `add` leaves a pointer in `clients_` whose
connection is gone (`DanglesOnlyAfterFault`), and a later write may go there. `CleanWithoutSources`
needs that no source thread comes back once the io threads are joined. `CleanWithoutClients` carries
`MatchInv` through the shutdown up to the join: the calls that were running have returned, so with
no client registered no entry is set, and a source that is stopped has been joined
(`StoppedMeansJoined`).

`PipelineProofs`, for any connections, io threads, addresses, segments, requests, limit, window and
lag. `PassInv` is what a request keeps from stage to stage: once past the router, Auth and CSRF it
is `Admitted`, past CORS its origin fits and its response is the one CORS left. That no preflight
gets as far as CORS (`AdmittedRequests`) is what makes a 204 impossible and lets every response be
secured. `OnlyGuardedHandlers` needs what the route of a path says about its text:
`LogoutIsProtected` shows that a path routed to logout that begins with one slash begins with
`/api/` and with neither exempt text, whatever slashes follow. `RoutedAsMeant` is about paths of any
length: `RouteNodes` computes what the trie of the five routes holds, `DeepestIs` that the descent
ends at the longest prefix that is a node (a path has finitely many prefixes, so there is one),
`RouteOfPath` which route every path gets. Two theorems are about any route table,
`AnyTableRoutesAsMeant` and `RegisteredPathsAreFound`: patterns of any segments in any order, with
repetitions and with `#` anywhere. `Built` is the sequence of tries that `addRoute` makes, `Holds`
what is true of each: an index is at the node of its pattern, no older one stays there, and a node
of `#` has one. That every trie of the sequence has it is an induction over the routes: the least
one without it cannot be the first, nor have a predecessor with it (a set of naturals has a least
element, from the library's `WFMin`, which takes sets and not operators). `RouteTrieIsBuilt` says
that the server's trie is one of them.

`RateProofs`, for any threads, connections, addresses, limit, window and lag. A stretch of time
meets at most two windows in which requests are counted whose clock was read in it; whatever else
passes was held by a thread when the stretch began, and a thread holds one request. `Account` is
this sum for one stretch, in the three cases of where the current window began: in the stretch, up
to a window before it, or earlier. `AccountInv` has it for every stretch up to the window's length,
since a tick turns the stretch of `n` ticks into that of `n + 1`; `Stale` counts the threads that
still hold an old reading, and a count in a window that is over needs one of them.

`UpgradeProofs`, for requests with any number of values, items and cookies and any strings.
`CookieFound` and `ItemFound` say what the searches return: the first session cookie, the last item
of a name, by the least and the greatest of a set of indices. `LiveUpgradesAreAccepted` and
`LiveTokenIsPresented` follow the order of the checks of `validateUpgrade`; the first is about
requests in which every token is live, since whichever comes first is the one the code takes. The
lemmas are about `UpgradesOver(values)`, for any set, because no prover shows that a literal is in
`STRING`; `UpgradeType` and the bounded `Inputs` of the run are both of that form.

`StartupProofs`, for any processes, users, ports, thread counts and sizes. `ReadyMeansAccounts` is
inductive with the types: a process gets ready by a count that found rows or by inserting one, and
nothing removes the last account. `ThreadsAsAsked` needs `ConfigInv` (the count in a configuration
is somebody's argument) and `ThreadInv` (past `reserve` that argument is positive), which rests on
the arithmetic of the wrapped subtraction: of the arguments that get past `reserve`, `SizeOf`
changes none. `ProgramKeepsAccounts` is an action property: seeding inserts where there is no row,
and no other step of the program writes rows.

`StreamViewProofs`, for any set of socket objects. The invariant adds two facts to the four
properties: an image whose canvas is shown is of a channel of the selected view (`DecodeInv`), and a
page that is left says "Disconnected" and has nothing under way (`LeftInv`). Its `WrongOnlyWhenLate`
depends on `OneLiveSocket`: the error of a current socket leaves it closed, so only another's can
leave an open one under a wrong badge.

Only model-checked: the liveness properties (`CallsReturn`, `ClosedIsRemoved`,
`ServedUnlessOverlap`, `SignalEndsProcess`, `ConnectionsEnd`, `ServesAgain`, `SignalAppears`), since
fairness and ENABLED are out of the prover's reach. Every invariant and every action property of the
passing runs is proved.

## 5. Disagreements without a run, what is not modelled, and the plan

Met while modelling; each is in the code as the models have it:

* One peer that stops reading blocks `broadcast`, and with it `mutex_` and everybody who needs it
  (`src/tests/test_stream.py:170`: clients "must all receive frames independently"). `expires_never`
  removes the timeout that would have bounded the write. `CooperativeSpec` assumes the peer reads
  again.
* A handler that assigns a new response drops the headers that CORS put on it
  (`src/docs/ARCHITECTURE.md:279-280` appends them after it): only static files carry them to the
  client. `ResponsesAreSecured` keeps the half that holds.
* The sub views are accepted by an upgrade and start a source, but no frame is ever broadcast to
  them.
* An exception in `add`, when no thread can be created, leaves a pointer in `clients_` to a
  connection that goes away.
* The session cookie is found by the text `session=`, so a cookie of another name that ends in it,
  or a value with that text, hides it if it comes first.
* The token in `Sec-WebSocket-Protocol` is not read when the target names the view: the cookie's is
  used instead, although `src/docs/ARCHITECTURE.md:467-469` lists the header's first.
* The rate limiter counts in fixed windows that begin with a request
  (`src/docs/ARCHITECTURE.md:197`: "per-IP sliding window"), so the requests of two windows can pass
  within one window's length. `RateIsBounded` proves how far that goes: the limit twice, and one
  request more for each other io thread.
* A GET of a path that begins with `/api` and that no route claims is answered 404, since `match`
  does not go back to `/#` (`src/src/api/static_handler.cpp:15`: "Catch-all: serves any path not
  already claimed by an API route."). `RoutedAsMeant` proves that every GET whose first segment is
  neither `api` nor `#` is the catch-all's, if no other route is for it.
* `--port 73616` listens on 8080 and `--port 65536` on a port of the kernel's choice: the number is
  truncated to 16 bits (`PortOf`).
* A count that fails reads as an empty table, and the default administrator is inserted next to
  other users. `AccountsSurvive` shows that nobody's account is lost by it.

Not modelled: the UI's login page, its store and the router's guard (`logout` clears the client's
state when its answer comes, however late); the acceptor's strand, which `stop` does not use; a
stream in use by two threads, since what Beast does then is not in `src/`; a session that ends while
its stream goes on; `purgeExpired`, which nothing calls; `deleteUser` and `listUsers`, which have no
caller in the server, and `findUser`, whose outcome is a choice in `Auth`. Section 1 lists the parts
and `PROJECT.json` has a note for each.

Next, in this order:

1. The UI's store: two requests in flight, the cookie, and the server's sessions (`Auth`).
2. Composition of `Auth` with `Pipeline`, so that a request's token is a session that can end
   between the stages, and with `StreamManager`, if a claim about streams of ended sessions appears.

Left out for good: file decoding and JPEG encoding, password hashing, log output, formatting of
headers and bodies, serving of file contents.
