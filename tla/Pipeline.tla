------------------------------ MODULE Pipeline ------------------------------
(***************************************************************************)
(* One HTTP request per connection: read, routed, passed along the         *)
(* middlewares (Auth, CSRF, RateLimit, Logging, CORS), handled, answered,  *)
(* and the connection closed.                                              *)
(*                                                                         *)
(* Requests in different connections are dispatched by different threads   *)
(* of the io_context and meet in the rate limiter.  The response is one    *)
(* object that the middlewares and the handler write to in turn, and that  *)
(* is sent when its last holder lets go of it.                             *)
(***************************************************************************)
EXTENDS RateLimit, Trie, Upgrade

CONSTANTS
    Conns,       \* connections at one time
    Segments,    \* the segments of which paths are made
    LoginNames,  \* those whose text begins with "login"
    StreamNames, \* those whose text begins with "stream"
    Requests,    \* the requests that clients make
    Upgrades,    \* and the upgrades to WebSocket
    IoThreads    \* threads that run the io_context

Methods == {"GET", "POST", "OPTIONS"}

\* `path`: the segments of the target that are not empty; `slashes`: how many
\* slashes stand before each of them, and after the last one.  `query`: a "?"
\* and more follows.  `token`: whether a token is presented, and whether validate
\* knows it.  `csrf`: the header is the session's token.  `origin`: the Origin header.
RequestType ==
    [method : Methods, path : Seq(Segments), slashes : Seq(Nat), query : BOOLEAN,
     token : {"none", "stale", "live"}, csrf : BOOLEAN, origin : {"none", "allowed", "other"}]

\* The slashes part one segment from the next.
Spelled(r) ==
    /\ Len(r.slashes) = Len(r.path) + 1
    /\ \A i \in 2..Len(r.path) : r.slashes[i] > 0

ASSUME PipelineAssumption ==
    /\ {"api", "v1", "login", "logout", "stream", Wild} \subseteq Segments
    /\ "login" \in LoginNames /\ "stream" \in StreamNames
    /\ "logout" \notin LoginNames \cup StreamNames
    /\ \A r \in Requests : r \in RequestType /\ Spelled(r)
    /\ \A u \in Upgrades : u \in UpgradeType
    /\ IoThreads \in Nat \ {0}

VARIABLES
    pc,         \* where each connection is
    remoteIp,   \* remoteIp of each connection
    req,        \* the request it has read, or NoRequest
    lag,        \* ticks since its thread read the clock in RateLimitMiddleware
    resp        \* asyncResp->resp, and then the response being written

connVars == <<pc, remoteIp, req, lag, resp>>
pipeVars == <<connVars, rateVars>>

NoRequest == [method |-> "none"]

-----------------------------------------------------------------------------
(* Routes, in the order of setupRoutes.                                    *)

LoginPath  == <<"api", "v1", "login">>
LogoutPath == <<"api", "v1", "logout">>
StreamPath == <<"api", "v1", "stream">>

Routes == <<
    [method |-> "POST", pattern |-> LoginPath,  handler |-> "login"],
    [method |-> "POST", pattern |-> LogoutPath, handler |-> "logout"],
    [method |-> "GET",  pattern |-> <<Wild>>,   handler |-> "static"],
    [method |-> "GET",  pattern |-> <<>>,       handler |-> "static"],
    [method |-> "GET",  pattern |-> StreamPath, handler |-> "stream"] >>

RouteTrie ==
    LET Added(trie, i) == Insert(trie, Routes[i].pattern, i)
    IN  Added(Added(Added(Added(Added(EmptyTrie, 1), 2), 3), 4), 5)

\* Trie::split drops the empty segments: however a path is spelled.
RouteOf(r) == Match(RouteTrie, r.path)

HandlerOf(c) == Routes[RouteOf(req[c])].handler

-----------------------------------------------------------------------------
(* What each stage asks of a request.                                      *)

\* Mutant: the method is left for the handler to look at.
MethodFits_Any(r) == TRUE

MethodFits(r) == Routes[RouteOf(r)].method = r.method

\* The target's text begins with "/api/".
BeginsApi(r) ==
    /\ r.path # <<>> /\ r.path[1] = "api"
    /\ r.slashes[1] = 1 /\ r.slashes[2] > 0

\* The target's text begins with "/api/v1/" and one of these names.
BeginsWith(r, names) ==
    /\ Len(r.path) > 2 /\ r.path[1] = "api" /\ r.path[2] = "v1" /\ r.path[3] \in names
    /\ \A i \in 1..3 : r.slashes[i] = 1

IsProtectedPath(r) ==
    BeginsApi(r) /\ ~BeginsWith(r, LoginNames) /\ ~BeginsWith(r, StreamNames)

\* Mutant: a token that is presented is taken for a session.
Authenticated_Unchecked(r) == IsProtectedPath(r) => r.token # "none"

Authenticated(r) == IsProtectedPath(r) => r.token = "live"

\* AuthMiddleware stores the session of a protected path only.
HasSession(r) == IsProtectedPath(r) /\ r.token = "live"

IsLoginTarget(r) == r.path = LoginPath /\ r.slashes = <<1, 1, 1, 0>> /\ ~r.query

CsrfFits(r) ==
    \/ IsLoginTarget(r) \/ BeginsWith(r, StreamNames)
    \/ r.method # "POST"
    \/ ~HasSession(r)
    \/ r.csrf

OriginFits(r) == r.origin # "other"

-----------------------------------------------------------------------------
(* Responses: what was decided, and which headers are on it.               *)

Response == [code : {"ok", "error"}, secure : BOOLEAN, cors : BOOLEAN]

\* asyncResp->resp as it is made.
Blank == [code |-> "ok", secure |-> FALSE, cors |-> FALSE]

\* HttpResponse::ok and ::error make a new response and assign it.
Ok    == [code |-> "ok", secure |-> TRUE, cors |-> FALSE]
Error == [code |-> "error", secure |-> TRUE, cors |-> FALSE]

Init ==
    /\ RateLimitInit
    /\ pc = [c \in Conns |-> "idle"]
    /\ remoteIp \in [Conns -> Ips]
    /\ req = [c \in Conns |-> NoRequest]
    /\ lag = [c \in Conns |-> 0]
    /\ resp = [c \in Conns |-> Blank]

\* Inside onRead, on a thread of the io_context.
Dispatching == {"routed", "limited", "handling"}

IoThreadFree == Cardinality({c \in Conns : pc[c] \in Dispatching}) < IoThreads

Goes(c, from, to) ==
    /\ pc[c] = from
    /\ pc' = [pc EXCEPT ![c] = to]
    /\ UNCHANGED remoteIp

Keeps == UNCHANGED <<req, lag, resp>>

\* The response is sent: the last holder has released it.
Sends(c, from, r) ==
    /\ Goes(c, from, "writing")
    /\ resp' = [resp EXCEPT ![c] = r]
    /\ lag' = [lag EXCEPT ![c] = 0]

-----------------------------------------------------------------------------
(* The connection.                                                         *)

Accept(c, from) ==
    /\ pc[c] = "idle"
    /\ pc' = [pc EXCEPT ![c] = "reading"]
    /\ remoteIp' = [remoteIp EXCEPT ![c] = from]
    /\ Keeps
    /\ UNCHANGED rateVars

\* End of stream, a read error, or the timer of 30 seconds.
ReadEnds(c) ==
    /\ Goes(c, "reading", "idle")
    /\ Keeps
    /\ UNCHANGED rateVars

\* An upgrade, of whatever target, goes past the router and the middlewares.  One
\* that is accepted goes on as a WebSocket; whether there is room is open here.
AcceptsUpgrade(c, u) ==
    /\ IoThreadFree
    /\ ValidateUpgrade(u, FALSE) = "kOk"
    /\ Goes(c, "reading", "idle")
    /\ Keeps
    /\ UNCHANGED rateVars

RefusesUpgrade(c, u) ==
    /\ IoThreadFree
    /\ \E full \in BOOLEAN : ValidateUpgrade(u, full) # "kOk"
    /\ Sends(c, "reading", Error)
    /\ UNCHANGED <<req, rateVars>>

\* A body over kMaxBodySize.
RefusesBody(c) ==
    /\ IoThreadFree
    /\ Sends(c, "reading", Error)
    /\ UNCHANGED <<req, rateVars>>

Reads(c, r) ==
    /\ IoThreadFree
    /\ Goes(c, "reading", "routed")
    /\ req' = [req EXCEPT ![c] = r]
    /\ resp' = [resp EXCEPT ![c] = Blank]
    /\ UNCHANGED <<lag, rateVars>>

\* Mutant: onWrite reads the next request instead of closing.
Written_KeepsAlive(c) ==
    /\ Goes(c, "writing", "reading")
    /\ req' = [req EXCEPT ![c] = NoRequest]
    /\ resp' = [resp EXCEPT ![c] = Blank]
    /\ UNCHANGED <<lag, rateVars>>

\* async_write ends, well or not: keep_alive is false, so there is no next read.
Written(c) ==
    /\ Goes(c, "writing", "idle")
    /\ req' = [req EXCEPT ![c] = NoRequest]
    /\ resp' = [resp EXCEPT ![c] = Blank]
    /\ UNCHANGED <<lag, rateVars>>

-----------------------------------------------------------------------------
(* dispatch and the middlewares.                                           *)

\* Past the router (404, 405), Auth (401) and CSRF (403), in this order.
Admitted(r) ==
    /\ RouteOf(r) # NoRoute /\ MethodFits(r)
    /\ Authenticated(r) /\ CsrfFits(r)

Turned(c) ==
    /\ pc[c] = "routed" /\ ~Admitted(req[c])
    /\ Sends(c, "routed", Error)
    /\ UNCHANGED <<req, rateVars>>

\* RateLimitMiddleware reads the clock.
ReadsClock(c) ==
    /\ pc[c] = "routed" /\ Admitted(req[c])
    /\ Goes(c, "routed", "limited")
    /\ Keeps
    /\ UNCHANGED rateVars

TooMany(c) ==
    /\ pc[c] = "limited"
    /\ CountRequest(remoteIp[c], lag[c])
    /\ Exceeded(buckets'[remoteIp[c]])
    /\ Sends(c, "limited", Error)
    /\ UNCHANGED req

\* asyncResp->resp as CorsMiddleware leaves it.
WithCors(r) == [Blank EXCEPT !.cors = r.origin = "allowed"]

\* CorsMiddleware answers: a 403 for the origin, or the 204 of a preflight.
CorsAnswers(c) ==
    /\ pc[c] = "limited"
    /\ CountRequest(remoteIp[c], lag[c])
    /\ ~Exceeded(buckets'[remoteIp[c]])
    /\ OriginFits(req[c]) => req[c].method = "OPTIONS"
    /\ Sends(c, "limited", IF OriginFits(req[c]) THEN WithCors(req[c]) ELSE Error)
    /\ UNCHANGED req

ReachesHandler(c) ==
    /\ pc[c] = "limited"
    /\ CountRequest(remoteIp[c], lag[c])
    /\ ~Exceeded(buckets'[remoteIp[c]])
    /\ OriginFits(req[c]) /\ req[c].method # "OPTIONS"
    /\ Goes(c, "limited", "handling")
    /\ resp' = [resp EXCEPT ![c] = WithCors(req[c])]
    /\ lag' = [lag EXCEPT ![c] = 0]
    /\ UNCHANGED req

-----------------------------------------------------------------------------
(* The handlers.                                                           *)

\* handleLogin, handleLogout, handleStream and serveFile's errors assign a new
\* response; so does onRead when dispatch throws.
Answers ==
    [login  |-> {Ok, Error},
     logout |-> {Ok},
     stream |-> {Error},
     static |-> {Error}]

Assigns(c) ==
    /\ pc[c] = "handling"
    /\ \E r \in Answers[HandlerOf(c)] : Sends(c, "handling", r)
    /\ UNCHANGED <<req, rateVars>>

Throws(c) ==
    /\ Sends(c, "handling", Error)
    /\ UNCHANGED <<req, rateVars>>

\* serveFile writes to the response it was given.
ServesFile(c) ==
    /\ pc[c] = "handling" /\ HandlerOf(c) = "static"
    /\ Sends(c, "handling", [resp[c] EXCEPT !.secure = TRUE])
    /\ UNCHANGED <<req, rateVars>>

-----------------------------------------------------------------------------
(* The specification.                                                      *)

\* Time passes for everybody; no thread is held up for more than MaxLag.
Tick ==
    /\ \A c \in Conns : lag[c] < MaxLag
    /\ BucketsTick
    /\ lag' = [c \in Conns |-> IF pc[c] = "limited" THEN lag[c] + 1 ELSE 0]
    /\ UNCHANGED <<pc, remoteIp, req, resp>>

DispatchStep(c) ==
    \/ Turned(c) \/ ReadsClock(c)
    \/ TooMany(c) \/ CorsAnswers(c) \/ ReachesHandler(c)
    \/ Assigns(c) \/ Throws(c) \/ ServesFile(c)

ConnStep(c) ==
    \/ \E from \in Ips : Accept(c, from)
    \/ ReadEnds(c) \/ RefusesBody(c)
    \/ \E u \in Upgrades : AcceptsUpgrade(c, u) \/ RefusesUpgrade(c, u)
    \/ \E r \in Requests : Reads(c, r)
    \/ DispatchStep(c)
    \/ Written(c)

Next == (\E c \in Conns : ConnStep(c)) \/ Tick

Spec == Init /\ [][Next]_pipeVars

\* Threads run when they can; a read and a write end, by the timer of the
\* stream if by nothing else.
FairSpec ==
    /\ Spec
    /\ \A c \in Conns :
          /\ WF_pipeVars(ReadEnds(c))
          /\ WF_pipeVars(DispatchStep(c))
          /\ WF_pipeVars(Written(c))

-----------------------------------------------------------------------------
(* Properties.                                                             *)

TypeOK ==
    /\ pc \in [Conns -> {"idle", "reading", "writing"} \cup Dispatching]
    /\ remoteIp \in [Conns -> Ips]
    /\ req \in [Conns -> Requests \cup {NoRequest}]
    /\ lag \in [Conns -> 0..MaxLag]
    /\ resp \in [Conns -> Response]
    /\ buckets \in [Ips -> Bucket \cup {NoBucket}]
    /\ passed \in [Ips -> [0..Window -> Nat]]

\* Any stretch of time as long as the window lets at most two windows' worth
\* of an address's requests through, and one more for each other thread: a
\* thread that read the clock before the stretch began.
RateBounded ==
    \A from \in Ips : PassedLately(from) <= 2 * MaxRequests + IoThreads - 1

\* A handler runs for the requests its route means, and the catch-all only for
\* those that no other route is for; a GET of a path outside /api, and of none,
\* is the catch-all's.
HandledAsMeant ==
    \A c \in Conns :
        /\ pc[c] = "handling" =>
              /\ Means(Routes[RouteOf(req[c])].pattern, req[c].path)
              /\ \A i \in 1..Len(Routes) :
                    Routes[i].pattern = req[c].path => Routes[i].handler = HandlerOf(c)
        /\ pc[c] = "routed" /\ (req[c].path = <<>> \/ req[c].path[1] \notin {"api", Wild}) =>
              RouteOf(req[c]) # NoRoute /\ HandlerOf(c) = "static"

LogoutHasSession(c) ==
    pc[c] = "handling" /\ HandlerOf(c) = "logout" => req[c].token = "live" /\ req[c].csrf

\* No handler runs unless every middleware let the request through: nobody's
\* request comes from another origin, and behind one slash, where Auth, CSRF and
\* the router read a path alike, the logout handler has a session to end and a
\* matching CSRF token, however the rest of the path is spelled.
GuardedBehindOneSlash ==
    \A c \in Conns :
        /\ pc[c] = "handling" => req[c].origin # "other"
        /\ pc[c] = "handling" /\ req[c].slashes[1] = 1 => LogoutHasSession(c)

\* The logout handler never runs without a session and its CSRF token, because
\* Auth has then rejected the request (middleware/csrf_middleware.cpp:25).
LogoutIsGuarded == \A c \in Conns : LogoutHasSession(c)

\* "Secure headers applied to every response", whoever made it, and those that
\* let another origin read it only for an origin that is allowed.
ResponsesAreSecured ==
    \A c \in Conns : pc[c] = "writing" =>
        resp[c].secure /\ (resp[c].cors => req[c].origin = "allowed")

\* Whichever upgrade a connection reads next: whether the server has room shows
\* in the answer only to someone with a live session; for everybody else the
\* status is the same with and without it.
RoomIsForUsers == \A c \in Conns : pc[c] = "reading" => HidesRoom

\* A connection that is not upgraded ends: after one response, or without.
ConnectionsEnd == \A c \in Conns : pc[c] = "reading" ~> pc[c] = "idle"
=============================================================================
