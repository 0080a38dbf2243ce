----------------------------- MODULE MCPipeline -----------------------------
(* Pipeline on small instances, for TLC.                                   *)
EXTENDS Pipeline, TLC

\* A path in its plain spelling: one slash before each segment.
Plain(path) == IF path = <<>> THEN <<1>> ELSE Append([i \in DOMAIN path |-> 1], 0)

Request(method, path, slashes, token, csrf, origin) ==
    [method |-> method, path |-> path, slashes |-> slashes, query |-> FALSE,
     token |-> token, csrf |-> csrf, origin |-> origin]

SomeSegments == {"api", "v1", "login", "logout", "stream", "users", Wild}

\* One request for each way through the pipeline, and spellings that the router
\* and the middlewares read differently.
EachWay == {
    Request("POST", LoginPath, Plain(LoginPath), "none", FALSE, "allowed"),
    Request("POST", LogoutPath, Plain(LogoutPath), "live", TRUE, "none"),
    Request("POST", LogoutPath, <<1, 2, 1, 0>>, "live", FALSE, "none"),
    Request("POST", LogoutPath, <<1, 1, 1, 1>>, "stale", TRUE, "none"),
    Request("POST", LogoutPath, <<2, 1, 1, 0>>, "none", FALSE, "none"),
    Request("POST", LoginPath, <<1, 2, 1, 0>>, "none", FALSE, "none"),
    Request("GET", StreamPath, Plain(StreamPath), "none", FALSE, "none"),
    Request("GET", <<>>, Plain(<<>>), "none", FALSE, "allowed"),
    Request("GET", <<"login">>, <<1, 0>>, "none", FALSE, "other"),
    Request("GET", <<"api", "v1", "users">>, <<1, 1, 1, 0>>, "live", FALSE, "none"),
    Request("OPTIONS", LoginPath, Plain(LoginPath), "none", FALSE, "allowed") }

\* The page's upgrade with a live session, an old one, and none; and one that
\* asks for a view there is not.
PageUpgrade(view, token) ==
    [query |-> <<view>>, protocol |-> << >>, rfc |-> TRUE,
     cookies |-> IF token = "" THEN << >> ELSE <<[session |-> TRUE, value |-> token]>>]

EachUpgrade ==
    {PageUpgrade("cl_view", token) : token \in {"", "stale", "live"}}
        \cup {PageUpgrade("sideways", "live")}
=============================================================================
