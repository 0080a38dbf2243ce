------------------------------- MODULE Upgrade -------------------------------
(***************************************************************************)
(* WebSocketHandler::validateUpgrade: where the view and the token of a    *)
(* stream come from, and in which order a request is refused.  Pure: the   *)
(* session store's answer is part of a token ("live" or "stale"), that of  *)
(* clientCount() is the parameter `full`.  "" is a value that is empty or  *)
(* absent.                                                                 *)
(***************************************************************************)
EXTENDS Naturals, SequencesExt, FiniteSets

ViewTypes == {"cl_view", "ir_view", "both_views",
              "cl_sub_view", "ir_sub_view", "both_sub_views"}

Tokens == {"", "stale", "live"}

\* What the server reads of a request: the values of the target's parameters
\* `view`, the items of Sec-WebSocket-Protocol, the cookies, and whether the
\* headers of RFC 6455 are all there.  A cookie is one of "session" if the text
\* "session=" occurs in it, at the end of another name or in a value too; its value
\* is then what follows that.
UpgradeType ==
    [query : Seq(STRING),
     protocol : Seq([name : {"view", "token"}, value : STRING]),
     cookies : Seq([session : BOOLEAN, value : Tokens]),
     rfc : BOOLEAN]

FirstOf(values) == IF values = << >> THEN "" ELSE Head(values)

\* parseProtocolHeader goes on to the end: the last item of a name counts.
FromProtocol(name, u) ==
    LET last == SelectLastInSeq(u.protocol, LAMBDA item : item.name = name)
    IN  IF last = 0 THEN "" ELSE u.protocol[last].value

\* The first place where find() succeeds counts, even if the server's own cookie
\* comes later.
FromCookie(u) ==
    LET first == SelectInSeq(u.cookies, LAMBDA cookie : cookie.session)
    IN  IF first = 0 THEN "" ELSE u.cookies[first].value

\* The header is read only for a request whose target names no view.
ViewOf(u) ==
    IF FirstOf(u.query) # "" THEN FirstOf(u.query) ELSE FromProtocol("view", u)

ProtocolToken(u) ==
    IF FirstOf(u.query) # "" THEN "" ELSE FromProtocol("token", u)

TokenOf(u) == IF ProtocolToken(u) # "" THEN ProtocolToken(u) ELSE FromCookie(u)

\* Mutant: the capacity is checked before the session.
ValidateUpgrade_CapacityFirst(u, full) ==
    IF ViewOf(u) \notin ViewTypes THEN "kInvalidStreamType"
    ELSE IF full THEN "kCapacityExceeded"
    ELSE IF TokenOf(u) = "" THEN "kUnauthorized"
    ELSE IF TokenOf(u) # "live" THEN "kInvalidToken"
    ELSE IF ~u.rfc THEN "kInvalidWebSocketUpgrade"
    ELSE "kOk"

ValidateUpgrade(u, full) ==
    IF ViewOf(u) \notin ViewTypes THEN "kInvalidStreamType"
    ELSE IF TokenOf(u) = "" THEN "kUnauthorized"
    ELSE IF TokenOf(u) # "live" THEN "kInvalidToken"
    ELSE IF ~u.rfc THEN "kInvalidWebSocketUpgrade"
    ELSE IF full THEN "kCapacityExceeded"
    ELSE "kOk"

\* errorCodeToHttpStatus, for these codes; 101 is the answer of an upgrade.
HttpStatus(code) ==
    CASE code \in {"kInvalidStreamType", "kInvalidWebSocketUpgrade"} -> 400
      [] code \in {"kUnauthorized", "kInvalidToken"} -> 401
      [] code = "kCapacityExceeded" -> 503
      [] code = "kOk" -> 101

-----------------------------------------------------------------------------
(* What the answers mean, over all requests of bounded length.             *)

Inputs ==
    [query : SeqOf({"", "cl_view", "sideways"}, 2),
     protocol : SeqOf([name : {"view", "token"}, value : {"", "ir_view", "stale", "live"}], 2),
     cookies : SeqOf([session : BOOLEAN, value : Tokens], 2),
     rfc : BOOLEAN]

Presents(u, token) ==
    \/ \E i \in DOMAIN u.protocol : u.protocol[i].name = "token" /\ u.protocol[i].value = token
    \/ \E i \in DOMAIN u.cookies : u.cookies[i].session /\ u.cookies[i].value = token

HidesRoom ==
    \A u \in Inputs :
        HttpStatus(ValidateUpgrade(u, TRUE)) # HttpStatus(ValidateUpgrade(u, FALSE)) =>
            Presents(u, "live")
==============================================================================
