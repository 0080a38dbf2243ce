---------------------------- MODULE UpgradeProofs ----------------------------
(***************************************************************************)
(* What validateUpgrade answers, for requests of any length and any        *)
(* strings: where it finds the token, whom it admits, and to whom it shows *)
(* that the server is full.                                                *)
(***************************************************************************)
EXTENDS PipelineProofs

\* The upgrades of which the values are taken from a set.  UpgradeType is
\* UpgradesOver(STRING).
UpgradesOver(values) ==
    [query : Seq(values),
     protocol : Seq([name : {"view", "token"}, value : values]),
     cookies : Seq([session : BOOLEAN, value : Tokens]),
     rfc : BOOLEAN]

-----------------------------------------------------------------------------
(* The first cookie and the last item of a name.                           *)

LEMMA CookieFound ==
    ASSUME NEW u, NEW V, u.cookies \in Seq(V)
    PROVE  LET session == {i \in DOMAIN u.cookies : u.cookies[i].session}
           IN  \/ session = {} /\ FromCookie(u) = ""
               \/ \E i \in session : FromCookie(u) = u.cookies[i].value
<1> DEFINE session == {i \in 1..Len(u.cookies) : u.cookies[i].session}
<1>1. Len(u.cookies) \in Nat /\ DOMAIN u.cookies = 1..Len(u.cookies)
  OBVIOUS
<1>2. FromCookie(u) = LET first == IF session # {} THEN Min(session) ELSE 0
                      IN  IF first = 0 THEN "" ELSE u.cookies[first].value
  BY DEF FromCookie, SelectInSeq
<1>3. session # {} => Min(session) \in session
  <2>1. session \subseteq Nat
    BY <1>1
  <2> HIDE DEF session
  <2> QED
    BY <2>1, MinOfSet
<1>4. \A i \in session : i # 0
  BY <1>1
<1>5. session = {i \in DOMAIN u.cookies : u.cookies[i].session}
  BY <1>1
<1> HIDE DEF session
<1>6. \/ session = {} /\ FromCookie(u) = ""
      \/ \E i \in session : FromCookie(u) = u.cookies[i].value
  BY <1>2, <1>3, <1>4
<1> QED
  BY <1>5, <1>6, Zenon

LEMMA ItemFound ==
    ASSUME NEW u, NEW V, u.protocol \in Seq(V), NEW name
    PROVE  \/ FromProtocol(name, u) = ""
           \/ \E i \in DOMAIN u.protocol :
                 u.protocol[i].name = name /\ FromProtocol(name, u) = u.protocol[i].value
<1> DEFINE named == {i \in 1..Len(u.protocol) : u.protocol[i].name = name}
<1>1. Len(u.protocol) \in Nat /\ DOMAIN u.protocol = 1..Len(u.protocol)
  OBVIOUS
<1>2. FromProtocol(name, u) = LET last == IF named # {} THEN Max(named) ELSE 0
                              IN  IF last = 0 THEN "" ELSE u.protocol[last].value
  BY DEF FromProtocol, SelectLastInSeq
<1>3. named # {} => Max(named) \in named
  <2>1. named \subseteq 0..Len(u.protocol)
    BY <1>1
  <2> HIDE DEF named
  <2> QED
    BY <1>1, <2>1, MaxOfSet
<1> QED
  BY <1>1, <1>2, <1>3

-----------------------------------------------------------------------------
(* Whom validateUpgrade admits.                                            *)

LEMMA LiveTokenIsPresented ==
    ASSUME NEW values, NEW u \in UpgradesOver(values), TokenOf(u) = "live"
    PROVE  Presents(u, "live")
<1> DEFINE item == [name : {"view", "token"}, value : values]
<1>1. u.protocol \in Seq(item)
  BY DEF UpgradesOver
<1>2. u.cookies \in Seq([session : BOOLEAN, value : Tokens])
  BY DEF UpgradesOver
<1>3. CASE ProtocolToken(u) # ""
  <2>1. FromProtocol("token", u) = "live"
    BY <1>3 DEF TokenOf, ProtocolToken
  <2>2. PICK i \in DOMAIN u.protocol :
           u.protocol[i].name = "token" /\ u.protocol[i].value = "live"
    <3> HIDE DEF item
    <3>1. \/ FromProtocol("token", u) = ""
          \/ \E i \in DOMAIN u.protocol : /\ u.protocol[i].name = "token"
                                        /\ FromProtocol("token", u) = u.protocol[i].value
      BY <1>1, ItemFound, Zenon
    <3> QED
      BY <2>1, <3>1
  <2> QED
    BY <2>2 DEF Presents
<1>4. CASE ProtocolToken(u) = ""
  <2>1. FromCookie(u) = "live"
    BY <1>4 DEF TokenOf
  <2>2. PICK i \in DOMAIN u.cookies : u.cookies[i].session /\ u.cookies[i].value = "live"
    BY <1>2, <2>1, CookieFound
  <2> QED
    BY <2>2 DEF Presents
<1> QED
  BY <1>3, <1>4

LEMMA RoomShowsInStatus ==
    ASSUME NEW u,
           HttpStatus(ValidateUpgrade(u, TRUE)) # HttpStatus(ValidateUpgrade(u, FALSE))
    PROVE  TokenOf(u) = "live"
BY DEF ValidateUpgrade

LEMMA InputsAreUpgrades ==
    \E values : Inputs \subseteq UpgradesOver(values)
<1> DEFINE values == {"", "cl_view", "sideways", "ir_view", "stale", "live"}
<1>1. ASSUME NEW S, NEW T, S \subseteq T, NEW n \in Nat, NEW s \in SeqOf(S, n)
      PROVE  s \in Seq(T)
  <2>1. PICK m \in 0..n : s \in [1..m -> S]
    BY <1>1 DEF SeqOf
  <2> QED
    BY <1>1, <2>1
<1>2. ASSUME NEW u \in Inputs PROVE u \in UpgradesOver(values)
  <2>1. u.query \in Seq(values)
    BY <1>1 DEF Inputs
  <2>2. u.protocol \in Seq([name : {"view", "token"}, value : values])
    BY <1>1 DEF Inputs
  <2>3. u.cookies \in Seq([session : BOOLEAN, value : Tokens])
    BY <1>1 DEF Inputs
  <2>4. u = [query |-> u.query, protocol |-> u.protocol, cookies |-> u.cookies, rfc |-> u.rfc]
        /\ u.rfc \in BOOLEAN
    BY DEF Inputs
  <2> QED
    BY <2>1, <2>2, <2>3, <2>4 DEF UpgradesOver
<1> QED
  BY <1>2

LEMMA AllUpgrades == UpgradeType = UpgradesOver(STRING)
BY DEF UpgradeType, UpgradesOver

-----------------------------------------------------------------------------
(* The theorems.                                                           *)

\* validateUpgrade, with room in the server, accepts a request for a view there is
\* that has the headers of RFC 6455 and the session's cookie, and in which every
\* token is live: from wherever the view comes, however many cookies and items
\* there are, and whichever of them it finds.
THEOREM LiveUpgradesAreAccepted ==
    \A u \in UpgradeType :
        /\ ViewOf(u) \in ViewTypes /\ u.rfc
        /\ \E i \in DOMAIN u.cookies : u.cookies[i].session
        /\ \A token : Presents(u, token) => token = "live"
        => ValidateUpgrade(u, FALSE) = "kOk"
<1> SUFFICES ASSUME NEW u \in UpgradeType, ViewOf(u) \in ViewTypes, u.rfc,
                    \E i \in DOMAIN u.cookies : u.cookies[i].session,
                    \A token : Presents(u, token) => token = "live"
             PROVE  ValidateUpgrade(u, FALSE) = "kOk"
  OBVIOUS
<1>1. /\ u.protocol \in Seq([name : {"view", "token"}, value : STRING])
      /\ u.cookies \in Seq([session : BOOLEAN, value : Tokens])
  BY DEF UpgradeType
<1>2. FromCookie(u) = "live"
  <2>1. PICK i \in DOMAIN u.cookies : u.cookies[i].session /\ FromCookie(u) = u.cookies[i].value
    BY <1>1, CookieFound
  <2> QED
    BY <2>1 DEF Presents
<1>3. ProtocolToken(u) \in {"", "live"}
  <2>1. CASE FromProtocol("token", u) = ""
    BY <2>1 DEF ProtocolToken
  <2>2. CASE FromProtocol("token", u) # ""
    <3>1. PICK i \in DOMAIN u.protocol : /\ u.protocol[i].name = "token"
                                        /\ FromProtocol("token", u) = u.protocol[i].value
      BY <1>1, <2>2, ItemFound, Zenon
    <3>2. Presents(u, FromProtocol("token", u))
      BY <3>1 DEF Presents
    <3> QED
      BY <3>2 DEF ProtocolToken
  <2> QED
    BY <2>1, <2>2
<1>4. TokenOf(u) = "live"
  BY <1>2, <1>3 DEF TokenOf
<1> QED
  BY <1>4 DEF ValidateUpgrade

\* validateUpgrade checks the capacity after the session: the status of the
\* answer depends on whether there is room only if a live token is presented.
THEOREM RoomIsHidden ==
    /\ \A u \in UpgradeType :
          HttpStatus(ValidateUpgrade(u, TRUE)) # HttpStatus(ValidateUpgrade(u, FALSE)) =>
              Presents(u, "live")
    /\ Spec => []RoomIsForUsers
<1>1. \A u \in UpgradeType :
         HttpStatus(ValidateUpgrade(u, TRUE)) # HttpStatus(ValidateUpgrade(u, FALSE)) =>
             Presents(u, "live")
  BY AllUpgrades, RoomShowsInStatus, LiveTokenIsPresented
<1>2. RoomIsForUsers
  <2>1. PICK values : Inputs \subseteq UpgradesOver(values)
    BY InputsAreUpgrades
  <2> QED
    BY <2>1, RoomShowsInStatus, LiveTokenIsPresented DEF RoomIsForUsers, HidesRoom
<1> QED
  BY <1>1, <1>2, PTL

\* validateUpgrade accepts nothing but a view there is, from someone who presents
\* a live token, with the headers of RFC 6455, and while there is room.
THEOREM OnlySessionsGetStreams ==
    \A u \in UpgradeType, full \in BOOLEAN :
        ValidateUpgrade(u, full) = "kOk" =>
            ViewOf(u) \in ViewTypes /\ Presents(u, "live") /\ u.rfc /\ ~full
<1> SUFFICES ASSUME NEW u \in UpgradeType, NEW full \in BOOLEAN,
                    ValidateUpgrade(u, full) = "kOk"
             PROVE  ViewOf(u) \in ViewTypes /\ Presents(u, "live") /\ u.rfc /\ ~full
  OBVIOUS
<1>1. ViewOf(u) \in ViewTypes /\ TokenOf(u) = "live" /\ u.rfc /\ ~full
  BY DEF ValidateUpgrade
<1> QED
  BY <1>1, AllUpgrades, LiveTokenIsPresented
==============================================================================
