-------------------------- MODULE StreamViewProofs --------------------------
(***************************************************************************)
(* Proofs about StreamView for any number of socket objects.               *)
(*                                                                         *)
(* The invariant adds to the properties that an image whose canvas is      *)
(* shown is one for a channel of the selected view, and that the badge of  *)
(* a page that is left says "Disconnected".                                *)
(***************************************************************************)
EXTENDS StreamView, TLAPS

DecodeInv ==
    \A d \in decodes : d.shown => d.channel \in ChannelsOf(selectedView)

LeftInv ==
    ~mounted => wsState = "disconnected" /\ hasSignal = {} /\ decodes = {}

IInv ==
    /\ ViewTypeOK /\ OneLiveSocket /\ ConnectedMeansOpen /\ WrongOnlyWhenLate
    /\ DecodeInv /\ LeftInv

LEMMA ChannelsType == \A view : ChannelsOf(view) \subseteq Channels
BY DEF ChannelsOf, Channels

\* What closeWs leaves: no socket is connecting or open.
LEMMA ClosedType ==
    ASSUME ViewTypeOK, OneLiveSocket
    PROVE  Closed \in [Sockets -> {"aborted", "closing", "closed"}]
BY DEF ViewTypeOK, OneLiveSocket, Closed, AfterClose, ReadyStates

LEMMA InvInit == ViewInit => IInv
BY StreamViewAssumption, ChannelsType
   DEF ViewInit, IInv, ViewTypeOK, OneLiveSocket, ConnectedMeansOpen, WrongOnlyWhenLate,
       DecodeInv, LeftInv, Views, ReadyStates

\* A new socket is the only one that is not closed, and the page says so.
LEMMA ConnectsStep ==
    ASSUME ViewTypeOK, OneLiveSocket, NEW s \in Sockets, Connects(s), mounted'
    PROVE  /\ sockets' \in [Sockets -> ReadyStates]
           /\ ws' = s /\ sockets'[s] = "connecting" /\ wsState' = "connecting"
           /\ OneLiveSocket' /\ ConnectedMeansOpen'
<1>1. /\ sockets' = [Closed EXCEPT ![s] = "connecting"]
      /\ ws' = s /\ wsState' = "connecting"
  BY DEF Connects
<1>2. sockets' \in [Sockets -> ReadyStates] /\ sockets'[s] = "connecting"
  BY <1>1, ClosedType DEF ReadyStates
<1>3. \A t \in Sockets \ {s} : sockets'[t] \in {"aborted", "closing", "closed"}
  BY <1>1, ClosedType
<1>4. OneLiveSocket'
  BY <1>1, <1>3 DEF OneLiveSocket
<1>. QED BY <1>1, <1>2, <1>4 DEF ConnectedMeansOpen

LEMMA InvMounts ==
    ASSUME IInv, NEW s \in Sockets, Mounts(s)
    PROVE  IInv'
<1>1. /\ sockets' \in [Sockets -> ReadyStates]
      /\ ws' = s /\ sockets'[s] = "connecting" /\ wsState' = "connecting"
      /\ OneLiveSocket' /\ ConnectedMeansOpen'
  BY ConnectsStep DEF IInv, Mounts
<1>2. ViewTypeOK'
  BY <1>1, ChannelsType DEF Mounts, ViewTypeOK, Views
<1>3. WrongOnlyWhenLate' /\ DecodeInv' /\ LeftInv'
  BY <1>1 DEF Mounts, WrongOnlyWhenLate, DecodeInv, LeftInv
<1>. QED BY <1>1, <1>2, <1>3 DEF IInv

LEMMA InvSelects ==
    ASSUME IInv, NEW view \in Views, NEW s \in Sockets, SelectsView(view, s)
    PROVE  IInv'
<1>1. /\ sockets' \in [Sockets -> ReadyStates]
      /\ ws' = s /\ sockets'[s] = "connecting" /\ wsState' = "connecting"
      /\ OneLiveSocket' /\ ConnectedMeansOpen'
  BY ConnectsStep DEF IInv, SelectsView
<1>2. decodes' \subseteq [channel : Channels, shown : BOOLEAN] /\ DecodeInv'
  BY DEF IInv, ViewTypeOK, SelectsView, Detached, DecodeInv, Kept
<1>3. ViewTypeOK'
  BY <1>1, <1>2, ChannelsType DEF IInv, SelectsView, ViewTypeOK, Refilled
<1>4. WrongOnlyWhenLate' /\ LeftInv'
  BY <1>1 DEF SelectsView, WrongOnlyWhenLate, LeftInv
<1>. QED BY <1>1, <1>2, <1>3, <1>4 DEF IInv

LEMMA InvUnmounts ==
    ASSUME IInv, Unmounts
    PROVE  IInv'
<1>1. sockets' \in [Sockets -> {"closed"}]
  BY ClosedType DEF IInv, Unmounts
<1>2. ViewTypeOK'
  BY <1>1 DEF IInv, Unmounts, ViewTypeOK, ReadyStates
<1>. QED
  BY <1>1, <1>2 DEF IInv, Unmounts, OneLiveSocket, ConnectedMeansOpen, WrongOnlyWhenLate,
                    DecodeInv, LeftInv

\* Only the current socket can open: the others were closed.
LEMMA InvOpens ==
    ASSUME IInv, NEW s \in Sockets, SocketOpens(s)
    PROVE  IInv'
<1>1. mounted /\ s = ws
  BY DEF IInv, OneLiveSocket, SocketOpens
<1>2. /\ sockets' \in [Sockets -> ReadyStates] /\ sockets'[s] = "open"
      /\ \A t \in Sockets \ {s} : sockets'[t] = sockets[t]
  BY DEF IInv, ViewTypeOK, SocketOpens, ReadyStates
<1>3. ViewTypeOK'
  BY <1>2 DEF IInv, ViewTypeOK, SocketOpens, PageKeeps
<1>4. OneLiveSocket'
  BY <1>1, <1>2 DEF IInv, OneLiveSocket, SocketOpens, PageKeeps
<1>5. ConnectedMeansOpen'
  BY <1>1, <1>2, StreamViewAssumption DEF ConnectedMeansOpen, SocketOpens, PageKeeps
<1>6. WrongOnlyWhenLate'
  BY <1>1 DEF IInv, WrongOnlyWhenLate, SocketOpens, PageKeeps
<1>7. DecodeInv' /\ LeftInv'
  BY <1>1 DEF IInv, DecodeInv, LeftInv, SocketOpens, PageKeeps
<1>. QED BY <1>3, <1>4, <1>5, <1>6, <1>7 DEF IInv

LEMMA InvSocket ==
    ASSUME IInv, NEW s \in Sockets, SocketStep(s)
    PROVE  IInv'
<1>. USE DEF IInv, PageKeeps, ViewTypeOK, OneLiveSocket, ConnectedMeansOpen,
             WrongOnlyWhenLate, DecodeInv, LeftInv, ReadyStates
<1>1. CASE SocketOpens(s)
  BY <1>1, InvOpens
<1>2. CASE SocketFails(s)
  BY <1>2 DEF SocketFails, Ends
<1>3. CASE SocketCloses(s)
  BY <1>3 DEF SocketCloses, Ends
<1>. QED BY <1>1, <1>2, <1>3 DEF SocketStep

LEMMA InvFrame ==
    ASSUME IInv, NEW channel \in Channels, FrameArrives(channel)
    PROVE  IInv'
<1>. DEFINE d == [channel |-> channel, shown |-> TRUE]
<1>1. d \in [channel : Channels, shown : BOOLEAN] /\ d.channel \in ChannelsOf(selectedView)
  BY DEF FrameArrives
<1>2. decodes' = decodes \cup {d} /\ selectedView' = selectedView
  BY DEF FrameArrives
<1>. HIDE DEF d
<1>3. decodes' \subseteq [channel : Channels, shown : BOOLEAN] /\ DecodeInv'
  BY <1>1, <1>2 DEF IInv, ViewTypeOK, DecodeInv
<1>4. ViewTypeOK'
  BY <1>3 DEF IInv, ViewTypeOK, FrameArrives
<1>5. OneLiveSocket' /\ ConnectedMeansOpen' /\ WrongOnlyWhenLate' /\ LeftInv'
  BY DEF IInv, OneLiveSocket, ConnectedMeansOpen, WrongOnlyWhenLate, LeftInv, FrameArrives
<1>. QED BY <1>3, <1>4, <1>5 DEF IInv

\* An image whose canvas is shown fills that canvas; another one is late.
LEMMA InvImage ==
    ASSUME IInv, NEW d \in Decodes, ImageLoads(d)
    PROVE  IInv'
<1>1. mounted /\ d.channel \in Channels
  BY DEF IInv, LeftInv, ImageLoads, Decodes
<1>2. decodes' \subseteq decodes
  BY DEF ImageLoads
<1>3. ViewTypeOK'
  BY <1>1, <1>2 DEF IInv, ViewTypeOK, ImageLoads
<1>4. OneLiveSocket' /\ ConnectedMeansOpen'
  BY DEF IInv, OneLiveSocket, ConnectedMeansOpen, ImageLoads
<1>5. WrongOnlyWhenLate'
  BY <1>1 DEF IInv, WrongOnlyWhenLate, ImageLoads
<1>6. DecodeInv' /\ LeftInv'
  BY <1>1, <1>2 DEF IInv, DecodeInv, LeftInv, ImageLoads
<1>. QED BY <1>3, <1>4, <1>5, <1>6 DEF IInv

THEOREM Invariance == ViewSpec => []IInv
<1>1. ViewInit => IInv
  BY InvInit
<1>2. IInv /\ [ViewNext]_viewVars => IInv'
  <2>1. CASE UNCHANGED viewVars
    BY <2>1 DEF viewVars, IInv, ViewTypeOK, OneLiveSocket, ConnectedMeansOpen,
                WrongOnlyWhenLate, DecodeInv, LeftInv
  <2>. QED
    BY <2>1, InvMounts, InvSelects, InvUnmounts, InvSocket, InvFrame, InvImage
    DEF ViewNext, PageStep, UserStep
<1>. QED BY <1>1, <1>2, PTL DEF ViewSpec

\* The page's state keeps its type: a page that is shown has a socket object, and
\* one that is left has none.
THEOREM ViewTypeCorrect == ViewSpec => []ViewTypeOK
BY Invariance, PTL DEF IInv

\* Changing the view and leaving the page closes every socket that was made.
THEOREM NoSocketIsLeftOpen == ViewSpec => []OneLiveSocket
BY Invariance, PTL DEF IInv

\* "Connected" is never shown over a socket that is not open.
THEOREM ConnectedIsTrue == ViewSpec => []ConnectedMeansOpen
BY Invariance, PTL DEF IInv

\* The page is only ever wrong because of what was begun for an earlier view.
THEOREM WrongWhenLate == ViewSpec => []WrongOnlyWhenLate
BY Invariance, PTL DEF IInv
==============================================================================
