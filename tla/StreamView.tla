----------------------------- MODULE StreamView -----------------------------
(***************************************************************************)
(* The stream page of the web UI: one WebSocket per selected view, whose   *)
(* frames are decoded as images and drawn on the canvas of their channel.  *)
(*                                                                         *)
(* Everything runs on the browser's one thread, so a handler is one step;  *)
(* what makes it hard is what is still under way when the view changes:    *)
(* sockets that were told to close report that later, and images are       *)
(* decoded for canvases that may be gone by then.                          *)
(***************************************************************************)
EXTENDS FiniteSets

CONSTANTS
    Sockets,    \* bound: WebSocket objects that are not collected yet
    None        \* no socket

Views    == {"cl_view", "ir_view", "both_views"}
Channels == {"cl", "ir"}

ASSUME StreamViewAssumption == None \notin Sockets

VARIABLES
    mounted,       \* whether the page is shown
    selectedView,
    ws,            \* the current socket, or None
    wsState,       \* what the badge says
    canvasRefs,    \* the channels whose shown canvas a frame can be drawn on
    hasSignal,     \* the channels whose "No signal" is hidden
    sockets,       \* readyState of each socket
    decodes,       \* images being decoded, and whether their canvas is shown
    drawn,         \* the shown canvases that hold a picture
    late           \* what has answered for a view that was left: "error", channels

viewVars == <<mounted, selectedView, ws, wsState, canvasRefs, hasSignal,
              sockets, decodes, drawn, late>>

ChannelsOf(view) ==
    {"cl" : v \in {view} \cap {"cl_view", "both_views"}} \cup
    {"ir" : v \in {view} \cap {"ir_view", "both_views"}}

\* "aborted"  closed before it was open: it will fail
\* "closing"  closed when it was open
\* "closed"   it has reported its end, or is a new object
ReadyStates == {"connecting", "open", "aborted", "closing", "closed"}

ViewTypeOK ==
    /\ mounted \in BOOLEAN
    /\ selectedView \in Views
    /\ ws \in IF mounted THEN Sockets ELSE {None}
    /\ wsState \in {"connected", "connecting", "disconnected"}
    /\ canvasRefs \subseteq Channels /\ hasSignal \subseteq Channels
    /\ sockets \in [Sockets -> ReadyStates]
    /\ decodes \subseteq [channel : Channels, shown : BOOLEAN]
    /\ drawn \subseteq Channels
    /\ late \subseteq {"error"} \cup Channels

ViewInit ==
    /\ mounted = FALSE
    /\ selectedView = "cl_view"
    /\ ws = None
    /\ wsState = "disconnected"
    /\ canvasRefs = {} /\ hasSignal = {}
    /\ sockets = [s \in Sockets |-> "closed"]
    /\ decodes = {} /\ drawn = {} /\ late = {}

-----------------------------------------------------------------------------
(* Sockets.                                                                *)

\* Mutant: the socket is forgotten, not closed.
AfterClose_Open(state) == state

\* What close() makes of a socket.
AfterClose(state) ==
    CASE state = "connecting" -> "aborted"
      [] state = "open"       -> "closing"
      [] OTHER                -> state

\* The sockets once closeWs() has run; only handlers other than onclose are left
\* on the one that was current.
Closed == [s \in Sockets |-> IF s = ws THEN AfterClose(sockets[s]) ELSE sockets[s]]

\* connect(), with a socket object that is new or was collected.
Connects(s) ==
    /\ s # ws
    /\ sockets[s] = "closed"
    /\ sockets' = [Closed EXCEPT ![s] = "connecting"]
    /\ ws' = s
    /\ wsState' = "connecting"

\* mounted(), for a component with the data of a new one.
Mounts(s) ==
    /\ ~mounted
    /\ mounted' = TRUE
    /\ selectedView' = "cl_view"
    /\ Connects(s)
    /\ canvasRefs' = ChannelsOf("cl_view")
    /\ hasSignal' = {} /\ drawn' = {} /\ decodes' = {} /\ late' = {}

\* Mutant: `ws` is not set to null.
Unmounts_KeepsSocket ==
    /\ mounted
    /\ mounted' = FALSE
    /\ sockets' = [s \in Sockets |->
          IF Closed[s] \in {"aborted", "closing"} THEN "closed" ELSE Closed[s]]
    /\ wsState' = "disconnected"
    /\ canvasRefs' = {} /\ hasSignal' = {} /\ drawn' = {} /\ decodes' = {}
    /\ late' = {}
    /\ UNCHANGED <<ws, selectedView>>

\* beforeUnmount().  What closed sockets and images report from now on, they report
\* to a component that nobody sees.
Unmounts ==
    /\ mounted
    /\ mounted' = FALSE
    /\ sockets' = [s \in Sockets |->
          IF Closed[s] \in {"aborted", "closing"} THEN "closed" ELSE Closed[s]]
    /\ ws' = None
    /\ wsState' = "disconnected"
    /\ canvasRefs' = {} /\ hasSignal' = {} /\ drawn' = {} /\ decodes' = {}
    /\ late' = {}
    /\ UNCHANGED selectedView

-----------------------------------------------------------------------------
(* Another view.                                                           *)

\* Mutant: a canvas is only known once, when it is made.
Refilled_NewOnly(view) == ChannelsOf(view) \ ChannelsOf(selectedView)

\* The render that follows calls the ref function of every canvas it shows.
Refilled(view) == ChannelsOf(view)

\* The canvas of a channel that both views show is kept, picture and all.
Kept(view) == ChannelsOf(selectedView) \cap ChannelsOf(view)

Detached(view) ==
    {[d EXCEPT !.shown = d.shown /\ d.channel \in Kept(view)] : d \in decodes}

\* Mutant: hasSignal is not reset.
SelectsView_KeepsSignal(view, s) ==
    /\ mounted
    /\ view # selectedView
    /\ selectedView' = view
    /\ canvasRefs' = Refilled(view)
    /\ Connects(s)
    /\ drawn' = drawn \cap Kept(view)
    /\ decodes' = Detached(view)
    /\ late' = {}
    /\ UNCHANGED <<mounted, hasSignal>>

\* selectView(), the watcher and the render, in one turn of the event loop.
SelectsView(view, s) ==
    /\ mounted
    /\ view # selectedView
    /\ selectedView' = view
    /\ hasSignal' = {}
    /\ canvasRefs' = Refilled(view)
    /\ Connects(s)
    /\ drawn' = drawn \cap Kept(view)
    /\ decodes' = Detached(view)
    /\ late' = {}
    /\ UNCHANGED mounted

-----------------------------------------------------------------------------
(* Events of the sockets.                                                  *)

PageKeeps == UNCHANGED <<mounted, selectedView, ws, canvasRefs, hasSignal,
                         decodes, drawn>>

Ends(s) == sockets' = [sockets EXCEPT ![s] = "closed"]

\* onopen.
SocketOpens(s) ==
    /\ sockets[s] = "connecting"
    /\ sockets' = [sockets EXCEPT ![s] = "open"]
    /\ wsState' = "connected"
    /\ PageKeeps /\ UNCHANGED late

\* onerror, which closeWs leaves in place, and then the close event: refused,
\* aborted, or broken off.
SocketFails(s) ==
    /\ sockets[s] \in {"connecting", "open", "aborted", "closing"}
    /\ Ends(s)
    /\ wsState' = "disconnected"
    /\ late' = IF s = ws THEN late ELSE late \cup {"error"}
    /\ PageKeeps

\* Mutant: there is no onclose.
SocketCloses_Unseen(s) ==
    /\ sockets[s] \in {"open", "closing"}
    /\ Ends(s)
    /\ PageKeeps /\ UNCHANGED <<wsState, late>>

\* onclose, which closeWs has cleared on every socket but the current one.
SocketCloses(s) ==
    /\ sockets[s] \in {"open", "closing"}
    /\ Ends(s)
    /\ wsState' = IF s = ws THEN "disconnected" ELSE wsState
    /\ PageKeeps /\ UNCHANGED late

\* onmessage and handleFrame.  No message arrives once a socket is closing.
FrameArrives(channel) ==
    /\ mounted /\ ws # None /\ sockets[ws] = "open"
    /\ channel \in ChannelsOf(selectedView) \cap canvasRefs
    /\ decodes' = decodes \cup {[channel |-> channel, shown |-> TRUE]}
    /\ UNCHANGED <<mounted, selectedView, ws, wsState, canvasRefs, hasSignal,
                   sockets, drawn, late>>

\* img.onload: the picture is drawn on the canvas that was there when the frame
\* came, and the channel has a signal.  Several images may be under way for one
\* canvas, in which case there are others left.
ImageLoads(d) ==
    /\ d \in decodes
    /\ decodes' \in {decodes, decodes \ {d}}
    /\ drawn' = IF d.shown THEN drawn \cup {d.channel} ELSE drawn
    /\ hasSignal' = hasSignal \cup {d.channel}
    /\ late' = IF d.shown THEN late ELSE late \cup {d.channel}
    /\ UNCHANGED <<mounted, selectedView, ws, wsState, canvasRefs, sockets>>

-----------------------------------------------------------------------------
(* The specification.                                                      *)

SocketStep(s) == SocketOpens(s) \/ SocketFails(s) \/ SocketCloses(s)

Decodes == [channel : Channels, shown : BOOLEAN]

PageStep ==
    \/ \E s \in Sockets : SocketStep(s)
    \/ \E channel \in Channels : FrameArrives(channel)
    \/ \E d \in Decodes : ImageLoads(d)

UserStep ==
    \/ \E s \in Sockets : Mounts(s) \/ \E view \in Views : SelectsView(view, s)
    \/ Unmounts

ViewNext == PageStep \/ UserStep

ViewSpec == ViewInit /\ [][ViewNext]_viewVars

\* The browser ends what was begun; a server that streams goes on doing so.
ViewFairness ==
    /\ \A s \in Sockets :
          WF_viewVars(sockets[s] \in {"connecting", "aborted", "closing"} /\ SocketStep(s))
    /\ \A channel \in Channels : WF_viewVars(FrameArrives(channel))
    /\ \A d \in Decodes : WF_viewVars(ImageLoads(d))

ViewFairSpec == ViewSpec /\ ViewFairness

-----------------------------------------------------------------------------
(* Properties.                                                             *)

\* However fast views are changed and pages left, the server never has more than
\* one connection of this page that nobody has told to close.
OneLiveSocket ==
    \A s \in Sockets : sockets[s] \in {"connecting", "open"} => mounted /\ s = ws

\* The badge says "Connected" only while the current socket is.
ConnectedMeansOpen == wsState = "connected" => ws # None /\ sockets[ws] = "open"

\* The page tells the truth about its stream unless something that was begun for
\* an earlier view has answered since: the error of an old socket, or an image
\* for a canvas that was replaced.
WrongOnlyWhenLate ==
    mounted =>
        /\ sockets[ws] = "open" => wsState = "connected" \/ "error" \in late
        /\ hasSignal \cap ChannelsOf(selectedView) \subseteq drawn \cup late

\* A view that stays selected over an open socket shows every channel of its own,
\* whichever view was left for it.
SignalAppears ==
    \A view \in Views : \A channel \in ChannelsOf(view) :
        (mounted /\ selectedView = view /\ sockets[ws] = "open") ~>
            \/ channel \in hasSignal \cap drawn
            \/ ~mounted \/ selectedView # view \/ sockets[ws] # "open"
==============================================================================
