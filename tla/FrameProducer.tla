---------------------------- MODULE FrameProducer ----------------------------
(***************************************************************************)
(* What the sources promise to whoever registers a callback with them, as  *)
(* the interface IFrameSource is used: a callback fires only between a     *)
(* start() and the return of the next stop(), never twice at once on one   *)
(* channel, and stop() returns with no callback left in flight.  A source  *)
(* may fall silent while started (its file ends in an error); it may not   *)
(* speak once stop() has returned.                                         *)
(***************************************************************************)

CONSTANT Sources

VARIABLES
    phase,   \* "stopped", "started" or "stopping" (stop() has been called)
    firing   \* TRUE while the channel's callback runs

producerVars == <<phase, firing>>

Init ==
    /\ phase = [ch \in Sources |-> "stopped"]
    /\ firing = [ch \in Sources |-> FALSE]

Moves(ch, from, to) ==
    /\ phase[ch] = from
    /\ phase' = [phase EXCEPT ![ch] = to]
    /\ UNCHANGED firing

Start(ch)      == Moves(ch, "stopped", "started")
StopCalled(ch) == Moves(ch, "started", "stopping")
StopReturn(ch) == ~firing[ch] /\ Moves(ch, "stopping", "stopped")

Fire(ch) ==
    /\ phase[ch] # "stopped" /\ ~firing[ch]
    /\ firing' = [firing EXCEPT ![ch] = TRUE]
    /\ UNCHANGED phase

Returned(ch) ==
    /\ firing[ch]
    /\ firing' = [firing EXCEPT ![ch] = FALSE]
    /\ UNCHANGED phase

Next == \E ch \in Sources :
    Start(ch) \/ StopCalled(ch) \/ StopReturn(ch) \/ Fire(ch) \/ Returned(ch)

Spec == Init /\ [][Next]_producerVars
==============================================================================
