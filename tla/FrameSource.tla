----------------------------- MODULE FrameSource -----------------------------
(***************************************************************************)
(* FileFrameSource: one background thread per channel that reads a video   *)
(* file, encodes each picture as JPEG and hands it to a callback.          *)
(*                                                                         *)
(* The module gives the object's state and one action per step that other  *)
(* threads can observe: the two calls, start() and stop(), and the steps   *)
(* of loop().  StreamManager composes these with its own locks; what the   *)
(* callback does is StreamManager's business.                              *)
(*                                                                         *)
(* start() and stop() are split in two because both may block: the call    *)
(* clears running_, and the return needs the old thread to have ended.     *)
(* Nothing here keeps two callers apart: the class has no lock of its own. *)
(***************************************************************************)
EXTENDS Integers

CONSTANT
    Sources       \* the channels with a registered source (CL is 0, IR is 1)

ASSUME SourcesAssumption == Sources \subseteq {0, 1}

VARIABLES
    running,   \* running_ of each source: the atomic flag its loop reads
    thread,    \* where each source's thread is; "none" is a handle that is
               \* not joinable, "done" a thread that ended and was not joined
    call       \* the method some caller is inside: "none", "start" or "stop"

sourceVars == <<running, thread, call>>

ThreadStates == {"none", "setup", "loop", "callback", "done"}

SourceTypeOK ==
    /\ running \in [Sources -> BOOLEAN]
    /\ thread \in [Sources -> ThreadStates]
    /\ call \in [Sources -> {"none", "start", "stop"}]

SourceInit ==
    /\ running = [ch \in Sources |-> FALSE]
    /\ thread = [ch \in Sources |-> "none"]
    /\ call = [ch \in Sources |-> "none"]

-----------------------------------------------------------------------------
(* The caller's side.                                                      *)

\* thread_.join() returns, or the handle was not joinable to begin with.
Joined(ch) == thread[ch] \in {"none", "done"}

\* Mutant: stop() forgets to clear the flag the loop reads.
CallStop_FlagKept(ch) ==
    /\ call' = [call EXCEPT ![ch] = "stop"]
    /\ UNCHANGED <<running, thread>>

\* stop(): running_ = false, then wait for the thread.
CallStop(ch) ==
    /\ call' = [call EXCEPT ![ch] = "stop"]
    /\ running' = [running EXCEPT ![ch] = FALSE]
    /\ UNCHANGED thread

\* Mutant: stop() leaves the thread running behind it (a detach for a join).
StopReturns_NoJoin(ch) ==
    /\ call[ch] = "stop"
    /\ call' = [call EXCEPT ![ch] = "none"]
    /\ UNCHANGED <<running, thread>>

StopReturns(ch) ==
    /\ call[ch] = "stop"
    /\ Joined(ch)
    /\ call' = [call EXCEPT ![ch] = "none"]
    /\ thread' = [thread EXCEPT ![ch] = "none"]
    /\ UNCHANGED running

\* start() begins with stop().
CallStart(ch) ==
    /\ call' = [call EXCEPT ![ch] = "start"]
    /\ running' = [running EXCEPT ![ch] = FALSE]
    /\ UNCHANGED thread

\* Mutant: the flag is raised by the new thread's creator too late to be seen.
StartReturns_FlagLow(ch) ==
    /\ call[ch] = "start"
    /\ Joined(ch)
    /\ call' = [call EXCEPT ![ch] = "none"]
    /\ thread' = [thread EXCEPT ![ch] = "setup"]
    /\ UNCHANGED running

\* callback_ = ..., running_ = true, thread_ = std::thread(loop).
StartReturns(ch) ==
    /\ call[ch] = "start"
    /\ Joined(ch)
    /\ call' = [call EXCEPT ![ch] = "none"]
    /\ running' = [running EXCEPT ![ch] = TRUE]
    /\ thread' = [thread EXCEPT ![ch] = "setup"]

\* std::thread's constructor throws: running_ is already true and the old
\* thread is joined.
StartThrows(ch) ==
    /\ call[ch] = "start"
    /\ Joined(ch)
    /\ call' = [call EXCEPT ![ch] = "none"]
    /\ running' = [running EXCEPT ![ch] = TRUE]
    /\ thread' = [thread EXCEPT ![ch] = "none"]

-----------------------------------------------------------------------------
(* The thread: loop().                                                     *)

Goes(ch, from, to) ==
    /\ thread[ch] = from
    /\ thread' = [thread EXCEPT ![ch] = to]
    /\ UNCHANGED <<running, call>>

\* The container, the decoder and the encoder are open.
Opened(ch) == Goes(ch, "setup", "loop")

\* One of the early returns: no such file, no video stream, no codec.
OpenFails(ch) == Goes(ch, "setup", "done")

\* A picture was decoded and encoded; running_ was true when last read and
\* may be false by the time the callback runs.
FrameReady(ch) == running[ch] /\ Goes(ch, "loop", "callback")

\* av_read_frame failed with something other than end of file.
ReadError(ch) == running[ch] /\ Goes(ch, "loop", "done")

LoopEnds(ch) == ~running[ch] /\ Goes(ch, "loop", "done")

CallbackReturns(ch) == Goes(ch, "callback", "loop")
==============================================================================
