------------------------------ MODULE WatchStream ------------------------------
(***************************************************************************)
(* The watch stream of Firestore's RemoteStore and the OnlineStateTracker  *)
(* it drives: whether the client counts as online decides when a listener  *)
(* is given what the cache has.  All of it runs on the worker queue; a     *)
(* handler is one step.                                                    *)
(***************************************************************************)
EXTENDS Integers, FiniteSets

CONSTANTS Targets,      \* target ids
          MaxChanges    \* bound: credential changes

ASSUME WatchAssumption == MaxChanges \in Nat

VARIABLES
  listening,    \* listen_targets_
  watchStream,  \* watch_stream_: its state, and whether its idle timer runs
  tracker,      \* OnlineStateTracker: state, whether watch_stream_failures_ has
                \* reached kMaxWatchStreamFailures, which is 1, and its timers
  changes       \* credential changes so far

watchVars == <<listening, watchStream, tracker, changes>>

WatchTypeOK ==
  /\ listening \subseteq Targets
  /\ watchStream \in [state : {"Initial", "Starting", "Open", "Error", "Backoff"},
                      idle : BOOLEAN]
  /\ tracker \in [state : {"Unknown", "Online", "Offline"},
                  failed : BOOLEAN, timers : {0, 1}]
  /\ changes \in 0..MaxChanges

WatchInit ==
  /\ listening = {}
  /\ watchStream = [state |-> "Initial", idle |-> FALSE]
  /\ tracker = [state |-> "Unknown", failed |-> FALSE, timers |-> 0]
  /\ changes = 0

Started(s) == s.state \in {"Starting", "Backoff", "Open"}

-----------------------------------------------------------------------------
(* OnlineStateTracker.                                                       *)

(* Mutant of HandleWatchStreamStart: the failures before are not looked at.  *)
HandleWatchStreamStartAlways(t) ==
  [t EXCEPT !.state = "Unknown", !.timers = @ + 1]

(* A new connection is timed, unless others failed before it.                *)
HandleWatchStreamStart(t) ==
  IF t.failed THEN t
              ELSE [state |-> "Unknown", failed |-> FALSE, timers |-> t.timers + 1]

(* Losing a connection that worked tells nothing; losing others means being  *)
(* offline.                                                                  *)
HandleWatchStreamFailure(t) ==
  IF t.state = "Online"
    THEN [state |-> "Unknown", failed |-> t.failed, timers |-> t.timers]
    ELSE [state |-> "Offline", failed |-> TRUE, timers |-> 0]

UpdateState(t, state) == [state |-> state, failed |-> FALSE, timers |-> 0]

-----------------------------------------------------------------------------
(* The stream's Start, after an error with a delay, and RemoteStore's        *)
(* StartWatchStream.  r = [s |-> stream, t |-> tracker].                     *)
StartWatchStream(r) ==
  [s |-> [state |-> IF r.s.state = "Error" THEN "Backoff" ELSE "Starting",
          idle |-> r.s.idle],
   t |-> HandleWatchStreamStart(r.t)]

ShouldStart(s, targets) == targets # {} /\ ~Started(s)

(* Mutant of OnWatchStreamClose: a stream closed as idle leaves the state.   *)
OnWatchStreamCloseForgetting(state, targets) ==
  LET s == [state |-> state, idle |-> FALSE]
  IN IF targets # {}
       THEN StartWatchStream([s |-> s, t |-> HandleWatchStreamFailure(tracker)])
       ELSE [s |-> s, t |-> tracker]

(* The stream closed, and targets are still to be watched.                   *)
OnWatchStreamClose(state, targets) ==
  LET s == [state |-> state, idle |-> FALSE]
  IN IF targets # {}
       THEN StartWatchStream([s |-> s, t |-> HandleWatchStreamFailure(tracker)])
       ELSE [s |-> s, t |-> UpdateState(tracker, "Unknown")]

Leaves(r) == watchStream' = r.s /\ tracker' = r.t

-----------------------------------------------------------------------------
(* Mutant of Listen: the stream starts without the timer.                    *)
ListenUntimed(target) ==
  /\ target \notin listening
  /\ listening' = listening \cup {target}
  /\ CASE ~Started(watchStream) ->
            /\ watchStream' = StartWatchStream([s |-> watchStream, t |-> tracker]).s
            /\ UNCHANGED tracker
       [] watchStream.state = "Open" ->
            /\ watchStream' = [watchStream EXCEPT !.idle = FALSE]
            /\ UNCHANGED tracker
       [] OTHER -> UNCHANGED <<watchStream, tracker>>
  /\ UNCHANGED changes

(* A target is watched on an open stream, or starts one.                     *)
Listen(target) ==
  /\ target \notin listening
  /\ listening' = listening \cup {target}
  /\ CASE ~Started(watchStream) ->
            Leaves(StartWatchStream([s |-> watchStream, t |-> tracker]))
       [] watchStream.state = "Open" ->
            /\ watchStream' = [watchStream EXCEPT !.idle = FALSE]
            /\ UNCHANGED tracker
       [] OTHER -> UNCHANGED <<watchStream, tracker>>
  /\ UNCHANGED changes

(* The token for the stream came: it opens, and the targets are asked for.   *)
OnWatchStreamOpen ==
  /\ watchStream.state = "Starting"
  /\ watchStream' = [watchStream EXCEPT !.state = "Open"]
  /\ UNCHANGED <<listening, tracker, changes>>

(* Anything from the server proves the client online.  The server may refuse *)
(* targets, and a snapshot may resolve limbo documents, whose targets are    *)
(* then unwatched; only that starts the idle timer.                          *)
OnWatchStreamChange(refused, resolved) ==
  /\ watchStream.state = "Open"
  /\ listening' = (listening \ refused) \ resolved
  /\ tracker' = UpdateState(tracker, "Online")
  /\ watchStream' = IF resolved \cap listening # {}
                 THEN [watchStream EXCEPT !.idle = listening' = {}] ELSE watchStream
  /\ UNCHANGED changes

(* No token, no connection, or a connection lost.                            *)
OnWatchStreamError ==
  /\ watchStream.state \in {"Starting", "Open"}
  /\ Leaves(OnWatchStreamClose("Error", listening))
  /\ UNCHANGED <<listening, changes>>

IdleTimeout ==
  /\ watchStream.idle
  /\ Leaves(OnWatchStreamClose("Initial", listening))
  /\ UNCHANGED <<listening, changes>>

BackoffElapsed ==
  /\ watchStream.state = "Backoff"
  /\ watchStream' = [watchStream EXCEPT !.state = "Starting"]
  /\ UNCHANGED <<listening, tracker, changes>>

(* The backend did not answer in time.                                       *)
OnlineStateTimeout ==
  /\ tracker.timers > 0
  /\ tracker' = [state |-> "Offline", failed |-> tracker.failed, timers |-> 0]
  /\ UNCHANGED <<listening, watchStream, changes>>

(* Mutant of HandleCredentialChange: the stream is not started again.        *)
HandleCredentialChangeStopped ==
  /\ changes < MaxChanges
  /\ changes' = changes + 1
  /\ watchStream' = IF Started(watchStream)
                 THEN [state |-> "Initial", idle |-> FALSE] ELSE watchStream
  /\ tracker' = UpdateState(tracker, "Unknown")
  /\ UNCHANGED listening

(* The network is disabled, which stops a started stream, and enabled again. *)
HandleCredentialChange ==
  /\ changes < MaxChanges
  /\ changes' = changes + 1
  /\ LET stopped == IF Started(watchStream)
                      THEN [state |-> "Initial", idle |-> FALSE] ELSE watchStream
         r == [s |-> stopped, t |-> UpdateState(tracker, "Unknown")]
     IN Leaves(IF ShouldStart(stopped, listening) THEN StartWatchStream(r) ELSE r)
  /\ UNCHANGED listening

WatchNext ==
  \/ \E target \in Targets : Listen(target)
  \/ \E refused, resolved \in SUBSET listening : OnWatchStreamChange(refused, resolved)
  \/ OnWatchStreamOpen \/ OnWatchStreamError
  \/ IdleTimeout \/ BackoffElapsed \/ OnlineStateTimeout
  \/ HandleCredentialChange

WatchSpec == WatchInit /\ [][WatchNext]_watchVars

(* The timer runs, whatever the network does.                                *)
FairWatch == WatchSpec /\ WF_watchVars(OnlineStateTimeout)

-----------------------------------------------------------------------------
(* The tracker's assertions: a timer is never started over another, and      *)
(* finds the state unknown and nothing failed when it fires; and the         *)
(* stream's: an idle stream is open and not wanted.                          *)
AssertsHold ==
  /\ tracker.timers \in {0, 1}
  /\ tracker.timers > 0 => tracker.state = "Unknown" /\ ~tracker.failed
  /\ tracker.state = "Online" => tracker.timers = 0 /\ ~tracker.failed
  /\ watchStream.idle => watchStream.state = "Open" /\ listening = {}

(* The client is not called online without an open stream: no path that      *)
(* closes the stream forgets the tracker.                                    *)
OnlineMeansOpen == tracker.state = "Online" => watchStream.state = "Open"

(* While something is listened to the stream is started or being retried,    *)
(* and if the client does not know whether it is online, a timer runs.       *)
ListenersAreServed ==
  listening # {} =>
    /\ Started(watchStream)
    /\ tracker.state = "Unknown" => tracker.timers = 1

(* So a listener learns the state of the connection at last, even if the     *)
(* network neither answers nor fails.                                        *)
StateIsLearned ==
  listening # {} /\ tracker.state = "Unknown"
    ~> (tracker.state # "Unknown" \/ listening = {})
=============================================================================
