--------------------------- MODULE Listening_proofs ---------------------------
(***************************************************************************)
(* Proofs about what listens to Firestore.  WatchStream's safety, for any  *)
(* targets and any number of changes; and DocumentListener's for any       *)
(* users, view models, writes, fields and number of versions: types, what  *)
(* the cache holds, and what the view models show.                         *)
(***************************************************************************)
EXTENDS WatchStream, DocumentListener, TLAPS, WellFoundedInduction,
        SequenceTheorems

-----------------------------------------------------------------------------
(* The watch stream and the online state.                                    *)

(* The properties are inductive together, with three more facts: while the   *)
(* tracker's timer runs the stream is started or being retried, so that no   *)
(* start finds a timer running; and after a failure the client is offline,   *)
(* so that an untimed start leaves nothing unknown; and a stream that lost   *)
(* its last listener lost it to a message of the server.                     *)
TimerHasStream ==
  /\ tracker.timers > 0 => Started(watchStream)
  /\ tracker.failed => tracker.state = "Offline"
  /\ Started(watchStream) /\ listening = {} => /\ watchStream.state = "Open"
                                               /\ tracker.state = "Online"

WatchInv ==
  /\ WatchTypeOK
  /\ AssertsHold
  /\ OnlineMeansOpen
  /\ ListenersAreServed
  /\ TimerHasStream

LEMMA WatchInvInit == WatchInit => WatchInv
<1> SUFFICES ASSUME WatchInit PROVE WatchInv
  OBVIOUS
<1> USE WatchAssumption DEF WatchInit, Started
<1>1. WatchTypeOK
  BY DEF WatchTypeOK
<1>2. AssertsHold
  BY DEF AssertsHold
<1>3. OnlineMeansOpen
  BY DEF OnlineMeansOpen
<1>4. ListenersAreServed
  BY DEF ListenersAreServed
<1>5. TimerHasStream
  BY DEF TimerHasStream
<1> QED BY <1>1, <1>2, <1>3, <1>4, <1>5 DEF WatchInv

USE DEF Started, ShouldStart, HandleWatchStreamStart, HandleWatchStreamFailure,
        UpdateState, StartWatchStream, OnWatchStreamClose, Leaves

LEMMA WatchInvStep == WatchInv /\ [WatchNext]_watchVars => WatchInv'
<1> SUFFICES ASSUME WatchInv, [WatchNext]_watchVars PROVE WatchInv'
  OBVIOUS
<1> USE WatchAssumption
<1> USE DEF WatchInv, WatchTypeOK, AssertsHold, OnlineMeansOpen, ListenersAreServed,
        TimerHasStream
<1>1. ASSUME NEW wanted \in Targets, Listen(wanted) PROVE WatchInv'
  <2>1. CASE ~Started(watchStream)
    <3>1. tracker.timers = 0
      BY <2>1
    <3>2. tracker' = IF tracker.failed THEN tracker
                     ELSE [state |-> "Unknown", failed |-> FALSE, timers |-> 1]
      BY <1>1, <2>1, <3>1 DEF Listen
    <3>3. /\ watchStream' = [state |-> IF watchStream.state = "Error" THEN "Backoff"
                                                         ELSE "Starting",
                        idle |-> watchStream.idle]
          /\ ~watchStream.idle
          /\ listening' = listening \cup {wanted}
          /\ UNCHANGED changes
      BY <1>1, <2>1 DEF Listen
    <3>4. WatchTypeOK'
      BY <2>1, <3>1, <3>2, <3>3
    <3>5. AssertsHold'
      BY <2>1, <3>1, <3>2, <3>3
    <3>6. OnlineMeansOpen'
      BY <2>1, <3>1, <3>2, <3>3
    <3>7. ListenersAreServed'
      BY <2>1, <3>1, <3>2, <3>3
    <3>8. TimerHasStream'
      BY <2>1, <3>1, <3>2, <3>3
    <3> QED BY <3>4, <3>5, <3>6, <3>7, <3>8
  <2>2. CASE watchStream.state = "Open"
    <3>1. /\ watchStream' = [watchStream EXCEPT !.idle = FALSE]
          /\ listening' = listening \cup {wanted}
          /\ UNCHANGED <<tracker, changes>>
      BY <1>1, <2>2 DEF Listen
    <3>2. watchStream' = [state |-> "Open", idle |-> FALSE]
      BY <2>2, <3>1
    <3>3. listening # {} \/ tracker.timers = 1 \/ tracker.state # "Unknown"
      BY <2>2
    <3>4. WatchTypeOK'
      BY <2>2, <3>1, <3>2, <3>3
    <3>5. AssertsHold'
      BY <2>2, <3>1, <3>2, <3>3
    <3>6. OnlineMeansOpen'
      BY <2>2, <3>1, <3>2, <3>3
    <3>7. ListenersAreServed'
      BY <2>2, <3>1, <3>2, <3>3
    <3>8. TimerHasStream'
      BY <2>2, <3>1, <3>2, <3>3
    <3> QED BY <3>4, <3>5, <3>6, <3>7, <3>8
  <2>3. CASE Started(watchStream) /\ watchStream.state # "Open"
    <3>1. /\ listening' = listening \cup {wanted}
          /\ UNCHANGED <<watchStream, tracker, changes>>
      BY <1>1, <2>3 DEF Listen
    <3>2. WatchTypeOK'
      BY <2>3, <3>1
    <3>3. AssertsHold'
      BY <2>3, <3>1
    <3>4. OnlineMeansOpen'
      BY <2>3, <3>1
    <3>5. ListenersAreServed'
      BY <2>3, <3>1
    <3>6. TimerHasStream'
      BY <2>3, <3>1
    <3> QED BY <3>2, <3>3, <3>4, <3>5, <3>6
  <2> QED BY <2>1, <2>2, <2>3
<1>2. ASSUME NEW gone \in SUBSET listening, NEW resolved \in SUBSET listening,
             OnWatchStreamChange(gone, resolved)
      PROVE  WatchInv'
  <2>1. /\ tracker' = [state |-> "Online", failed |-> FALSE, timers |-> 0]
        /\ watchStream' = [state |-> "Open",
                      idle |-> IF resolved \cap listening # {}
                                 THEN listening' = {} ELSE watchStream.idle]
        /\ listening' = (listening \ gone) \ resolved
        /\ UNCHANGED changes
    BY <1>2 DEF OnWatchStreamChange
  <2>2. WatchTypeOK'
    BY <2>1
  <2>3. AssertsHold'
    BY <2>1
  <2>4. OnlineMeansOpen'
    BY <2>1
  <2>5. ListenersAreServed'
    BY <2>1
  <2>6. TimerHasStream'
    BY <2>1
  <2> QED BY <2>2, <2>3, <2>4, <2>5, <2>6
<1>3. CASE OnWatchStreamOpen
  BY <1>3 DEF OnWatchStreamOpen
<1>4. CASE OnWatchStreamError
  <2>1. CASE listening = {}
    BY <1>4, <2>1 DEF OnWatchStreamError
  <2>2. CASE listening # {} /\ tracker.state = "Online"
    <3>1. /\ tracker' = [state |-> "Unknown", failed |-> FALSE, timers |-> 1]
          /\ watchStream' = [state |-> "Backoff", idle |-> FALSE]
          /\ UNCHANGED <<listening, changes>>
      <4>1. tracker.failed = FALSE /\ tracker.timers = 0
        BY <2>2
      <4>2. HandleWatchStreamFailure(tracker) =
              [state |-> "Unknown", failed |-> FALSE, timers |-> 0]
        BY <2>2, <4>1
      <4>3. HandleWatchStreamStart(HandleWatchStreamFailure(tracker)) =
              [state |-> "Unknown", failed |-> FALSE, timers |-> 1]
        <5> DEFINE lost == [state |-> "Unknown", failed |-> FALSE, timers |-> 0]
        <5>1. ~lost.failed /\ lost.timers + 1 = 1
          OBVIOUS
        <5>2. HandleWatchStreamStart(lost) =
                [state |-> "Unknown", failed |-> FALSE, timers |-> 1]
          BY <5>1
        <5> QED BY <4>2, <5>2
      <4> QED BY <1>4, <2>2, <4>2, <4>3 DEF OnWatchStreamError
    <3>2. WatchTypeOK'
      BY <2>2, <3>1
    <3>3. AssertsHold'
      BY <2>2, <3>1
    <3>4. OnlineMeansOpen'
      BY <2>2, <3>1
    <3>5. ListenersAreServed'
      BY <2>2, <3>1
    <3>6. TimerHasStream'
      BY <2>2, <3>1
    <3> QED BY <3>2, <3>3, <3>4, <3>5, <3>6
  <2>3. CASE listening # {} /\ tracker.state # "Online"
    <3>1. /\ tracker' = [state |-> "Offline", failed |-> TRUE, timers |-> 0]
          /\ watchStream' = [state |-> "Backoff", idle |-> FALSE]
          /\ UNCHANGED <<listening, changes>>
      BY <1>4, <2>3 DEF OnWatchStreamError
    <3>2. WatchTypeOK'
      BY <2>3, <3>1
    <3>3. AssertsHold'
      BY <2>3, <3>1
    <3>4. OnlineMeansOpen'
      BY <2>3, <3>1
    <3>5. ListenersAreServed'
      BY <2>3, <3>1
    <3>6. TimerHasStream'
      BY <2>3, <3>1
    <3> QED BY <3>2, <3>3, <3>4, <3>5, <3>6
  <2> QED BY <2>1, <2>2, <2>3
<1>5. CASE IdleTimeout
  BY <1>5 DEF IdleTimeout
<1>6. CASE BackoffElapsed
  BY <1>6 DEF BackoffElapsed
<1>7. CASE OnlineStateTimeout
  <2>1. WatchTypeOK'
    BY <1>7 DEF OnlineStateTimeout
  <2>2. AssertsHold'
    BY <1>7 DEF OnlineStateTimeout
  <2>3. OnlineMeansOpen'
    BY <1>7 DEF OnlineStateTimeout
  <2>4. ListenersAreServed'
    BY <1>7 DEF OnlineStateTimeout
  <2>5. TimerHasStream'
    BY <1>7 DEF OnlineStateTimeout
  <2> QED BY <2>1, <2>2, <2>3, <2>4, <2>5
<1>8. CASE HandleCredentialChange
  <2>1. CASE listening = {}
    BY <1>8, <2>1 DEF HandleCredentialChange
  <2>2. CASE listening # {}
    <3>1. /\ tracker' = [state |-> "Unknown", failed |-> FALSE, timers |-> 1]
          /\ watchStream' = [state |-> "Starting", idle |-> FALSE]
          /\ UNCHANGED listening
          /\ changes' \in 0..MaxChanges
      <4>1. Started(watchStream)
        BY <2>2
      <4> DEFINE fresh == [state |-> "Unknown", failed |-> FALSE, timers |-> 0]
                 rest == [state |-> "Initial", idle |-> FALSE]
      <4>2. ~fresh.failed /\ fresh.timers + 1 = 1
        OBVIOUS
      <4>3. StartWatchStream([s |-> rest, t |-> fresh]) =
              [s |-> [state |-> "Starting", idle |-> FALSE],
               t |-> [state |-> "Unknown", failed |-> FALSE, timers |-> 1]]
        BY <4>2
      <4>4. Leaves(StartWatchStream([s |-> rest, t |-> fresh]))
        BY <1>8, <2>2, <4>1 DEF HandleCredentialChange
      <4>5. changes' \in 0..MaxChanges /\ UNCHANGED listening
        BY <1>8 DEF HandleCredentialChange
      <4> QED BY <4>3, <4>4, <4>5
    <3>2. WatchTypeOK'
      BY <2>2, <3>1
    <3>3. AssertsHold'
      BY <2>2, <3>1
    <3>4. OnlineMeansOpen'
      BY <2>2, <3>1
    <3>5. ListenersAreServed'
      BY <2>2, <3>1
    <3>6. TimerHasStream'
      BY <2>2, <3>1
    <3> QED BY <3>2, <3>3, <3>4, <3>5, <3>6
  <2> QED BY <2>1, <2>2
<1>9. CASE UNCHANGED watchVars
  BY <1>9 DEF watchVars
<1> QED BY <1>1, <1>2, <1>3, <1>4, <1>5, <1>6, <1>7, <1>8, <1>9 DEF WatchNext

(* The tracker and the stream together keep the invariant.                   *)
THEOREM WatchInvariant == WatchSpec => []WatchInv
BY WatchInvInit, WatchInvStep, PTL DEF WatchSpec

(* No assertion of the tracker or of the idle stream fails.                  *)
THEOREM TrackerAssertsHold == WatchSpec => []AssertsHold
<1>1. WatchInv => AssertsHold
  BY DEF WatchInv
<1> QED BY <1>1, WatchInvariant, PTL

(* A client that calls itself online has an open stream.                     *)
THEOREM OnlineIsConnected == WatchSpec => []OnlineMeansOpen
<1>1. WatchInv => OnlineMeansOpen
  BY DEF WatchInv
<1> QED BY <1>1, WatchInvariant, PTL

(* Listeners always have a stream, and a timer while nothing is known.       *)
THEOREM ListenersHaveStream == WatchSpec => []ListenersAreServed
<1>1. WatchInv => ListenersAreServed
  BY DEF WatchInv
<1> QED BY <1>1, WatchInvariant, PTL

-----------------------------------------------------------------------------
(* The document under a queue of mutations: how Overlaid is computed, by the *)
(* first position where it would not be.                                     *)

(* A set of numbers has a smallest one.                                      *)
LEMMA Smallest ==
  ASSUME NEW T, T \subseteq Nat, T # {}
  PROVE  \E x \in T : \A y \in T : x <= y
<1> DEFINE R == {p \in Nat \X Nat : p[1] < p[2]}
<1>1. IsWellFoundedOn(R, Nat)
  BY NatLessThanWellFounded DEF OpToRel
<1> HIDE DEF R
<1>2. PICK x \in T : \A y \in T : ~(<<y, x>> \in R)
  BY <1>1, WFMin
<1>3. ASSUME NEW y \in T PROVE x <= y
  <2>1. x \in Nat /\ y \in Nat /\ <<y, x>> \notin R
    BY <1>2
  <2>2. ~(y < x)
    BY <2>1 DEF R
  <2> QED BY <2>1, <2>2
<1> QED BY <1>3

(* g is the sequence of documents that the mutations make out of base.       *)
Steps(base, q, n, g) ==
  g = [i \in 0..n |-> IF i = 0 THEN base ELSE Overlay(g[i - 1], q[i])]

LEMMA StepsExist ==
  ASSUME NEW base, NEW q, NEW n \in Nat
  PROVE  \E g : Steps(base, q, n, g)
<1> DEFINE P(m) == \E g : Steps(base, q, m, g)
           T == {m \in Nat : ~P(m)}
<1>1. P(0)
  <2> DEFINE g == [i \in 0..0 |-> base]
  <2>1. g = [i \in 0..0 |-> IF i = 0 THEN base ELSE Overlay(g[i - 1], q[i])]
    OBVIOUS
  <2> QED BY <2>1 DEF Steps
<1>2. ASSUME NEW m \in Nat, P(m) PROVE P(m + 1)
  <2>1. PICK g : g = [i \in 0..m |-> IF i = 0 THEN base ELSE Overlay(g[i - 1], q[i])]
    BY <1>2 DEF Steps
  <2> DEFINE h == [i \in 0..(m + 1) |-> IF i = m + 1 THEN Overlay(g[m], q[m + 1]) ELSE g[i]]
  <2>2. h = [i \in 0..(m + 1) |-> IF i = 0 THEN base ELSE Overlay(h[i - 1], q[i])]
    <3> SUFFICES ASSUME NEW i \in 0..(m + 1)
                 PROVE  h[i] = IF i = 0 THEN base ELSE Overlay(h[i - 1], q[i])
      OBVIOUS
    <3>1. CASE i = m + 1
      <4>1. h[i] = Overlay(g[m], q[m + 1]) /\ h[m] = g[m] /\ i # 0 /\ i - 1 = m
        BY <3>1
      <4> QED BY <3>1, <4>1
    <3>2. CASE i # m + 1
      <4>1. i \in 0..m /\ h[i] = g[i]
        BY <3>2
      <4>2. i # 0 => h[i - 1] = g[i - 1]
        BY <4>1
      <4> HIDE DEF h
      <4>3. g[i] = IF i = 0 THEN base ELSE Overlay(g[i - 1], q[i])
        BY <2>1, <4>1
      <4> QED BY <4>1, <4>2, <4>3
    <3> QED BY <3>1, <3>2
  <2> QED BY <2>2 DEF Steps
<1>3. T = {}
  <2> SUFFICES ASSUME T # {} PROVE FALSE
    OBVIOUS
  <2> HIDE DEF P
  <2>1. PICK x \in T : \A y \in T : x <= y
    BY Smallest
  <2>2. x # 0
    BY <1>1, <2>1
  <2>3. x - 1 \in Nat /\ x - 1 \notin T
    BY <2>1, <2>2
  <2> QED BY <1>2, <2>1, <2>3
<1> HIDE DEF P
<1>4. P(n)
  BY <1>3
<1> QED BY <1>4 DEF P

LEMMA OverlayType ==
  ASSUME NEW d \in MaybeDocument, NEW w \in Write
  PROVE  Overlay(d, w) \in MaybeDocument
BY DEF Overlay, MaybeDocument, Contents, Write

(* A document under mutations is a document.                                 *)
LEMMA OverlaidType ==
  ASSUME NEW base \in MaybeDocument, NEW q \in Seq(Write)
  PROVE  Overlaid(base, q) \in MaybeDocument
<1> DEFINE g == CHOOSE g : Steps(base, q, Len(q), g)
           T == {i \in 0..Len(q) : g[i] \notin MaybeDocument}
<1>1. Overlaid(base, q) = g[Len(q)]
  BY DEF Overlaid, Steps
<1>2. Len(q) \in Nat
  OBVIOUS
<1>3. Steps(base, q, Len(q), g)
  BY <1>2, StepsExist
<1> HIDE DEF g
<1>4. /\ g[0] = base
      /\ \A i \in 1..Len(q) : g[i] = Overlay(g[i - 1], q[i])
  BY <1>2, <1>3 DEF Steps
<1>5. T = {}
  <2> SUFFICES ASSUME T # {} PROVE FALSE
    OBVIOUS
  <2>0. T \subseteq Nat
    BY <1>2
  <2>1. PICK x \in T : \A y \in T : x <= y
    <3> HIDE DEF T
    <3> QED BY <2>0, Smallest
  <2>2. x # 0
    BY <1>4, <2>1
  <2>3. x - 1 \in 0..Len(q) /\ x \in 1..Len(q) /\ q[x] \in Write
    BY <1>2, <2>1, <2>2
  <2>4. g[x - 1] \in MaybeDocument
    BY <2>1, <2>3
  <2> QED BY <1>4, <2>1, <2>3, <2>4, OverlayType
<1> QED BY <1>1, <1>2, <1>5
-----------------------------------------------------------------------------
(* The view. *)

LocalDocument == [doc : MaybeDocument, state : {"none", "mutated", "committed", "synced"}]

LEMMA LocalType ==
  ASSUME NEW c \in Cached \cup {Unknown}, NEW q \in Seq(Write)
  PROVE  Local(c, q) \in LocalDocument
<1> DEFINE base == IF c = Unknown THEN Missing ELSE c.doc
           doc == Overlaid(base, q)
<1>1. base \in MaybeDocument
  BY DEF Cached, MaybeDocument
<1>2. doc \in MaybeDocument
  <2> HIDE DEF base
  <2> QED BY <1>1, OverlaidType
<1>3. Local(c, q) = [doc   |-> doc,
                     state |-> CASE doc = Missing -> "none"
                                 [] doc # Missing /\ Len(q) > 0 -> "mutated"
                                 [] OTHER -> IF c.committed THEN "committed" ELSE "synced"]
  BY DEF Local
<1> HIDE DEF doc
<1>4. (CASE doc = Missing -> "none"
         [] doc # Missing /\ Len(q) > 0 -> "mutated"
         [] OTHER -> IF c.committed THEN "committed" ELSE "synced")
      \in {"none", "mutated", "committed", "synced"}
  OBVIOUS
<1> QED BY <1>2, <1>3, <1>4 DEF LocalDocument

(* The view is changed to the new document, or keeps its own when watch is   *)
(* waited for; what is not told as data leaves the document as it is.        *)
LEMMA ChangedFacts ==
  ASSUME NEW v \in View, NEW new, new.doc \in MaybeDocument,
         new.state \in {"none", "mutated", "committed", "synced"},
         NEW synced \in BOOLEAN, NEW current \in BOOLEAN
  PROVE  /\ Changed(v, new, synced, current) \in View
         /\ Changed(v, new, synced, current).synced = synced
         /\ Change(v, new) # "data" => Changed(v, new, synced, current).doc = v.doc
<1> DEFINE shown == IF Change(v, new) = "none" THEN v
                    ELSE [v EXCEPT !.doc = new.doc, !.state = new.state,
                                   !.mutated = new.state = "mutated"]
           told == [shown EXCEPT !.synced = synced, !.current = current]
           fromCache == ~(current /\ ~InLimbo(told))
<1>1. Changed(v, new, synced, current) = [told EXCEPT !.fromCache = fromCache]
  BY DEF Changed
<1>2. shown \in View
  BY DEF View
<1>3. Change(v, new) # "data" => shown.doc = v.doc
  BY DEF Change, View
<1> HIDE DEF shown
<1>4. told \in View /\ told.synced = synced /\ told.doc = shown.doc
  BY <1>2 DEF View
<1>5. fromCache \in BOOLEAN
  BY DEF InLimbo
<1> HIDE DEF told, fromCache
<1>6. /\ [told EXCEPT !.fromCache = fromCache] \in View
      /\ [told EXCEPT !.fromCache = fromCache].synced = told.synced
      /\ [told EXCEPT !.fromCache = fromCache].doc = told.doc
  BY <1>4, <1>5 DEF View
<1> QED BY <1>1, <1>3, <1>4, <1>6

-----------------------------------------------------------------------------
(* The view models. *)

HeardTypes ==
  /\ phase \in [ViewModels -> {"none", "waiting", "raised", "dead"}]
  /\ user \in [ViewModels -> MaybeDocument]
  /\ seen \in MaybeDocument

(* Those that hear get the document; those that heard before and do not now  *)
(* have it already.                                                          *)
LEMMA HearFacts ==
  ASSUME HeardTypes, UserFollowsView, view \in View,
         NEW new \in View, view' = new, NEW hears \in SUBSET ViewModels, Hear(new, hears),
         \/ new.doc = view.doc
         \/ \A m \in ViewModels : phase[m] = "raised" => m \in hears
  PROVE  HeardTypes' /\ UserFollowsView'
<1>1. new.doc \in MaybeDocument /\ new # Unknown
  BY ListenerAssumption DEF View
<1>2. /\ phase' = [m \in ViewModels |-> IF m \in hears THEN "raised" ELSE phase[m]]
      /\ user' = [m \in ViewModels |->
                    IF m \in hears /\ new.doc # Missing THEN new.doc ELSE user[m]]
      /\ seen' = IF hears # {} THEN new.doc ELSE seen
  BY DEF Hear
<1>3. HeardTypes'
  BY <1>1, <1>2 DEF HeardTypes
<1>4. ASSUME NEW m \in ViewModels, phase'[m] = "raised"
      PROVE  new.doc # Missing => user'[m] = new.doc
  <2>1. CASE m \in hears
    BY <1>2, <2>1
  <2>2. CASE m \notin hears
    <3>1. phase[m] = "raised" /\ new.doc = view.doc /\ user'[m] = user[m]
      BY <1>2, <1>4, <2>2
    <3> QED BY <3>1 DEF UserFollowsView
  <2> QED BY <2>1, <2>2
<1> QED BY <1>1, <1>3, <1>4 DEF UserFollowsView

LEMMA EmitFacts ==
  ASSUME HeardTypes, UserFollowsView, view \in View,
         NEW new \in View, NEW change, NEW o, Emit(new, change, o),
         change # "data" => new.doc = view.doc
  PROVE  /\ view' = new
         /\ HeardTypes' /\ UserFollowsView'
<1> DEFINE snapshot == change # "none" \/ new.fromCache # view.fromCache
           hears == {m \in ViewModels :
                       /\ snapshot
                       /\ \/ phase[m] = "waiting" /\ FirstEvent(new, o)
                          \/ phase[m] = "raised" /\ change = "data"}
<1>1. view' = new /\ Hear(new, hears)
  BY DEF Emit
<1>2. change = "data" => \A m \in ViewModels : phase[m] = "raised" => m \in hears
  OBVIOUS
<1>3. hears \in SUBSET ViewModels
  OBVIOUS
<1> HIDE DEF hears
<1> QED BY <1>1, <1>2, <1>3, HearFacts

(* A local change of the document.                                           *)
LEMMA EmitLocalFacts ==
  ASSUME HeardTypes, UserFollowsView, view \in View \cup {Unknown}, EmitLocal,
         cache' \in Cached \cup {Unknown}, queue'[fsUser'] \in Seq(Write)
  PROVE  /\ view' \in View \cup {Unknown}
         /\ view' = Unknown <=> view = Unknown
         /\ view # Unknown => view'.synced = view.synced
         /\ HeardTypes' /\ UserFollowsView'
<1>1. CASE view = Unknown
  BY <1>1 DEF EmitLocal, heard, HeardTypes, UserFollowsView
<1>2. CASE view # Unknown
  <2> DEFINE new == Local(cache', queue'[fsUser'])
             told == Changed(view, new, view.synced, view.current)
  <2>1. view \in View /\ view.synced \in BOOLEAN /\ view.current \in BOOLEAN
    BY <1>2 DEF View
  <2>2. new \in LocalDocument
    BY LocalType
  <2>3. new.doc \in MaybeDocument /\ new.state \in {"none", "mutated", "committed", "synced"}
    BY <2>2 DEF LocalDocument
  <2>4. Emit(told, Change(view, new), online)
    BY <1>2 DEF EmitLocal
  <2> HIDE DEF new
  <2>5. /\ told \in View /\ told.synced = view.synced
        /\ Change(view, new) # "data" => told.doc = view.doc
    BY <2>1, <2>3, ChangedFacts
  <2> HIDE DEF told
  <2>6. view' = told /\ HeardTypes' /\ UserFollowsView'
    BY <2>1, <2>4, <2>5, EmitFacts
  <2> QED BY <1>2, <2>5, <2>6, ListenerAssumption
<1> QED BY <1>1, <1>2
-----------------------------------------------------------------------------
(* The inductive invariant.  An answer belongs to the front of the queue.    *)
(* What watch brought is in the cache at its version, and a target that is   *)
(* past a version of the document has the document among its keys: so a      *)
(* current target without the key means that there is no document.           *)
AnswersFit == Len(answers) <= Len(queue[fsUser])
CacheFits == cache # Unknown => cache.version <= Latest
TargetFits == target.token > 0 /\ history[target.token] # Missing => target.key
StreamFits ==
  view # Unknown =>
    /\ stream.has > 0 /\ history[stream.has] # Missing => view.synced
    /\ view.synced => target.key

Inv ==
  /\ TypeOK
  /\ AnswersFit
  /\ CacheFits /\ CacheIsVersion
  /\ TargetFits /\ StreamFits
  /\ UserFollowsView

LEMMA HistoryFacts ==
  ASSUME TypeOK
  PROVE  /\ Latest \in Nat \ {0} /\ Latest <= MaxVersions /\ MaxVersions \in Nat
         /\ \A v \in 1..Latest : history[v] \in MaybeDocument
         /\ stream.has \in 0..Latest /\ target.token \in 0..Latest
<1>1. history \in Seq(MaybeDocument) /\ Latest \in Versions
  BY DEF TypeOK
<1>2. MaxVersions \in Nat \ {0}
  BY ListenerAssumption
<1>3. \A v \in 1..Latest : history[v] \in MaybeDocument
  BY <1>1, ElementOfSeq DEF Latest
<1> QED BY <1>1, <1>2, <1>3 DEF Versions, TypeOK

LEMMA InitInv == Init => Inv
<1> SUFFICES ASSUME Init PROVE Inv
  OBVIOUS
<1> USE DEF Init
<1>1. Missing \in MaybeDocument /\ Empty \in MaybeDocument
  BY DEF MaybeDocument, Contents, Empty
<1>2. PICK d \in MaybeDocument : history = <<d>>
  BY <1>1
<1>3. history \in Seq(MaybeDocument) /\ Latest = 1
  <2> HIDE DEF Init
  <2>1. <<d>> \in Seq(MaybeDocument) /\ Len(<<d>>) = 1
    OBVIOUS
  <2> QED BY <1>2, <2>1 DEF Latest
<1>4. TypeOK
  BY <1>1, <1>3, EmptySeq, ListenerAssumption DEF TypeOK, Versions
<1>5. AnswersFit
  BY EmptySeq DEF AnswersFit
<1> QED BY <1>4, <1>5 DEF Inv, CacheFits, CacheIsVersion, TargetFits, StreamFits, UserFollowsView

(* The server's document changes: what this client knows stays.              *)
LEMMA CommitInv ==
  ASSUME Inv, NEW w \in Write, Latest < MaxVersions,
         history' = Append(history, Overlay(history[Latest], w)),
         UNCHANGED <<localStore, fsUser, refused, stream, online, heard>>,
         answers' = answers \/ (answers' = Append(answers, Latest + 1)
                                  /\ Len(answers) < Len(queue[fsUser]))
  PROVE  Inv'
<1>0. UNCHANGED queue /\ UNCHANGED cache /\ UNCHANGED target /\ UNCHANGED fsUser
      /\ UNCHANGED refused /\ UNCHANGED stream /\ UNCHANGED online
      /\ UNCHANGED view /\ UNCHANGED phase /\ UNCHANGED user /\ UNCHANGED seen
  BY DEF localStore, heard
<1>1. /\ Latest \in Nat \ {0} /\ MaxVersions \in Nat
      /\ history[Latest] \in MaybeDocument
      /\ stream.has \in 0..Latest /\ target.token \in 0..Latest
  BY HistoryFacts DEF Inv
<1>2. history \in Seq(MaybeDocument) /\ answers \in Seq(0..Latest)
  BY DEF Inv, TypeOK
<1>3. /\ history' \in Seq(MaybeDocument) /\ Latest' = Latest + 1
      /\ \A v \in 1..Latest : history'[v] = history[v]
  <2>1. Overlay(history[Latest], w) \in MaybeDocument
    BY <1>1, OverlayType
  <2> HIDE DEF Overlay
  <2> QED BY <1>2, <2>1, AppendProperties DEF Latest
<1>4. answers' \in Seq(0..Latest')
  <2>1. answers \in Seq(0..(Latest + 1))
    <3>1. 0..Latest \subseteq 0..(Latest + 1)
      BY <1>1
    <3> QED BY <1>2, <3>1, SeqMonotonic
  <2>2. Latest + 1 \in 0..(Latest + 1)
    BY <1>1
  <2>3. answers' \in Seq(0..(Latest + 1))
    <3> DEFINE S == 0..(Latest + 1)
               next == Latest + 1
    <3>1. answers \in Seq(S) /\ next \in S
      BY <2>1, <2>2
    <3> HIDE DEF S
    <3>2. answers' = answers \/ answers' = Append(answers, next)
      OBVIOUS
    <3> HIDE DEF next
    <3>3. Append(answers, next) \in Seq(S)
      BY <3>1, AppendProperties
    <3>4. answers' \in Seq(S)
      BY <3>1, <3>2, <3>3
    <3> QED BY <3>4 DEF S
  <2> QED BY <1>3, <2>3
<1>5. Len(answers') <= Len(queue[fsUser])
  <2>1. queue[fsUser] \in Seq(Write)
    BY DEF Inv, TypeOK
  <2>2. Len(queue[fsUser]) \in Nat /\ Len(answers) \in Nat
    BY <1>2, <2>1, LenProperties
  <2>3. Len(Append(answers, Latest + 1)) = Len(answers) + 1
    BY <1>2
  <2> QED BY <1>0, <2>2, <2>3 DEF Inv, AnswersFit
<1>6. TypeOK'
  <2>1. Latest + 1 \in Versions
    BY <1>1 DEF Versions
  <2>2. /\ target \in [token : 0..(Latest + 1), key : BOOLEAN, last : 0..(Latest + 1)]
        /\ stream \in [has : 0..(Latest + 1), current : BOOLEAN]
    BY <1>1 DEF Inv, TypeOK
  <2> QED BY <1>0, <1>3, <1>4, <2>1, <2>2 DEF Inv, TypeOK
<1>7. CacheFits' /\ CacheIsVersion'
  <2>1. cache # Unknown => cache.version \in Nat \ {0}
    BY ListenerAssumption DEF Inv, TypeOK, Cached, Versions
  <2>2. cache # Unknown => cache.version \in 1..Latest
    BY <1>1, <2>1 DEF Inv, CacheFits
  <2>3. cache # Unknown => cache.version <= Latest + 1
    BY <1>1, <2>2
  <2> QED BY <1>0, <1>3, <2>2, <2>3 DEF Inv, CacheFits, CacheIsVersion
<1>8. TargetFits' /\ StreamFits'
  <2>0. \A n \in 0..Latest : n > 0 => n \in 1..Latest
    BY <1>1
  <2>1. target.token > 0 => history'[target.token] = history[target.token]
    BY <1>1, <1>3, <2>0
  <2>2. stream.has > 0 => history'[stream.has] = history[stream.has]
    BY <1>1, <1>3, <2>0
  <2> QED BY <1>0, <2>1, <2>2 DEF Inv, TargetFits, StreamFits
<1> QED BY <1>0, <1>5, <1>6, <1>7, <1>8 DEF Inv, AnswersFit, UserFollowsView

(* A step of this client alone: the cache, the target and the server stay.   *)
LEMMA ClientInv ==
  ASSUME Inv, UNCHANGED <<history, cache, target>>,
         queue' \in [Users -> Seq(Write)], fsUser' \in Users, refused' \subseteq WriteIds,
         answers' \in Seq(0..Latest), Len(answers') <= Len(queue'[fsUser']),
         stream'.has \in {stream.has, 0, target.token}, stream' \in [has : 0..Latest, current : BOOLEAN],
         online' \in {"unknown", "online", "offline"},
         view' \in View \cup {Unknown},
         view' # Unknown =>
           \/ view # Unknown /\ view'.synced = view.synced /\ stream'.has = stream.has
           \/ view'.synced = target.key /\ stream'.has = target.token,
         HeardTypes', UserFollowsView'
  PROVE  Inv'
<1>1. UNCHANGED Latest
  BY DEF Latest
<1>2. TypeOK'
  BY <1>1 DEF Inv, TypeOK, HeardTypes
<1>3. StreamFits'
  BY DEF Inv, StreamFits, TargetFits
<1> QED BY <1>1, <1>2, <1>3 DEF Inv, AnswersFit, CacheFits, CacheIsVersion, TargetFits
-----------------------------------------------------------------------------
(* The steps. *)

(* What the types say of the parts.                                          *)
LEMMA Typed ==
  ASSUME Inv
  PROVE  /\ HeardTypes /\ UserFollowsView
         /\ view \in View \cup {Unknown} /\ cache \in Cached \cup {Unknown}
         /\ queue \in [Users -> Seq(Write)] /\ fsUser \in Users /\ refused \subseteq WriteIds
         /\ queue[fsUser] \in Seq(Write)
         /\ answers \in Seq(0..Latest) /\ Len(answers) <= Len(queue[fsUser])
         /\ target \in [token : 0..Latest, key : BOOLEAN, last : 0..Latest]
         /\ stream \in [has : 0..Latest, current : BOOLEAN]
         /\ online \in {"unknown", "online", "offline"}
         /\ 0 \in 0..Latest
BY HistoryFacts DEF Inv, TypeOK, HeardTypes, AnswersFit

LEMMA NewViewType ==
  ASSUME Inv
  PROVE  NewView \in View /\ NewView.synced = target.key
<1> DEFINE new == Local(cache, queue[fsUser])
<1>1. new \in LocalDocument /\ target.key \in BOOLEAN
  BY Typed, LocalType
<1>2. NewView = [doc |-> new.doc, state |-> new.state, mutated |-> new.state = "mutated",
                 synced |-> target.key, current |-> FALSE, fromCache |-> TRUE]
  BY DEF NewView
<1> HIDE DEF new
<1> QED BY <1>1, <1>2 DEF View, LocalDocument

LEMMA AddListenerInv ==
  ASSUME Inv, NEW m \in ViewModels, AddListener(m)
  PROVE  Inv'
<1> DEFINE first == FirstEvent(view', online)
<1>1. /\ view' = IF view = Unknown THEN NewView ELSE view
      /\ stream' = IF view = Unknown THEN [has |-> target.token, current |-> FALSE] ELSE stream
      /\ phase' = [phase EXCEPT ![m] = IF first THEN "raised" ELSE "waiting"]
      /\ user' = IF first /\ view'.doc # Missing THEN [user EXCEPT ![m] = view'.doc] ELSE user
      /\ seen' = IF first THEN view'.doc ELSE seen
      /\ UNCHANGED <<history, queue, cache, target, fsUser, refused, answers, online>>
  BY DEF AddListener, localStore
<1>2. NewView \in View /\ NewView.synced = target.key
  BY NewViewType
<1> HIDE DEF first
<1>3. view' \in View
  BY <1>1, <1>2, Typed
<1>4. view'.doc \in MaybeDocument /\ view' # Unknown
  BY <1>3, ListenerAssumption DEF View
<1>5. HeardTypes'
  BY <1>1, <1>4, Typed DEF HeardTypes
<1>6. UserFollowsView'
  <2> SUFFICES ASSUME NEW n \in ViewModels, phase'[n] = "raised", view'.doc # Missing
               PROVE  user'[n] = view'.doc
    BY <1>4 DEF UserFollowsView
  <2>0. phase \in [ViewModels -> {"none", "waiting", "raised", "dead"}]
        /\ user \in [ViewModels -> MaybeDocument]
    BY Typed DEF HeardTypes
  <2>1. CASE n = m
    BY <1>1, <2>0, <2>1
  <2>2. CASE n # m
    <3>1. phase[n] = "raised" /\ user'[n] = user[n]
      BY <1>1, <2>0, <2>2
    <3> QED BY <1>1, <3>1, Typed DEF UserFollowsView
  <2> QED BY <2>1, <2>2
<1>7. stream' \in [has : 0..Latest, current : BOOLEAN] /\ stream'.has \in {stream.has, target.token}
  BY <1>1, Typed
<1>8. \/ view # Unknown /\ view'.synced = view.synced /\ stream'.has = stream.has
      \/ view'.synced = target.key /\ stream'.has = target.token
  BY <1>1, <1>2
<1> QED BY <1>1, <1>3, <1>5, <1>6, <1>7, <1>8, Typed, ClientInv

(* Answers alone change: one is refused, or they are lost.                   *)
LEMMA AnswersInv ==
  ASSUME Inv, ServerRefuses \/ WriteStreamBreaks
  PROVE  Inv'
<1>1. UNCHANGED <<history, queue, cache, target, fsUser, refused, stream, online,
                  view, phase, user, seen>>
  BY DEF ServerRefuses, WriteStreamBreaks, localStore, heard
<1>2. /\ answers \in Seq(0..Latest) /\ 0 \in 0..Latest
      /\ queue[fsUser] \in Seq(Write) /\ Len(queue[fsUser]) \in Nat /\ Len(answers) \in Nat
  BY Typed, LenProperties
<1>3. answers' \in Seq(0..Latest) /\ Len(answers') <= Len(queue[fsUser])
  <2>1. CASE ServerRefuses
    <3>1. answers' = Append(answers, 0) /\ Len(answers) < Len(queue[fsUser])
      BY <2>1 DEF ServerRefuses, Sendable
    <3>2. answers' \in Seq(0..Latest) /\ Len(answers') = Len(answers) + 1
      BY <1>2, <3>1, AppendProperties
    <3> QED BY <1>2, <3>1, <3>2
  <2>2. CASE WriteStreamBreaks
    <3>1. answers' = <<>>
      BY <2>2 DEF WriteStreamBreaks
    <3> QED BY <1>2, <3>1, EmptySeq
  <2> QED BY <2>1, <2>2
<1>4. HeardTypes' /\ UserFollowsView'
  BY <1>1, Typed DEF HeardTypes, UserFollowsView
<1> QED BY <1>1, <1>3, <1>4, Typed, ClientInv

LEMMA SetDataInv ==
  ASSUME Inv, NEW w \in Write, SetData(w)
  PROVE  Inv'
<1>1. /\ queue' = [queue EXCEPT ![fsUser] = Append(@, w)]
      /\ UNCHANGED <<history, cache, target, fsUser, refused, answers, stream, online>>
      /\ EmitLocal
  BY DEF SetData
<1>2. /\ Append(queue[fsUser], w) \in Seq(Write)
      /\ Len(Append(queue[fsUser], w)) = Len(queue[fsUser]) + 1
      /\ Len(queue[fsUser]) \in Nat /\ Len(answers) \in Nat
  BY Typed, AppendProperties, LenProperties
<1>3. /\ queue' \in [Users -> Seq(Write)] /\ queue'[fsUser] \in Seq(Write)
      /\ Len(answers) <= Len(queue'[fsUser])
  BY <1>1, <1>2, Typed
<1>4. /\ view' \in View \cup {Unknown}
      /\ view' = Unknown <=> view = Unknown
      /\ view # Unknown => view'.synced = view.synced
      /\ HeardTypes' /\ UserFollowsView'
  BY <1>1, <1>3, Typed, EmitLocalFacts
<1> QED BY <1>1, <1>3, <1>4, Typed, ClientInv

(* Streams break or time out.                                                *)
LEMMA OfflineFacts ==
  ASSUME Inv, GoOffline
  PROVE  /\ view' \in View \cup {Unknown}
         /\ view' = Unknown <=> view = Unknown
         /\ view # Unknown => view'.synced = view.synced
         /\ HeardTypes' /\ UserFollowsView'
<1>1. CASE view = Unknown
  BY <1>1, Typed DEF GoOffline, heard, HeardTypes, UserFollowsView
<1>2. CASE view # Unknown
  <2> DEFINE new == [view EXCEPT !.current = FALSE, !.fromCache = TRUE]
             hears == {m \in ViewModels : phase[m] = "waiting"}
  <2>1. view' = new /\ Hear(new, hears) /\ hears \in SUBSET ViewModels
    BY <1>2 DEF GoOffline
  <2>2. view \in View
    BY <1>2, Typed
  <2>3. new \in View /\ new.doc = view.doc /\ new.synced = view.synced
    BY <2>2 DEF View
  <2> HIDE DEF new, hears
  <2>4. HeardTypes' /\ UserFollowsView'
    BY <2>1, <2>2, <2>3, Typed, HearFacts
  <2> QED BY <1>2, <2>1, <2>3, <2>4, ListenerAssumption
<1> QED BY <1>1, <1>2

LEMMA BreaksInv ==
  ASSUME Inv, WatchStreamBreaks \/ OnlineTimeout
  PROVE  Inv'
<1>1. /\ UNCHANGED <<history, queue, cache, target, fsUser, refused, answers>>
      /\ stream'.has = stream.has /\ stream' \in [has : 0..Latest, current : BOOLEAN]
  BY Typed DEF WatchStreamBreaks, OnlineTimeout, localStore
<1>2. \/ GoOffline
      \/ online' = "unknown" /\ UNCHANGED <<view, phase, user, seen>>
  BY DEF WatchStreamBreaks, OnlineTimeout, heard
<1>3. online' \in {"unknown", "online", "offline"}
  BY <1>2 DEF GoOffline
<1>4. /\ view' \in View \cup {Unknown}
      /\ view' = Unknown <=> view = Unknown
      /\ view # Unknown => view'.synced = view.synced
      /\ HeardTypes' /\ UserFollowsView'
  <2>1. CASE GoOffline
    BY <2>1, OfflineFacts
  <2>2. CASE UNCHANGED <<view, phase, user, seen>>
    BY <2>2, Typed DEF HeardTypes, UserFollowsView
  <2> QED BY <1>2, <2>1, <2>2
<1> QED BY <1>1, <1>3, <1>4, Typed, ClientInv

LEMMA ChangeUserInv ==
  ASSUME Inv, NEW u \in Users, ChangeUser(u)
  PROVE  Inv'
<1>1. /\ fsUser' = u /\ answers' = <<>>
      /\ stream' = [stream EXCEPT !.current = FALSE]
      /\ online' = "unknown"
      /\ UNCHANGED <<history, queue, cache, target, refused>>
      /\ EmitLocal \/ UNCHANGED <<view, phase, user, seen>>
  BY DEF ChangeUser, localStore, heard
<1>2. /\ stream'.has = stream.has /\ stream' \in [has : 0..Latest, current : BOOLEAN]
  BY <1>1, Typed
<1>3. queue'[fsUser'] \in Seq(Write)
  BY <1>1, Typed
<1>4. answers' \in Seq(0..Latest) /\ Len(answers') <= Len(queue'[fsUser'])
  BY <1>1, <1>3, EmptySeq, LenProperties
<1>5. /\ view' \in View \cup {Unknown}
      /\ view' = Unknown <=> view = Unknown
      /\ view # Unknown => view'.synced = view.synced
      /\ HeardTypes' /\ UserFollowsView'
  <2>1. CASE EmitLocal
    BY <1>1, <1>3, <2>1, Typed, EmitLocalFacts
  <2>2. CASE UNCHANGED <<view, phase, user, seen>>
    BY <2>2, Typed DEF HeardTypes, UserFollowsView
  <2> QED BY <1>1, <2>1, <2>2
<1> QED BY <1>1, <1>2, <1>4, <1>5, Typed, ClientInv

LEMMA RelaunchInv ==
  ASSUME Inv, NEW u \in Users, Relaunch(u)
  PROVE  Inv'
<1>1. /\ fsUser' = u /\ answers' = <<>>
      /\ stream' = [has |-> 0, current |-> FALSE]
      /\ online' = "unknown" /\ view' = Unknown
      /\ phase' = [m \in ViewModels |-> "none"]
      /\ user' = [m \in ViewModels |-> Missing]
      /\ UNCHANGED <<history, queue, cache, target, refused, seen>>
  BY DEF Relaunch, localStore
<1>2. answers' \in Seq(0..Latest) /\ Len(answers') <= Len(queue'[fsUser'])
  <2>1. queue'[fsUser'] \in Seq(Write)
    BY <1>1, Typed
  <2> QED BY <1>1, <2>1, EmptySeq, LenProperties
<1>3. HeardTypes' /\ UserFollowsView'
  BY <1>1, Typed DEF HeardTypes, UserFollowsView, MaybeDocument
<1>4. stream' \in [has : 0..Latest, current : BOOLEAN] /\ stream'.has = 0
  BY <1>1, Typed
<1> QED BY <1>1, <1>2, <1>3, <1>4, Typed, ClientInv
(* An answer: what is computed from it is marked, and watch may replace it.  *)
LEMMA HandleAnswerInv ==
  ASSUME Inv, HandleAnswer
  PROVE  Inv'
<1> DEFINE q == queue[fsUser]
           a == Head(answers)
           w == Head(q)
<1>1. /\ answers # <<>>
      /\ queue' = [queue EXCEPT ![fsUser] = Tail(q)]
      /\ answers' \in {<<>>, Tail(answers)}
      /\ refused' \in {refused, refused \cup {w.id}}
      /\ cache' = cache \/ (a # 0 /\ cache' = Acknowledged(cache, w, a))
      /\ UNCHANGED <<history, target, fsUser, stream, online>>
      /\ EmitLocal
  BY DEF HandleAnswer
<1>2. /\ a \in 0..Latest /\ Tail(answers) \in Seq(0..Latest)
      /\ Len(answers) \in Nat \ {0} /\ Len(Tail(answers)) = Len(answers) - 1
  BY <1>1, Typed, HeadTailProperties, LenProperties, EmptySeq
<1>3. Len(q) \in Nat /\ q # <<>>
  BY <1>2, Typed, LenProperties, EmptySeq
<1>4. w \in Write /\ Tail(q) \in Seq(Write) /\ Len(Tail(q)) = Len(q) - 1
  BY <1>3, Typed, HeadTailProperties
<1>5. w.id \in WriteIds
  BY <1>4 DEF Write
<1>6. /\ queue' \in [Users -> Seq(Write)] /\ queue'[fsUser'] = Tail(q)
  BY <1>1, <1>4, Typed
<1>7. answers' \in Seq(0..Latest) /\ Len(answers') <= Len(queue'[fsUser'])
  <2>0. <<>> \in Seq(0..Latest) /\ Len(<<>>) = 0 /\ Len(answers) <= Len(q)
    BY Typed, EmptySeq
  <2>1. Len(q) - 1 \in Nat
    BY <1>2, <1>3, <2>0
  <2>2. queue'[fsUser'] = Tail(q)
    BY <1>6
  <2>3. Latest' = Latest
    BY <1>1 DEF Latest
  <2>4. Len(queue'[fsUser']) = Len(q) - 1
    BY <1>4, <2>2
  <2> HIDE DEF q, a, w, Latest
  <2>5. CASE answers' = <<>>
    <3>1. answers' \in Seq(0..Latest)
      BY <2>0, <2>5
    <3>2. Len(answers') <= Len(queue'[fsUser'])
      BY <2>0, <2>1, <2>4, <2>5
    <3> QED BY <2>3, <3>1, <3>2
  <2>6. CASE answers' = Tail(answers)
    <3>1. answers' \in Seq(0..Latest)
      BY <1>2, <2>6
    <3>2. Len(answers') <= Len(queue'[fsUser'])
      BY <1>2, <1>3, <2>0, <2>4, <2>6
    <3> QED BY <2>3, <3>1, <3>2
  <2> QED BY <1>1, <2>5, <2>6
<1>8. cache' \in Cached \cup {Unknown} /\ CacheFits' /\ CacheIsVersion'
  <2>0. /\ cache \in Cached \cup {Unknown} /\ CacheFits /\ CacheIsVersion
        /\ history' = history /\ Latest' = Latest
    BY <1>1, Typed DEF Inv, Latest
  <2>1. CASE cache' = cache
    BY <2>0, <2>1 DEF CacheFits, CacheIsVersion
  <2>2. CASE a # 0 /\ cache' = Acknowledged(cache, w, a)
    <3> DEFINE base == IF cache = Unknown THEN Missing ELSE cache.doc
               made == [doc |-> Overlay(base, w), version |-> a, committed |-> TRUE]
    <3>1. cache' = made \/ cache' = cache
      BY <2>2 DEF Acknowledged
    <3>2. base \in MaybeDocument
      BY <2>0 DEF Cached, MaybeDocument
    <3>3. Overlay(base, w) \in MaybeDocument
      BY <1>4, <3>2, OverlayType
    <3>4. a \in Versions /\ a <= Latest
      BY <1>2, <2>2, HistoryFacts DEF Inv, Versions
    <3> HIDE DEF base, a, w
    <3>5. made \in Cached /\ made.version = a /\ made.committed = TRUE
      BY <3>3, <3>4 DEF Cached
    <3> HIDE DEF made
    <3> QED BY <2>0, <3>1, <3>4, <3>5 DEF CacheFits, CacheIsVersion
  <2> QED BY <1>1, <2>1, <2>2
<1>9. /\ view' \in View \cup {Unknown}
      /\ view' = Unknown <=> view = Unknown
      /\ view # Unknown => view'.synced = view.synced
      /\ HeardTypes' /\ UserFollowsView'
  BY <1>4, <1>6, <1>8, <1>1, Typed, EmitLocalFacts
<1>10. UNCHANGED Latest
  BY <1>1 DEF Latest
<1>11. refused' \subseteq WriteIds
  BY <1>1, <1>5, Typed
<1> HIDE DEF q, a, w
<1>12. TypeOK'
  BY <1>1, <1>6, <1>7, <1>8, <1>9, <1>10, <1>11 DEF Inv, TypeOK, HeardTypes
<1>13. TargetFits' /\ StreamFits'
  BY <1>1, <1>9 DEF Inv, TargetFits, StreamFits
<1> QED BY <1>7, <1>8, <1>9, <1>12, <1>13 DEF Inv, AnswersFit

(* A view that stays as it is has no change of data.                         *)
LEMMA SameIsNotData ==
  ASSUME NEW v
  PROVE  Change(v, v) # "data"
<1> DEFINE pending == v.state = "mutated" \/ (v.mutated /\ v.state = "committed")
           later == IF v.mutated # pending THEN "metadata" ELSE "none"
<1>1. CASE v.doc = Missing
  <2>1. Change(v, v) = "none"
    BY <1>1 DEF Change
  <2> QED BY <2>1
<1>2. CASE v.doc # Missing
  <2>1. Change(v, v) = later
    BY <1>2, Zenon DEF Change
  <2>2. later # "data"
    OBVIOUS
  <2> QED BY <2>1, <2>2
<1> QED BY <1>1, <1>2

(* A snapshot: what it brings is the version, what it deletes is missing.    *)
LEMMA SnapshotInv ==
  ASSUME Inv, NEW v \in 1..Latest, NEW current \in BOOLEAN, WatchSnapshot(v, current)
  PROVE  Inv'
<1> DEFINE brings == v > stream.has /\ history[v] # Missing
           deletes == current /\ ~brings /\ ~view.synced
           accepted == (brings \/ deletes) /\ Accepts(cache, v)
           synced == view.synced \/ brings
           doc == IF brings THEN history[v] ELSE Missing
           stored == [doc |-> doc, version |-> v, committed |-> FALSE]
           new == IF accepted THEN Local(cache', queue[fsUser]) ELSE view
           change == IF accepted THEN Change(view, new) ELSE "none"
           told == Changed(view, new, synced, current)
<1>1. /\ view # Unknown
      /\ v >= stream.has
      /\ cache' = IF accepted THEN stored ELSE cache
      /\ \E token \in {target.token, v} :
           /\ brings \/ target.token = 0 => token = v
           /\ target' = [token |-> token, key |-> target.key \/ brings, last |-> v]
      /\ stream' = [has |-> v, current |-> current]
      /\ online' = "online"
      /\ Emit(told, change, "online")
      /\ UNCHANGED <<history, queue, fsUser, refused, answers>>
  BY DEF WatchSnapshot
<1>2. /\ Latest \in Nat \ {0} /\ Latest <= MaxVersions /\ MaxVersions \in Nat
      /\ history[v] \in MaybeDocument /\ stream.has \in 0..Latest /\ target.token \in 0..Latest
  BY HistoryFacts DEF Inv
<1>3. view \in View /\ view.synced \in BOOLEAN /\ view.doc \in MaybeDocument
      /\ view.state \in {"none", "mutated", "committed", "synced"}
  BY <1>1, Typed DEF View
<1>4. v \in Versions /\ v \in Nat \ {0} /\ v <= Latest /\ v \in 0..Latest
  BY <1>2 DEF Versions
<1>5. UNCHANGED Latest
  BY <1>1 DEF Latest
<1>6. brings \in BOOLEAN /\ deletes \in BOOLEAN /\ synced \in BOOLEAN /\ accepted \in BOOLEAN
  BY <1>3 DEF Accepts, Behind
<1>7. accepted => doc = history[v]
  <2>1. CASE brings
    BY <2>1
  <2>2. CASE ~brings /\ deletes
    <3>1. ~view.synced
      BY <2>2
    <3>2. v = stream.has => history[v] = Missing
      BY <1>1, <1>4, <3>1 DEF Inv, StreamFits
    <3>3. v > stream.has \/ v = stream.has
      BY <1>1, <1>2, <1>4
    <3> QED BY <2>2, <3>2, <3>3
  <2> QED BY <2>1, <2>2
<1>8. history[v] # Missing => synced
  <2>1. v > stream.has \/ v = stream.has
    BY <1>1, <1>2, <1>4
  <2>2. v = stream.has /\ history[v] # Missing => view.synced
    BY <1>1, <1>4 DEF Inv, StreamFits
  <2> QED BY <2>1, <2>2
<1>9. synced => target.key \/ brings
  BY <1>1 DEF Inv, StreamFits
<1>10. doc \in MaybeDocument
  BY <1>2 DEF MaybeDocument
<1> HIDE DEF doc
<1>11. stored \in Cached /\ stored.version = v /\ stored.doc = doc
  BY <1>4, <1>10 DEF Cached
<1> HIDE DEF stored, accepted, deletes
<1>12. cache' \in Cached \cup {Unknown} /\ CacheFits' /\ CacheIsVersion'
  <2>1. CASE accepted
    BY <1>1, <1>4, <1>5, <1>7, <1>11, <2>1 DEF CacheFits, CacheIsVersion
  <2>2. CASE ~accepted
    BY <1>1, <1>5, <2>2, Typed DEF Inv, CacheFits, CacheIsVersion
  <2> QED BY <2>1, <2>2
<1>13. new.doc \in MaybeDocument /\ new.state \in {"none", "mutated", "committed", "synced"}
  <2>1. Local(cache', queue[fsUser]) \in LocalDocument
    BY <1>12, Typed, LocalType
  <2> QED BY <1>3, <2>1 DEF LocalDocument
<1>14. ~accepted => new = view
  OBVIOUS
<1>15. Change(view, view) # "data"
  BY SameIsNotData
<1>16. change # "data" => Change(view, new) # "data"
  BY <1>14, <1>15
<1> HIDE DEF new, synced, brings
<1>17. /\ told \in View /\ told.synced = synced
       /\ Change(view, new) # "data" => told.doc = view.doc
  <2>1. told = Changed(view, new, synced, current)
    OBVIOUS
  <2> HIDE DEF told
  <2>2. synced \in BOOLEAN
    BY <1>6
  <2>3. /\ Changed(view, new, synced, current) \in View
        /\ Changed(view, new, synced, current).synced = synced
        /\ Change(view, new) # "data" =>
              Changed(view, new, synced, current).doc = view.doc
    BY <1>3, <1>13, <2>2, ChangedFacts
  <2> QED BY <2>1, <2>3
<1> HIDE DEF told, change
<1>18. view' = told /\ HeardTypes' /\ UserFollowsView'
  BY <1>1, <1>3, <1>16, <1>17, Typed, EmitFacts
<1>19. PICK token \in {target.token, v} :
         target' = [token |-> token, key |-> target.key \/ brings, last |-> v]
  BY <1>1
<1>20. target.key \in BOOLEAN
  BY Typed
<1>21. /\ target' \in [token : 0..Latest, key : BOOLEAN, last : 0..Latest]
       /\ target'.token = token /\ target'.key = (target.key \/ brings)
  BY <1>2, <1>4, <1>6, <1>19, <1>20
<1>22. stream' \in [has : 0..Latest, current : BOOLEAN] /\ stream'.has = v
  BY <1>1, <1>4
<1>23. TypeOK'
  BY <1>1, <1>5, <1>12, <1>17, <1>18, <1>21, <1>22 DEF Inv, TypeOK, HeardTypes
<1>24. TargetFits'
  BY <1>1, <1>8, <1>9, <1>21 DEF Inv, TargetFits
<1>25. StreamFits'
  BY <1>1, <1>8, <1>9, <1>17, <1>18, <1>21, <1>22 DEF StreamFits
<1> QED BY <1>1, <1>12, <1>18, <1>23, <1>24, <1>25 DEF Inv, AnswersFit

LEMMA RefusedInv ==
  ASSUME Inv, ListenRefused
  PROVE  Inv'
<1>1. /\ view # Unknown /\ view' = Unknown
      /\ phase' = [m \in ViewModels |-> IF phase[m] = "none" THEN "none" ELSE "dead"]
      /\ target' = [target EXCEPT !.token = stream.has]
      /\ online' = "online"
      /\ UNCHANGED <<history, queue, cache, fsUser, refused, answers, stream, user, seen>>
  BY DEF ListenRefused
<1>2. UNCHANGED Latest
  BY <1>1 DEF Latest
<1>3. /\ target' \in [token : 0..Latest, key : BOOLEAN, last : 0..Latest]
      /\ target'.token = stream.has /\ target'.key = target.key
  BY <1>1, Typed
<1>4. HeardTypes' /\ UserFollowsView'
  BY <1>1, Typed DEF HeardTypes, UserFollowsView
<1>5. TypeOK'
  BY <1>1, <1>2, <1>3, <1>4 DEF Inv, TypeOK, HeardTypes
<1>6. TargetFits' /\ StreamFits'
  BY <1>1, <1>3 DEF Inv, TargetFits, StreamFits
<1> QED BY <1>1, <1>2, <1>4, <1>5, <1>6 DEF Inv, AnswersFit, CacheFits, CacheIsVersion

LEMMA NextInv ==
  ASSUME Inv, [Next]_vars
  PROVE  Inv'
<1>1. ASSUME NEW m \in ViewModels, AddListener(m) PROVE Inv'
  BY <1>1, AddListenerInv
<1>2. ASSUME NEW w \in Write, SetData(w) PROVE Inv'
  BY <1>2, SetDataInv
<1>3. ASSUME NEW w \in Write, OtherCommits(w) PROVE Inv'
  BY <1>3, CommitInv DEF OtherCommits
<1>4. CASE ServerCommits
  <2>1. Len(answers) < Len(queue[fsUser]) /\ Latest < MaxVersions
    BY <1>4 DEF ServerCommits, Sendable
  <2>2. Sent \in Write
    <3>1. /\ answers \in Seq(0..Latest) /\ queue[fsUser] \in Seq(Write)
          /\ Len(answers) \in Nat /\ Len(queue[fsUser]) \in Nat
      BY Typed, LenProperties
    <3>2. Len(answers) + 1 \in 1..Len(queue[fsUser])
      BY <2>1, <3>1
    <3> QED BY <3>1, <3>2, ElementOfSeq DEF Sent
  <2> QED BY <1>4, <2>1, <2>2, CommitInv DEF ServerCommits
<1>5. CASE ServerRefuses \/ WriteStreamBreaks
  BY <1>5, AnswersInv
<1>6. CASE HandleAnswer
  BY <1>6, HandleAnswerInv
<1>7. CASE Watch
  BY <1>7, SnapshotInv, BreaksInv, RefusedInv DEF Watch
<1>8. ASSUME NEW u \in Users, ChangeUser(u) \/ Relaunch(u) PROVE Inv'
  BY <1>8, ChangeUserInv, RelaunchInv
<1>9. CASE UNCHANGED vars
  BY <1>9 DEF Inv, TypeOK, AnswersFit, CacheFits, CacheIsVersion, TargetFits, StreamFits,
     UserFollowsView, Latest, vars, localStore, heard
<1> QED
  BY <1>1, <1>2, <1>3, <1>4, <1>5, <1>6, <1>7, <1>8, <1>9 DEF Next

-----------------------------------------------------------------------------
(* Every operation of the local store, the view and its listeners keeps the  *)
(* inductive invariant.                                                      *)
THEOREM ListenerInvariant == Spec => []Inv
<1>1. Init => Inv
  BY InitInv
<1>2. Inv /\ [Next]_vars => Inv'
  BY NextInv
<1> QED BY <1>1, <1>2, PTL DEF Spec

(* The listener's state keeps its types, documents under any number of       *)
(* mutations included.                                                       *)
THEOREM ListenerTypes == Spec => []TypeOK
<1>1. Inv => TypeOK
  BY DEF Inv
<1> QED BY <1>1, ListenerInvariant, PTL

(* What the cache holds, when it was not computed from an answer, is the     *)
(* server's document at its version: deletions are only inferred where there *)
(* is no document.                                                           *)
THEOREM CacheHoldsVersion == Spec => []CacheIsVersion
<1>1. Inv => CacheIsVersion
  BY DEF Inv
<1> QED BY <1>1, ListenerInvariant, PTL

(* View models that heard of the document show what the view shows.          *)
THEOREM UsersFollowView == Spec => []UserFollowsView
<1>1. Inv => UserFollowsView
  BY DEF Inv
<1> QED BY <1>1, ListenerInvariant, PTL

-----------------------------------------------------------------------------
(* How old what is shown may be.                                             *)

(* Version v has x in field f; the cached document has Base(f).              *)
Has(v, f, x) == history[v] # Missing /\ history[v][f] = x

Base(f) ==
  IF cache = Unknown THEN Absent ELSE IF cache.doc = Missing THEN Absent ELSE cache.doc[f]

CacheVersion == IF cache = Unknown THEN 0 ELSE cache.version

Queued(x) == \E u \in Users : \E i \in 1..Len(queue[u]) : queue[u][i].id = x

(* The server's document exists from some version on, and a field that has   *)
(* been set stays set.                                                       *)
HistoryGrows ==
  \A p, q \in 1..Latest : p < q =>
    /\ history[q] # Missing
    /\ \A f \in Fields : history[p] # Missing /\ history[p][f] # Absent
                           => history[q][f] # Absent

(* A write is in one queue, once, and sets its own fields.                   *)
QueuedOnce ==
  \A u, t \in Users : \A i \in 1..Len(queue[u]), j \in 1..Len(queue[t]) :
    queue[u][i].id = queue[t][j].id => u = t /\ i = j

FieldsAreKnown ==
  \A u \in Users : \A i \in 1..Len(queue[u]) : \A v \in 1..Latest : \A f \in Fields :
    Has(v, f, queue[u][i].id) => f \in queue[u][i].fields

(* Also a document computed from answers has what some version had.          *)
CacheOccurs ==
  \A f \in Fields : Base(f) # Absent =>
    \E p \in 1..Latest : p <= CacheVersion /\ Has(p, f, Base(f))

(* Answers come in the order of their versions, after the one that the cache *)
(* was computed from.                                                        *)
AnswersAhead ==
  /\ \A i, j \in 1..Len(answers) : i < j /\ answers[j] # 0 => answers[i] < answers[j]
  /\ cache # Unknown /\ cache.committed =>
       \A i \in 1..Len(answers) : answers[i] # 0 => cache.version < answers[i]

(* The version of an answer has what the write set, and once that is         *)
(* overwritten it does not come back.                                        *)
AnswersLand ==
  \A i \in 1..Len(answers) : answers[i] # 0 => \A f \in Fields :
    /\ f \in queue[fsUser][i].fields => Has(answers[i], f, queue[fsUser][i].id)
    /\ \A q, r \in 1..Latest :
         answers[i] <= q /\ q <= r /\ Has(r, f, queue[fsUser][i].id)
           => Has(q, f, queue[fsUser][i].id)

(* Nor does any value after the cached version, unless its write is resent.  *)
Settled ==
  \A x \in WriteIds : ~Queued(x) /\ x \notin refused => \A f \in Fields :
    \A p, q, r \in 1..Latest :
      p <= q /\ q <= r /\ CacheVersion <= q /\ Has(p, f, x) /\ Has(r, f, x) => Has(q, f, x)

DataInv ==
  /\ HistoryGrows
  /\ QueuedOnce /\ FieldsAreKnown
  /\ CacheOccurs
  /\ AnswersAhead /\ AnswersLand
  /\ Settled

(* y was there no earlier than x.                                            *)
Newer(f, x, y) ==
  \A v \in 1..Latest : Has(v, f, x) => \E t \in 1..Latest : v <= t /\ Has(t, f, y)

(* x may have been shown: it is refused, on its way, or no newer than what   *)
(* the cache has.                                                            *)
OnItsWay(f, x) ==
  \E u \in Users : \E i \in 1..Len(queue[u]) :
    queue[u][i].id = x /\ f \in queue[u][i].fields

Cleared(f, x) ==
  /\ ~Queued(x)
  /\ Base(f) # Absent
  /\ \E p \in 1..Latest : p <= CacheVersion /\ Has(p, f, x)
  /\ Newer(f, x, Base(f))

Fits(f, x) == x = Absent \/ x \in refused \/ OnItsWay(f, x) \/ Cleared(f, x)

FitsStay == \A f \in Fields, x \in WriteIds \cup {Absent} : Fits(f, x) => Fits(f, x)'

(* What the types say.                                                       *)
LEMMA DataTypes ==
  ASSUME Inv
  PROVE  /\ Latest \in Nat \ {0} /\ MaxVersions \in Nat /\ Latest <= MaxVersions
         /\ history \in Seq(MaybeDocument)
         /\ \A v \in 1..Latest : history[v] \in MaybeDocument
         /\ \A v \in 1..Latest : \A f \in Fields :
              history[v] # Missing => history[v][f] \in WriteIds \cup {Absent}
         /\ queue \in [Users -> Seq(Write)] /\ fsUser \in Users
         /\ \A u \in Users : Len(queue[u]) \in Nat
         /\ \A u \in Users : \A i \in 1..Len(queue[u]) :
              /\ queue[u][i] \in Write /\ queue[u][i].id \in WriteIds
              /\ queue[u][i].fields \subseteq Fields
         /\ answers \in Seq(0..Latest) /\ Len(answers) \in Nat
         /\ Len(answers) <= Len(queue[fsUser])
         /\ \A i \in 1..Len(answers) :
              answers[i] \in 0..Latest /\ i \in 1..Len(queue[fsUser])
         /\ CacheVersion \in Nat /\ CacheVersion <= Latest
         /\ cache # Unknown => /\ cache \in Cached
                               /\ cache.version \in 1..Latest /\ CacheVersion = cache.version
                               /\ cache.doc \in MaybeDocument
         /\ \A f \in Fields : Base(f) \in WriteIds \cup {Absent}
         /\ Absent \notin WriteIds
<1>1. /\ Latest \in Nat \ {0} /\ MaxVersions \in Nat /\ Latest <= MaxVersions
      /\ history \in Seq(MaybeDocument)
      /\ \A v \in 1..Latest : history[v] \in MaybeDocument
      /\ Absent \notin WriteIds
  BY HistoryFacts, ListenerAssumption DEF Inv, TypeOK
<1>2. \A d \in MaybeDocument : \A f \in Fields :
        d # Missing => d[f] \in WriteIds \cup {Absent}
  BY DEF MaybeDocument, Contents
<1>3. /\ queue \in [Users -> Seq(Write)] /\ fsUser \in Users
      /\ answers \in Seq(0..Latest) /\ Len(answers) <= Len(queue[fsUser])
  BY Typed
<1>4. \A u \in Users : queue[u] \in Seq(Write) /\ Len(queue[u]) \in Nat
  BY <1>3, LenProperties
<1>5. \A u \in Users : \A i \in 1..Len(queue[u]) : queue[u][i] \in Write
  BY <1>4, ElementOfSeq
<1>6. Len(answers) \in Nat /\ \A i \in 1..Len(answers) : answers[i] \in 0..Latest
  BY <1>3, LenProperties, ElementOfSeq
<1>7. \A i \in 1..Len(answers) : i \in 1..Len(queue[fsUser])
  BY <1>3, <1>4, <1>6
<1>8. \A w \in Write : w.id \in WriteIds /\ w.fields \subseteq Fields
  BY DEF Write
<1>9. cache # Unknown => /\ cache \in Cached
                         /\ cache.version \in 1..Latest /\ CacheVersion = cache.version
                         /\ cache.doc \in MaybeDocument
  <2>1. cache # Unknown => cache \in Cached /\ cache.version <= Latest
    BY Typed DEF Inv, CacheFits
  <2> QED BY <1>1, <2>1 DEF Cached, Versions, CacheVersion
<1>10. CacheVersion \in Nat /\ CacheVersion <= Latest
  BY <1>1, <1>9 DEF CacheVersion
<1>11. \A f \in Fields : Base(f) \in WriteIds \cup {Absent}
  BY <1>2, <1>9 DEF Base
<1> QED BY <1>1, <1>2, <1>3, <1>4, <1>5, <1>6, <1>7, <1>8, <1>9, <1>10, <1>11

(* A field under mutations is that of one that sets it, or that of the base. *)
FieldsOver(base, q, n, d) ==
  /\ n = 0 => d = base
  /\ n > 0 => d # Missing
  /\ d # Missing => \A f \in Fields :
       \/ \E i \in 1..n : f \in q[i].fields /\ d[f] = q[i].id
       \/ /\ \A i \in 1..n : f \notin q[i].fields
          /\ d[f] = IF base = Missing THEN Absent ELSE base[f]

LEMMA OverlayFields ==
  ASSUME NEW d \in MaybeDocument, NEW w \in Write
  PROVE  /\ Overlay(d, w) # Missing
         /\ \A f \in Fields : Overlay(d, w)[f] =
              IF f \in w.fields THEN w.id ELSE IF d = Missing THEN Absent ELSE d[f]
<1>1. Overlay(d, w) \in Contents
  BY DEF Overlay, MaybeDocument, Contents, Write
<1>2. Overlay(d, w) # Missing
  BY <1>1, ListenerAssumption
<1> QED BY <1>2 DEF Overlay

LEMMA OverlaidFields ==
  ASSUME NEW base \in MaybeDocument, NEW q \in Seq(Write)
  PROVE  FieldsOver(base, q, Len(q), Overlaid(base, q))
<1> DEFINE g == CHOOSE g : Steps(base, q, Len(q), g)
           P(i) == g[i] \in MaybeDocument /\ FieldsOver(base, q, i, g[i])
           T == {i \in 0..Len(q) : ~P(i)}
<1>1. Overlaid(base, q) = g[Len(q)]
  BY DEF Overlaid, Steps
<1>2. Len(q) \in Nat
  OBVIOUS
<1>3. Steps(base, q, Len(q), g)
  BY <1>2, StepsExist
<1> HIDE DEF g
<1>4. /\ g[0] = base
      /\ \A i \in 1..Len(q) : g[i] = Overlay(g[i - 1], q[i])
  BY <1>2, <1>3 DEF Steps
<1>5. P(0)
  BY <1>4 DEF FieldsOver
<1>6. ASSUME NEW i \in 1..Len(q), P(i - 1) PROVE P(i)
  <2>1. /\ g[i - 1] \in MaybeDocument /\ q[i] \in Write
        /\ g[i] = Overlay(g[i - 1], q[i]) /\ i \in Nat \ {0}
    BY <1>2, <1>4, <1>6
  <2>2. g[i] \in MaybeDocument
    BY <2>1, OverlayType
  <2>3. /\ g[i] # Missing
        /\ \A f \in Fields : g[i][f] =
             IF f \in q[i].fields THEN q[i].id
             ELSE IF g[i - 1] = Missing THEN Absent ELSE g[i - 1][f]
    BY <2>1, OverlayFields
  <2>4. ASSUME NEW f \in Fields
        PROVE  \/ \E j \in 1..i : f \in q[j].fields /\ g[i][f] = q[j].id
               \/ /\ \A j \in 1..i : f \notin q[j].fields
                  /\ g[i][f] = IF base = Missing THEN Absent ELSE base[f]
    <3>1. CASE f \in q[i].fields
      <4>1. g[i][f] = q[i].id /\ i \in 1..i
        BY <2>1, <2>3, <3>1
      <4> QED BY <3>1, <4>1
    <3>2. CASE f \notin q[i].fields
      <4>1. \A j \in 1..i : j = i \/ j \in 1..(i - 1)
        BY <2>1
      <4>2. 1..(i - 1) \subseteq 1..i
        BY <2>1
      <4>3. CASE g[i - 1] = Missing
        <5>1. i - 1 = 0 /\ base = Missing
          BY <1>6, <2>1, <4>3 DEF FieldsOver
        <5>2. g[i][f] = Absent /\ \A j \in 1..i : j = i
          BY <2>3, <3>2, <4>1, <4>3, <5>1
        <5> QED BY <3>2, <5>1, <5>2
      <4>4. CASE g[i - 1] # Missing
        <5>1. \/ \E j \in 1..(i - 1) : f \in q[j].fields /\ g[i - 1][f] = q[j].id
              \/ /\ \A j \in 1..(i - 1) : f \notin q[j].fields
                 /\ g[i - 1][f] = IF base = Missing THEN Absent ELSE base[f]
          BY <1>6, <4>4 DEF FieldsOver
        <5>2. g[i][f] = g[i - 1][f]
          BY <2>3, <3>2, <4>4
        <5> QED BY <3>2, <4>1, <4>2, <5>1, <5>2
      <4> QED BY <4>3, <4>4
    <3> QED BY <3>1, <3>2
  <2>5. FieldsOver(base, q, i, g[i])
    BY <2>1, <2>3, <2>4 DEF FieldsOver
  <2> QED BY <2>2, <2>5
<1>7. T = {}
  <2> SUFFICES ASSUME T # {} PROVE FALSE
    OBVIOUS
  <2> HIDE DEF P
  <2>0. T \subseteq Nat
    BY <1>2
  <2>1. PICK x \in T : \A y \in T : x <= y
    <3> HIDE DEF T
    <3> QED BY <2>0, Smallest
  <2>2. x # 0
    BY <1>5, <2>1
  <2>3. x - 1 \in 0..Len(q) /\ x \in 1..Len(q)
    BY <1>2, <2>1, <2>2
  <2>4. P(x - 1)
    BY <2>1, <2>3
  <2> QED BY <1>6, <2>1, <2>3, <2>4
<1>8. P(Len(q))
  <2> HIDE DEF P
  <2> QED BY <1>2, <1>7
<1> QED BY <1>1, <1>8

(* What the local store has now.                                             *)
LocalNow == Local(cache, queue[fsUser]).doc

LEMMA NowFields ==
  ASSUME Inv
  PROVE  /\ LocalNow \in MaybeDocument
         /\ LocalNow # Missing => \A f \in Fields :
              \/ \E i \in 1..Len(queue[fsUser]) :
                   f \in queue[fsUser][i].fields /\ LocalNow[f] = queue[fsUser][i].id
              \/ /\ \A i \in 1..Len(queue[fsUser]) : f \notin queue[fsUser][i].fields
                 /\ LocalNow[f] = Base(f)
<1> DEFINE base == IF cache = Unknown THEN Missing ELSE cache.doc
           q == queue[fsUser]
<1>1. LocalNow = Overlaid(base, q)
  BY DEF LocalNow, Local
<1>2. base \in MaybeDocument /\ q \in Seq(Write)
  BY DataTypes, Typed DEF MaybeDocument
<1>3. \A f \in Fields : Base(f) = IF base = Missing THEN Absent ELSE base[f]
  BY DEF Base
<1> HIDE DEF base, q
<1>4. LocalNow \in MaybeDocument /\ FieldsOver(base, q, Len(q), LocalNow)
  BY <1>1, <1>2, OverlaidType, OverlaidFields
<1> QED BY <1>3, <1>4 DEF FieldsOver, q

(* What the local store has now may be shown.                                *)
LEMMA NowFits ==
  ASSUME Inv, DataInv, LocalNow # Missing, NEW f \in Fields
  PROVE  LocalNow[f] \in WriteIds \cup {Absent} /\ Fits(f, LocalNow[f])
<1> DEFINE x == LocalNow[f]
<1>1. CASE \E i \in 1..Len(queue[fsUser]) :
             f \in queue[fsUser][i].fields /\ x = queue[fsUser][i].id
  BY <1>1, DataTypes DEF Fits, OnItsWay
<1>2. CASE x = Base(f)
  <2>1. Base(f) \in WriteIds \cup {Absent}
    BY DataTypes
  <2>2. CASE Base(f) = Absent
    BY <1>2, <2>2 DEF Fits
  <2>3. CASE Base(f) # Absent
    <3>1. PICK p \in 1..Latest : p <= CacheVersion /\ Has(p, f, Base(f))
      BY <2>3 DEF DataInv, CacheOccurs
    <3>2. CASE Queued(Base(f))
      <4>0. PICK u \in Users : \E i \in 1..Len(queue[u]) : queue[u][i].id = Base(f)
        BY <3>2 DEF Queued
      <4>1. PICK i \in 1..Len(queue[u]) : queue[u][i].id = Base(f)
        BY <4>0
      <4>2. f \in queue[u][i].fields
        BY <3>1, <4>1 DEF DataInv, FieldsAreKnown
      <4> QED BY <1>2, <2>1, <4>1, <4>2 DEF Fits, OnItsWay
    <3>3. CASE ~Queued(Base(f))
      <4>1. Newer(f, Base(f), Base(f))
        <5>1. \A v \in 1..Latest : v <= v
          BY DataTypes
        <5> QED BY <5>1 DEF Newer
      <4> QED BY <1>2, <2>1, <2>3, <3>1, <3>3, <4>1 DEF Fits, Cleared
    <3> QED BY <3>2, <3>3
  <2> QED BY <2>2, <2>3
<1> QED BY <1>1, <1>2, NowFields

-----------------------------------------------------------------------------
(* Ages.                                                                     *)

LEMMA Largest ==
  ASSUME NEW n \in Nat, NEW T, T \subseteq 0..n, T # {}
  PROVE  Max(T) \in T /\ \A y \in T : y <= Max(T)
<1> DEFINE S == {n - t : t \in T}
<1>1. S \subseteq Nat /\ S # {}
  <2>1. \A t \in T : n - t \in Nat
    OBVIOUS
  <2> QED BY <2>1
<1>2. PICK x \in S : \A y \in S : x <= y
  <2> HIDE DEF S
  <2> QED BY <1>1, Smallest
<1>3. PICK t \in T : x = n - t
  BY <1>2
<1>4. \A y \in T : t >= y
  <2> SUFFICES ASSUME NEW y \in T PROVE t >= y
    OBVIOUS
  <2>1. n - t <= n - y
    BY <1>2, <1>3
  <2> QED BY <2>1
<1>5. Max(T) \in T /\ \A y \in T : Max(T) >= y
  BY <1>4 DEF Max
<1> QED BY <1>5

Occurs(f, x) == {0} \cup {v \in 1..Latest : Has(v, f, x)}

LEMMA OccursMax ==
  ASSUME Inv, NEW f, NEW x
  PROVE  /\ Max(Occurs(f, x)) \in Occurs(f, x)
         /\ Max(Occurs(f, x)) \in 0..MaxVersions
         /\ \A v \in Occurs(f, x) : v <= Max(Occurs(f, x))
<1>1. Latest \in Nat /\ MaxVersions \in Nat /\ Latest <= MaxVersions
  BY DataTypes
<1>2. Occurs(f, x) \subseteq 0..MaxVersions /\ Occurs(f, x) # {}
  BY <1>1 DEF Occurs
<1> QED BY <1>1, <1>2, Largest

LEMMA AgeIs ==
  ASSUME Inv, NEW f, NEW x
  PROVE  /\ Age(f, x) \in 0..(MaxVersions + 1)
         /\ x = Absent => Age(f, x) = 0
         /\ x # Absent /\ x \in Ids(queue[fsUser]) => Age(f, x) = MaxVersions + 1
         /\ x # Absent /\ x \notin Ids(queue[fsUser]) => Age(f, x) = Max(Occurs(f, x))
<1>1. MaxVersions \in Nat /\ Max(Occurs(f, x)) \in 0..MaxVersions
  BY DataTypes, OccursMax
<1>2. x = Absent => Age(f, x) = 0
  <2>1. Absent \notin Ids(queue[fsUser])
    BY DataTypes DEF Ids
  <2> QED BY <2>1, Zenon DEF Age
<1>3. x # Absent /\ x \in Ids(queue[fsUser]) => Age(f, x) = MaxVersions + 1
  BY Zenon DEF Age
<1>4. x # Absent /\ x \notin Ids(queue[fsUser]) => Age(f, x) = Max(Occurs(f, x))
  BY Zenon DEF Age, Occurs, Has
<1>5. MaxVersions + 1 \in 0..(MaxVersions + 1) /\ 0 \in 0..(MaxVersions + 1)
      /\ 0..MaxVersions \subseteq 0..(MaxVersions + 1)
  BY <1>1
<1> QED BY <1>1, <1>2, <1>3, <1>4, <1>5

(* What may be shown is no newer than what the local store has now.          *)
LEMMA FitsAge ==
  ASSUME Inv, DataInv, LocalNow # Missing, NEW f \in Fields,
         NEW x \in WriteIds \cup {Absent}, Fits(f, x), x \notin Undone
  PROVE  Age(f, x) <= Age(f, LocalNow[f])
<1> DEFINE y == LocalNow[f]
<1>0. MaxVersions \in Nat /\ Absent \notin WriteIds /\ fsUser \in Users
  BY DataTypes
<1>1. /\ Age(f, x) \in 0..(MaxVersions + 1)
      /\ Age(f, y) \in 0..(MaxVersions + 1)
  BY AgeIs
<1>2. CASE x = Absent
  BY <1>0, <1>1, <1>2, AgeIs
<1>3. CASE \E i \in 1..Len(queue[fsUser]) :
             f \in queue[fsUser][i].fields /\ y = queue[fsUser][i].id
  <2>1. y \in Ids(queue[fsUser]) /\ y # Absent
    BY <1>0, <1>3, DataTypes DEF Ids
  <2>2. Age(f, y) = MaxVersions + 1
    BY <2>1, AgeIs
  <2> QED BY <1>0, <1>1, <2>2
<1>4. CASE /\ x # Absent
           /\ \A i \in 1..Len(queue[fsUser]) : f \notin queue[fsUser][i].fields
           /\ y = Base(f)
  <2>1. x \notin refused
    BY DEF Undone
  <2>2. ~OnItsWay(f, x)
    <3> SUFFICES ASSUME NEW u \in Users, NEW i \in 1..Len(queue[u]),
                        queue[u][i].id = x, f \in queue[u][i].fields
                 PROVE  FALSE
      BY DEF OnItsWay
    <3>1. u # fsUser
      BY <1>4
    <3>2. x \in Ids(queue[u])
      BY DEF Ids
    <3> QED BY <3>1, <3>2 DEF Undone
  <2>3. Cleared(f, x)
    BY <1>4, <2>1, <2>2 DEF Fits
  <2>4. x \notin Ids(queue[fsUser])
    BY <1>0, <2>3 DEF Cleared, Queued, Ids
  <2>5. y # Absent /\ Newer(f, x, y)
    BY <1>4, <2>3 DEF Cleared
  <2> SUFFICES Age(f, x) <= Age(f, y)
    OBVIOUS
  <2> HIDE DEF y
  <2>6. Age(f, x) = Max(Occurs(f, x))
    BY <1>4, <2>4, AgeIs
  <2>7. CASE y \in Ids(queue[fsUser])
    <3>1. Age(f, y) = MaxVersions + 1
      BY <2>5, <2>7, AgeIs
    <3> QED BY <1>0, <1>1, <3>1
  <2>8. CASE y \notin Ids(queue[fsUser])
    <3> DEFINE m == Max(Occurs(f, x))
               n == Max(Occurs(f, y))
    <3>1. Age(f, y) = n
      BY <2>5, <2>8, AgeIs
    <3>2. /\ m \in Occurs(f, x) /\ m \in 0..MaxVersions /\ n \in 0..MaxVersions
          /\ \A v \in Occurs(f, y) : v <= n
      BY OccursMax
    <3> HIDE DEF m, n
    <3>3. CASE m = 0
      BY <1>0, <2>6, <3>1, <3>2, <3>3 DEF m
    <3>4. CASE m # 0
      <4>1. m \in 1..Latest /\ Has(m, f, x)
        BY <3>2, <3>4 DEF Occurs
      <4>2. PICK t \in 1..Latest : m <= t /\ Has(t, f, y)
        BY <2>5, <4>1 DEF Newer
      <4>3. t <= n
        BY <3>2, <4>2 DEF Occurs
      <4>4. Latest \in Nat
        BY DataTypes
      <4> QED BY <1>0, <2>6, <3>1, <3>2, <4>2, <4>3, <4>4 DEF m
    <3> QED BY <3>3, <3>4
  <2> QED BY <2>7, <2>8
<1> QED BY <1>2, <1>3, <1>4, NowFields

-----------------------------------------------------------------------------
(* Every operation keeps the order of versions, answers and the cache, and   *)
(* what may have been shown before may have been shown after.                *)

LEMMA DataInit == Init => DataInv
<1> SUFFICES ASSUME Init PROVE DataInv
  OBVIOUS
<1>0. Inv
  BY InitInv
<1>1. /\ \A u \in Users : Len(queue[u]) = 0
      /\ Len(answers) = 0 /\ cache = Unknown
  BY EmptySeq DEF Init
<1>2. Latest = 1
  BY DEF Init, Latest
<1>3. HistoryGrows /\ Settled
  BY <1>2 DEF HistoryGrows, Settled
<1>4. QueuedOnce /\ FieldsAreKnown /\ CacheOccurs
  BY <1>1 DEF QueuedOnce, FieldsAreKnown, CacheOccurs, Base
<1>5. AnswersAhead /\ AnswersLand
  BY <1>1 DEF AnswersAhead, AnswersLand
<1> QED BY <1>3, <1>4, <1>5 DEF DataInv

(* The documents, the queues and the cache stay; answers may be lost, or one *)
(* is a refusal.                                                             *)
LEMMA QuietData ==
  ASSUME Inv, DataInv, UNCHANGED <<history, queue, cache, refused>>,
         \/ answers' = <<>>
         \/ answers' = answers /\ fsUser' = fsUser
         \/ answers' = Append(answers, 0) /\ fsUser' = fsUser
  PROVE  DataInv' /\ FitsStay
<1>1. Latest' = Latest
  BY DEF Latest
<1>2. HistoryGrows' /\ Settled'
  BY <1>1 DEF DataInv, HistoryGrows, Settled, Queued, Has, CacheVersion
<1>3. QueuedOnce' /\ FieldsAreKnown' /\ CacheOccurs'
  BY <1>1 DEF DataInv, QueuedOnce, FieldsAreKnown, CacheOccurs, Base, Has, CacheVersion
<1>4. \A i \in 1..Len(answers') : answers'[i] # 0 =>
        i \in 1..Len(answers) /\ answers'[i] = answers[i] /\ fsUser' = fsUser
  <2>1. answers \in Seq(0..Latest) /\ Len(answers) \in Nat
    BY DataTypes
  <2>2. CASE answers' = <<>>
    BY <2>2, EmptySeq
  <2>3. CASE answers' = answers /\ fsUser' = fsUser
    BY <2>3
  <2>4. CASE answers' = Append(answers, 0) /\ fsUser' = fsUser
    <3>1. /\ Len(answers') = Len(answers) + 1
          /\ answers'[Len(answers) + 1] = 0
          /\ \A i \in 1..Len(answers) : answers'[i] = answers[i]
      BY <2>1, <2>4
    <3>2. \A i \in 1..(Len(answers) + 1) : i \in 1..Len(answers) \/ i = Len(answers) + 1
      BY <2>1
    <3> QED BY <2>4, <3>1, <3>2
  <2> QED BY <2>2, <2>3, <2>4
<1>5. AnswersAhead'
  <2>1. ASSUME NEW i \in 1..Len(answers'), NEW j \in 1..Len(answers'), i < j, answers'[j] # 0
        PROVE  answers'[i] < answers'[j]
    <3>1. /\ j \in 1..Len(answers) /\ answers'[j] = answers[j]
      BY <1>4, <2>1
    <3>2. answers[j] \in 0..Latest /\ Latest \in Nat
      BY <3>1, DataTypes
    <3>3. CASE answers'[i] = 0
      BY <2>1, <3>1, <3>2, <3>3
    <3>4. CASE answers'[i] # 0
      BY <1>4, <2>1, <3>1, <3>4 DEF DataInv, AnswersAhead
    <3> QED BY <3>3, <3>4
  <2>2. ASSUME cache' # Unknown, cache'.committed, NEW i \in 1..Len(answers'), answers'[i] # 0
        PROVE  cache'.version < answers'[i]
    BY <1>4, <2>2 DEF DataInv, AnswersAhead
  <2> QED BY <2>1, <2>2 DEF AnswersAhead
<1>6. AnswersLand'
  BY <1>1, <1>4 DEF DataInv, AnswersLand, Has
<1>7. FitsStay
  BY <1>1 DEF FitsStay, Fits, OnItsWay, Cleared, Queued, Base, Has, CacheVersion, Newer
<1> QED BY <1>2, <1>3, <1>5, <1>6, <1>7 DEF DataInv

(* A write enters the user's queue.                                          *)
LEMMA SetDataData ==
  ASSUME Inv, DataInv, NEW w \in Write, SetData(w)
  PROVE  DataInv' /\ FitsStay
<1> DEFINE q == queue[fsUser]
           n == Len(q) + 1
<1>1. /\ Unused(w.id)
      /\ queue' = [queue EXCEPT ![fsUser] = Append(q, w)]
      /\ UNCHANGED <<history, cache, fsUser, refused, answers>>
  BY DEF SetData
<1>2. /\ queue \in [Users -> Seq(Write)] /\ fsUser \in Users /\ q \in Seq(Write)
      /\ Len(q) \in Nat /\ w.id \in WriteIds
  BY DataTypes, Typed DEF Write
<1>3. Latest' = Latest
  BY <1>1 DEF Latest
<1>4. /\ Len(queue'[fsUser]) = n /\ queue'[fsUser][n] = w
      /\ \A i \in 1..Len(q) : queue'[fsUser][i] = q[i]
      /\ \A u \in Users : u # fsUser => queue'[u] = queue[u]
  BY <1>1, <1>2
<1>5. ASSUME NEW u \in Users, NEW i \in 1..Len(queue'[u])
      PROVE  \/ i \in 1..Len(queue[u]) /\ queue'[u][i] = queue[u][i]
             \/ u = fsUser /\ i = n /\ queue'[u][i] = w
  <2>1. CASE u = fsUser
    <3>1. i \in 1..Len(q) \/ i = n
      BY <1>2, <1>4, <2>1
    <3> QED BY <1>4, <2>1, <3>1
  <2>2. CASE u # fsUser
    BY <1>4, <2>2
  <2> QED BY <2>1, <2>2
<1>6. \A u \in Users : \A i \in 1..Len(queue[u]) :
        i \in 1..Len(queue'[u]) /\ queue'[u][i] = queue[u][i]
  BY <1>2, <1>4
<1>7. /\ \A u \in Users : \A i \in 1..Len(queue[u]) : queue[u][i].id # w.id
      /\ \A v \in 1..Latest : \A f \in Fields : ~Has(v, f, w.id)
  BY <1>1 DEF Unused, Has
<1> HIDE DEF q, n
<1>8. HistoryGrows'
  BY <1>1, <1>3 DEF DataInv, HistoryGrows
<1>9. QueuedOnce'
  <2> SUFFICES ASSUME NEW u \in Users, NEW t \in Users,
                      NEW i \in 1..Len(queue'[u]), NEW j \in 1..Len(queue'[t]),
                      queue'[u][i].id = queue'[t][j].id
               PROVE  u = t /\ i = j
    BY DEF QueuedOnce
  <2>1. \/ i \in 1..Len(queue[u]) /\ queue'[u][i] = queue[u][i]
        \/ u = fsUser /\ i = n /\ queue'[u][i] = w
    BY <1>5
  <2>2. \/ j \in 1..Len(queue[t]) /\ queue'[t][j] = queue[t][j]
        \/ t = fsUser /\ j = n /\ queue'[t][j] = w
    BY <1>5
  <2>3. QueuedOnce
    BY DEF DataInv
  <2>4. CASE /\ i \in 1..Len(queue[u]) /\ queue'[u][i] = queue[u][i]
             /\ j \in 1..Len(queue[t]) /\ queue'[t][j] = queue[t][j]
    <3>1. queue[u][i].id = queue[t][j].id
      BY <2>4
    <3> QED BY <2>3, <2>4, <3>1 DEF QueuedOnce
  <2>5. CASE /\ i \in 1..Len(queue[u]) /\ queue'[u][i] = queue[u][i]
             /\ queue'[t][j] = w
    <3>1. queue[u][i].id = w.id
      BY <2>5
    <3> QED BY <1>7, <2>5, <3>1
  <2>6. CASE /\ j \in 1..Len(queue[t]) /\ queue'[t][j] = queue[t][j]
             /\ queue'[u][i] = w
    <3>1. queue[t][j].id = w.id
      BY <2>6
    <3> QED BY <1>7, <2>6, <3>1
  <2> QED BY <2>1, <2>2, <2>4, <2>5, <2>6
<1>10. FieldsAreKnown'
  BY <1>1, <1>3, <1>5, <1>7 DEF DataInv, FieldsAreKnown, Has
<1>11. CacheOccurs' /\ AnswersAhead'
  BY <1>1, <1>3 DEF DataInv, CacheOccurs, AnswersAhead, Base, Has, CacheVersion
<1>12. AnswersLand'
  <2>1. \A i \in 1..Len(answers) : queue'[fsUser'][i] = queue[fsUser][i]
    BY <1>1, <1>2, <1>6, DataTypes
  <2>2. answers' = answers /\ \A v, f, x : Has(v, f, x)' <=> Has(v, f, x)
    BY <1>1 DEF Has
  <2>3. AnswersLand
    BY DEF DataInv
  <2> QED BY <1>3, <2>1, <2>2, <2>3 DEF AnswersLand
<1>13. \A x : Queued(x) => Queued(x)'
  BY <1>6 DEF Queued
<1>14. Settled'
  BY <1>1, <1>3, <1>13 DEF DataInv, Settled, Has, CacheVersion
<1>15. FitsStay
  <2> SUFFICES ASSUME NEW f \in Fields, NEW x \in WriteIds \cup {Absent}, Fits(f, x)
               PROVE  Fits(f, x)'
    BY DEF FitsStay
  <2>1. CASE x = Absent \/ x \in refused
    BY <1>1, <2>1 DEF Fits
  <2>2. CASE OnItsWay(f, x)
    BY <1>6, <2>2 DEF Fits, OnItsWay
  <2>3. CASE Cleared(f, x)
    <3>1. x # w.id
      BY <1>7, <2>3 DEF Cleared
    <3>2. ~Queued(x)'
      BY <1>5, <2>3, <3>1 DEF Cleared, Queued
    <3> QED BY <1>1, <1>3, <2>3, <3>2 DEF Fits, Cleared, Base, Has, CacheVersion, Newer
  <2> QED BY <2>1, <2>2, <2>3 DEF Fits
<1> QED BY <1>8, <1>9, <1>10, <1>11, <1>12, <1>14, <1>15 DEF DataInv

(* The server commits a write: the next one of this client's queue, or one   *)
(* of another device.  Nothing comes back by it that was overwritten.        *)
LEMMA CommitData ==
  ASSUME Inv, DataInv, NEW w \in Write,
         history' = Append(history, Overlay(history[Latest], w)),
         UNCHANGED <<queue, cache, fsUser, refused>>,
         \/ answers' = Append(answers, Latest + 1) /\ Sendable /\ w = Sent
         \/ answers' = answers /\ Unused(w.id)
  PROVE  DataInv' /\ FitsStay
<1> DEFINE N == Latest + 1
           k == Len(answers) + 1
           q == queue[fsUser]
           Now(v, f, x) == history'[v] # Missing /\ history'[v][f] = x
<1> HIDE DEF Now
<1>1. /\ Latest \in Nat \ {0} /\ history \in Seq(MaybeDocument)
      /\ history[Latest] \in MaybeDocument
      /\ w.id \in WriteIds /\ w.fields \subseteq Fields /\ Absent \notin WriteIds
  BY DataTypes DEF Write
<1>2. /\ Overlay(history[Latest], w) # Missing
      /\ \A f \in Fields : Overlay(history[Latest], w)[f] =
           IF f \in w.fields THEN w.id
           ELSE IF history[Latest] = Missing THEN Absent ELSE history[Latest][f]
  BY <1>1, OverlayFields
<1>3. /\ Latest' = N /\ history'[N] = Overlay(history[Latest], w)
      /\ \A v \in 1..Latest : history'[v] = history[v]
  BY <1>1 DEF Latest
<1>4. \A v \in 1..Latest' : v \in 1..Latest \/ v = N
  BY <1>1, <1>3
<1>5. 1..Latest \subseteq 1..Latest' /\ N \in 1..Latest' /\ Latest \in 1..Latest
      /\ \A v \in 1..Latest : v <= Latest /\ v < N /\ ~(N <= v)
  BY <1>1, <1>3
<1>6. \A v \in 1..Latest : \A f, x : Now(v, f, x) <=> Has(v, f, x)
  BY <1>3 DEF Has, Now
<1>7. \A f \in Fields, x \in WriteIds :
        Now(N, f, x) <=> \/ f \in w.fields /\ x = w.id
                         \/ f \notin w.fields /\ Has(Latest, f, x)
  <2> SUFFICES ASSUME NEW f \in Fields, NEW x \in WriteIds
               PROVE  Now(N, f, x) <=> \/ f \in w.fields /\ x = w.id
                                       \/ f \notin w.fields /\ Has(Latest, f, x)
    OBVIOUS
  <2>1. Now(N, f, x) <=> Overlay(history[Latest], w)[f] = x
    BY <1>2, <1>3 DEF Now
  <2>2. CASE f \in w.fields
    BY <1>2, <2>1, <2>2
  <2>3. CASE f \notin w.fields
    BY <1>1, <1>2, <2>1, <2>3 DEF Has
  <2> QED BY <2>2, <2>3
<1>8. \/ /\ k \in 1..Len(q) /\ q[k] = w
         /\ Len(answers') = k /\ answers'[k] = N
         /\ \A i \in 1..Len(answers) : answers'[i] = answers[i]
      \/ answers' = answers /\ Unused(w.id)
  <2>1. answers \in Seq(0..Latest) /\ Len(answers) \in Nat /\ Len(q) \in Nat
    BY DataTypes
  <2>2. CASE answers' = Append(answers, Latest + 1) /\ Sendable /\ w = Sent
    BY <2>1, <2>2 DEF Sendable, Sent
  <2> QED BY <2>2
<1>9. \A i \in 1..Len(answers') :
        \/ i \in 1..Len(answers) /\ answers'[i] = answers[i]
        \/ i = k /\ q[k] = w /\ k \in 1..Len(q) /\ answers'[i] = N
  <2>1. Len(answers) \in Nat
    BY DataTypes
  <2> QED BY <1>8, <2>1
<1>10. Unused(w.id) =>
         /\ \A u \in Users : \A i \in 1..Len(queue[u]) : queue[u][i].id # w.id
         /\ \A v \in 1..Latest : \A f \in Fields : ~Has(v, f, w.id)
  BY DEF Unused, Has
<1>11. /\ \A i \in 1..Len(answers) : answers[i] \in 0..Latest /\ i \in 1..Len(q)
       /\ \A i \in 1..Len(q) : q[i].id \in WriteIds
       /\ \A u \in Users : \A i \in 1..Len(queue[u]) : queue[u][i].id \in WriteIds
       /\ fsUser \in Users /\ Len(answers) \in Nat
       /\ CacheVersion \in Nat /\ CacheVersion <= Latest
       /\ cache # Unknown => CacheVersion = cache.version
  BY DataTypes
<1>12. /\ \A f : Base(f)' = Base(f)
       /\ CacheVersion' = CacheVersion
       /\ \A x : Queued(x)' <=> Queued(x)
  BY DEF Base, CacheVersion, Queued
<1>13. HistoryGrows'
  <2> SUFFICES ASSUME NEW p \in 1..Latest', NEW r \in 1..Latest', p < r
               PROVE  /\ history'[r] # Missing
                      /\ \A f \in Fields : history'[p] # Missing /\ history'[p][f] # Absent
                                             => history'[r][f] # Absent
    BY DEF HistoryGrows
  <2>1. p \in 1..Latest
    BY <1>1, <1>3, <1>4
  <2>2. CASE r \in 1..Latest
    BY <1>3, <2>1, <2>2 DEF DataInv, HistoryGrows
  <2>3. CASE r = N
    <3>1. history'[r] # Missing
      BY <1>2, <1>3, <2>3
    <3>2. ASSUME NEW f \in Fields, history'[p] # Missing, history'[p][f] # Absent
          PROVE  history'[r][f] # Absent
      <4>1. CASE f \in w.fields
        BY <1>1, <1>2, <1>3, <2>3, <4>1
      <4>2. CASE f \notin w.fields
        <5>1. p = Latest \/ p < Latest
          BY <1>1, <2>1
        <5>2. history[Latest] # Missing /\ history[Latest][f] # Absent
          BY <1>3, <1>5, <2>1, <3>2, <5>1 DEF DataInv, HistoryGrows
        <5> QED BY <1>2, <1>3, <2>3, <4>2, <5>2
      <4> QED BY <4>1, <4>2
    <3> QED BY <3>1, <3>2
  <2> QED BY <1>4, <2>2, <2>3
<1>14. QueuedOnce'
  BY DEF DataInv, QueuedOnce
<1>15. FieldsAreKnown'
  <2> SUFFICES ASSUME NEW u \in Users, NEW i \in 1..Len(queue[u]), NEW v \in 1..Latest',
                      NEW f \in Fields, Now(v, f, queue[u][i].id)
               PROVE  f \in queue[u][i].fields
    BY DEF FieldsAreKnown, Has, Now
  <2>0. queue[u][i].id \in WriteIds
    BY <1>11
  <2>1. CASE v \in 1..Latest
    <3>1. Has(v, f, queue[u][i].id)
      BY <1>6, <2>0, <2>1
    <3> QED BY <2>1, <3>1 DEF DataInv, FieldsAreKnown
  <2>2. CASE v = N
    <3>1. CASE f \in w.fields /\ queue[u][i].id = w.id
      <4>1. k \in 1..Len(q) /\ q[k] = w
        BY <1>8, <1>10, <3>1
      <4>2. u = fsUser /\ i = k
        BY <1>11, <3>1, <4>1 DEF DataInv, QueuedOnce
      <4> QED BY <3>1, <4>1, <4>2
    <3>2. CASE Has(Latest, f, queue[u][i].id)
      BY <1>5, <3>2 DEF DataInv, FieldsAreKnown
    <3> QED BY <1>7, <2>0, <2>2, <3>1, <3>2
  <2> QED BY <1>4, <2>1, <2>2
<1>16. CacheOccurs'
  <2> SUFFICES ASSUME NEW f \in Fields, Base(f) # Absent
               PROVE  \E p \in 1..Latest' : p <= CacheVersion /\ Now(p, f, Base(f))
    BY <1>12 DEF CacheOccurs, Has, Now
  <2>1. PICK p \in 1..Latest : p <= CacheVersion /\ Has(p, f, Base(f))
    BY DEF DataInv, CacheOccurs
  <2> QED BY <1>5, <1>6, <2>1
<1> HIDE DEF q, k
<1>17. AnswersAhead'
  <2>0. AnswersAhead
    BY DEF DataInv
  <2>1. ASSUME NEW i \in 1..Len(answers'), NEW j \in 1..Len(answers'), i < j, answers'[j] # 0
        PROVE  answers'[i] < answers'[j]
    <3>1. CASE j \in 1..Len(answers) /\ answers'[j] = answers[j]
      <4>1. i \in 1..Len(answers) /\ answers'[i] = answers[i]
        BY <1>8, <1>11, <2>1, <3>1
      <4> QED BY <2>0, <2>1, <3>1, <4>1 DEF AnswersAhead
    <3>2. CASE j = k /\ answers'[j] = N
      <4>1. i \in 1..Len(answers) /\ answers'[i] = answers[i]
        BY <1>9, <2>1, <3>2
      <4> QED BY <1>1, <1>11, <3>2, <4>1
    <3> QED BY <1>9, <3>1, <3>2
  <2>2. ASSUME cache # Unknown, cache.committed, NEW i \in 1..Len(answers'), answers'[i] # 0
        PROVE  cache.version < answers'[i]
    <3>1. CASE i \in 1..Len(answers) /\ answers'[i] = answers[i]
      BY <2>0, <2>2, <3>1 DEF AnswersAhead
    <3>2. CASE answers'[i] = N
      BY <1>1, <1>11, <2>2, <3>2
    <3> QED BY <1>9, <3>1, <3>2
  <2> QED BY <2>1, <2>2 DEF AnswersAhead
<1>18. AnswersLand'
  <2>0. AnswersLand /\ QueuedOnce
    BY DEF DataInv
  <2> SUFFICES ASSUME NEW i \in 1..Len(answers'), answers'[i] # 0, NEW f \in Fields
               PROVE  /\ f \in q[i].fields => Now(answers'[i], f, q[i].id)
                      /\ \A p, r \in 1..Latest' :
                           answers'[i] <= p /\ p <= r /\ Now(r, f, q[i].id)
                             => Now(p, f, q[i].id)
    BY DEF AnswersLand, q, Has, Now
  <2>1. CASE i \in 1..Len(answers) /\ answers'[i] = answers[i]
    <3>1. /\ f \in q[i].fields => Has(answers[i], f, q[i].id)
          /\ \A p, r \in 1..Latest :
               answers[i] <= p /\ p <= r /\ Has(r, f, q[i].id) => Has(p, f, q[i].id)
      BY <2>0, <2>1 DEF AnswersLand, q
    <3>2. answers[i] \in 1..Latest /\ q[i].id \in WriteIds /\ i \in 1..Len(q)
      BY <1>1, <1>11, <2>1
    <3>3. f \in q[i].fields => Now(answers'[i], f, q[i].id)
      BY <1>6, <2>1, <3>1, <3>2
    <3>4. ASSUME NEW p \in 1..Latest', NEW r \in 1..Latest',
                 answers[i] <= p, p <= r, Now(r, f, q[i].id)
          PROVE  Now(p, f, q[i].id)
      <4>1. CASE p = N
        <5>1. r = N
          BY <1>4, <1>5, <3>4, <4>1
        <5> QED BY <3>4, <4>1, <5>1
      <4>2. CASE p \in 1..Latest /\ r \in 1..Latest
        BY <1>6, <3>1, <3>4, <4>2
      <4>3. CASE p \in 1..Latest /\ r = N
        <5>1. q[i].id # w.id
          <6>1. CASE k \in 1..Len(q) /\ q[k] = w
            <7>1. i # k
              BY <1>11, <2>1 DEF k
            <7> QED BY <1>11, <2>0, <3>2, <6>1, <7>1 DEF QueuedOnce, q
          <6>2. CASE Unused(w.id)
            BY <1>10, <1>11, <3>2, <6>2 DEF q
          <6> QED BY <1>8, <6>1, <6>2
        <5>2. Has(Latest, f, q[i].id)
          BY <1>7, <3>2, <3>4, <4>3, <5>1
        <5>3. Has(p, f, q[i].id)
          BY <1>5, <3>1, <3>4, <4>3, <5>2
        <5> QED BY <1>6, <4>3, <5>3
      <4> QED BY <1>4, <4>1, <4>2, <4>3
    <3> QED BY <2>1, <3>3, <3>4
  <2>2. CASE i = k /\ q[k] = w /\ answers'[i] = N
    <3>1. f \in q[i].fields => Now(answers'[i], f, q[i].id)
      <4>1. ASSUME f \in w.fields PROVE Now(N, f, w.id)
        <5>1. w.id \in WriteIds
          BY <1>1
        <5> HIDE DEF N
        <5> QED BY <1>7, <4>1, <5>1
      <4>2. q[i] = w
        BY <2>2
      <4> QED BY <2>2, <4>1, <4>2
    <3>2. ASSUME NEW p \in 1..Latest', NEW r \in 1..Latest', N <= p, p <= r
          PROVE  p = r
      BY <1>4, <1>5, <3>2
    <3> QED BY <2>2, <3>1, <3>2
  <2> QED BY <1>9, <2>1, <2>2
<1>19. ASSUME NEW x \in WriteIds, ~Queued(x), NEW f \in Fields, NEW p \in 1..Latest, Has(p, f, x)
       PROVE  x # w.id
  <2>1. CASE k \in 1..Len(q) /\ q[k] = w
    BY <1>11, <1>19, <2>1 DEF Queued, q
  <2>2. CASE Unused(w.id)
    BY <1>10, <1>19, <2>2
  <2> QED BY <1>8, <2>1, <2>2
<1>20. Settled'
  <2>0. Settled
    BY DEF DataInv
  <2> SUFFICES ASSUME NEW x \in WriteIds, ~Queued(x), x \notin refused, NEW f \in Fields,
                      NEW p \in 1..Latest', NEW t \in 1..Latest', NEW r \in 1..Latest',
                      p <= t, t <= r, CacheVersion <= t, Now(p, f, x), Now(r, f, x)
               PROVE  Now(t, f, x)
    <3>1. \A v, f, x : Now(v, f, x) <=> Has(v, f, x)'
      BY DEF Has, Now
    <3>2. refused' = refused
      OBVIOUS
    <3> QED BY <1>12, <3>1, <3>2 DEF Settled
  <2>1. CASE t = N
    <3>1. r = N
      BY <1>4, <1>5, <2>1
    <3> QED BY <2>1, <3>1
  <2>2. CASE t \in 1..Latest
    <3>1. p \in 1..Latest /\ Has(p, f, x)
      <4>1. p \in 1..Latest
        BY <1>4, <1>5, <2>2
      <4> QED BY <1>6, <4>1
    <3>2. CASE r \in 1..Latest
      <4>1. Has(r, f, x)
        BY <1>6, <3>2
      <4>2. Has(t, f, x)
        BY <2>0, <2>2, <3>1, <3>2, <4>1 DEF Settled
      <4> QED BY <1>6, <2>2, <4>2
    <3>3. CASE r = N
      <4>1. x # w.id
        BY <1>19, <3>1
      <4>2. Has(Latest, f, x) /\ Latest \in 1..Latest /\ t <= Latest
        BY <1>5, <1>7, <2>2, <3>3, <4>1
      <4>3. Has(t, f, x)
        BY <2>0, <2>2, <3>1, <4>2 DEF Settled
      <4> QED BY <1>6, <2>2, <4>3
    <3> QED BY <1>4, <3>2, <3>3
  <2> QED BY <1>4, <2>1, <2>2
<1>21. FitsStay
  <2> SUFFICES ASSUME NEW f \in Fields, NEW x \in WriteIds \cup {Absent}, Fits(f, x)
               PROVE  Fits(f, x)'
    BY DEF FitsStay
  <2>1. CASE x = Absent \/ x \in refused \/ OnItsWay(f, x)
    BY <2>1 DEF Fits, OnItsWay
  <2>2. CASE Cleared(f, x) /\ x # Absent
    <3> DEFINE b == Base(f)
    <3>1. /\ ~Queued(x) /\ b # Absent /\ x \in WriteIds
          /\ Newer(f, x, b) /\ b \in WriteIds
      BY <2>2, DataTypes DEF Cleared
    <3>2. PICK p \in 1..Latest : p <= CacheVersion /\ Has(p, f, x)
      BY <2>2 DEF Cleared
    <3>3. x # w.id
      BY <1>19, <3>1, <3>2
    <3>4. b = Base(f)' /\ ~Queued(x)' /\ p \in 1..Latest' /\ p <= CacheVersion' /\ Now(p, f, x)
      BY <1>5, <1>6, <1>12, <3>1, <3>2
    <3> HIDE DEF b
    <3>5. ASSUME NEW v \in 1..Latest', Now(v, f, x)
          PROVE  \E t \in 1..Latest' : v <= t /\ Now(t, f, b)
      <4>1. CASE v \in 1..Latest
        <5>1. PICK t \in 1..Latest : v <= t /\ Has(t, f, b)
          BY <1>6, <3>1, <3>5, <4>1 DEF Newer
        <5> QED BY <1>5, <1>6, <5>1
      <4>2. CASE v = N
        <5>1. f \notin w.fields /\ Has(Latest, f, x)
          BY <1>7, <3>1, <3>3, <3>5, <4>2
        <5>2. PICK t \in 1..Latest : Latest <= t /\ Has(t, f, b)
          BY <1>5, <3>1, <5>1 DEF Newer
        <5>3. t = Latest
          BY <1>1, <5>2
        <5>4. Now(N, f, b)
          BY <1>7, <3>1, <5>1, <5>2, <5>3
        <5> QED BY <1>1, <1>5, <4>2, <5>4
      <4> QED BY <1>4, <3>5, <4>1, <4>2
    <3>7. Newer(f, x, Base(f))'
      BY <3>4, <3>5 DEF Newer, Has, Now
    <3> QED BY <3>1, <3>4, <3>7 DEF Fits, Cleared, Has, Now
  <2> QED BY <2>1, <2>2 DEF Fits
<1> QED BY <1>13, <1>14, <1>15, <1>16, <1>17, <1>18, <1>20, <1>21 DEF DataInv

(* An answer takes the first write from the queue, and the answers and the   *)
(* other writes move up.                                                     *)
LEMMA AnswerShifts ==
  ASSUME Inv, DataInv, HandleAnswer
  PROVE  /\ Len(queue[fsUser]) \in Nat \ {0} /\ 1 \in 1..Len(queue[fsUser])
         /\ 1 \in 1..Len(answers)
         /\ Head(queue[fsUser]) = queue[fsUser][1] /\ Head(queue[fsUser]) \in Write
         /\ Head(answers) = answers[1]
         /\ \A i \in 1..Len(answers') :
              i + 1 \in 1..Len(answers) /\ answers'[i] = answers[i + 1]
         /\ \A i \in 1..Len(queue'[fsUser]) :
              i + 1 \in 1..Len(queue[fsUser]) /\ queue'[fsUser][i] = queue[fsUser][i + 1]
         /\ \A i \in 1..Len(queue[fsUser]) :
              i = 1 \/ (i - 1 \in 1..Len(queue'[fsUser])
                          /\ queue'[fsUser][i - 1] = queue[fsUser][i])
         /\ \A u \in Users : u # fsUser => queue'[u] = queue[u]
<1> DEFINE q == queue[fsUser]
<1>1. /\ answers # <<>>
      /\ queue' = [queue EXCEPT ![fsUser] = Tail(q)]
      /\ answers' \in {<<>>, Tail(answers)}
  BY DEF HandleAnswer
<1>2. /\ answers \in Seq(0..Latest) /\ Len(answers) \in Nat \ {0}
      /\ q \in Seq(Write) /\ Len(q) \in Nat /\ Len(answers) <= Len(q)
      /\ queue \in [Users -> Seq(Write)] /\ fsUser \in Users
  BY <1>1, DataTypes, Typed, EmptySeq, LenProperties
<1>3. Len(q) \in Nat \ {0} /\ q # <<>>
  BY <1>2
<1>4. queue'[fsUser] = Tail(q) /\ \A u \in Users : u # fsUser => queue'[u] = queue[u]
  BY <1>1, <1>2
<1> HIDE DEF q
<1>5. /\ Head(q) = q[1] /\ Head(q) \in Write
      /\ Len(Tail(q)) = Len(q) - 1
      /\ \A i \in 1..Len(Tail(q)) : Tail(q)[i] = q[i + 1]
  BY <1>2, <1>3, HeadTailProperties
<1>6. /\ Head(answers) = answers[1]
      /\ Len(Tail(answers)) = Len(answers) - 1
      /\ \A i \in 1..Len(Tail(answers)) : Tail(answers)[i] = answers[i + 1]
  BY <1>1, <1>2, HeadTailProperties
<1>7. \A i \in 1..Len(answers') :
        i + 1 \in 1..Len(answers) /\ answers'[i] = answers[i + 1]
  <2>1. CASE answers' = <<>>
    BY <2>1, EmptySeq
  <2>2. CASE answers' = Tail(answers)
    <3>1. \A i \in 1..(Len(answers) - 1) : i + 1 \in 1..Len(answers)
      BY <1>2
    <3> QED BY <1>6, <2>2, <3>1
  <2> QED BY <1>1, <2>1, <2>2
<1>8. \A i \in 1..Len(Tail(q)) : i + 1 \in 1..Len(q)
  BY <1>3, <1>5
<1>9. ASSUME NEW i \in 1..Len(q), i # 1
      PROVE  i - 1 \in 1..Len(Tail(q)) /\ Tail(q)[i - 1] = q[i]
  <2>1. i - 1 \in 1..(Len(q) - 1) /\ (i - 1) + 1 = i
    BY <1>3, <1>9
  <2> QED BY <1>5, <2>1
<1>10. 1 \in 1..Len(q) /\ 1 \in 1..Len(answers)
  BY <1>2, <1>3
<1> QED BY <1>3, <1>4, <1>5, <1>6, <1>7, <1>8, <1>9, <1>10 DEF q

(* The write that was answered is in no queue any more, the others stay.     *)
LEMMA AnsweredOnce ==
  ASSUME Inv, DataInv, HandleAnswer
  PROVE  /\ \A u \in Users : \A i \in 1..Len(queue'[u]) :
              \E j \in 1..Len(queue[u]) :
                queue'[u][i] = queue[u][j] /\ queue[u][j].id # Head(queue[fsUser]).id
         /\ \A u \in Users : \A j \in 1..Len(queue[u]) :
              \/ queue[u][j] = Head(queue[fsUser])
              \/ \E i \in 1..Len(queue'[u]) : queue'[u][i] = queue[u][j]
         /\ \A x : Queued(x)' => Queued(x) /\ x # Head(queue[fsUser]).id
         /\ \A x : Queued(x) => Queued(x)' \/ x = Head(queue[fsUser]).id
         /\ Queued(Head(queue[fsUser]).id)
         /\ QueuedOnce'
<1> DEFINE w == Head(queue[fsUser])
<1>0. fsUser \in Users /\ QueuedOnce
  BY DataTypes DEF DataInv
<1>1. /\ w = queue[fsUser][1] /\ 1 \in 1..Len(queue[fsUser])
      /\ \A i \in 1..Len(queue'[fsUser]) :
           i + 1 \in 1..Len(queue[fsUser]) /\ queue'[fsUser][i] = queue[fsUser][i + 1]
      /\ \A i \in 1..Len(queue[fsUser]) :
           i = 1 \/ (i - 1 \in 1..Len(queue'[fsUser])
                       /\ queue'[fsUser][i - 1] = queue[fsUser][i])
      /\ \A u \in Users : u # fsUser => queue'[u] = queue[u]
  BY AnswerShifts
<1> HIDE DEF w
<1>2. ASSUME NEW u \in Users, NEW i \in 1..Len(queue'[u])
      PROVE  \E j \in 1..Len(queue[u]) :
               /\ queue'[u][i] = queue[u][j] /\ queue[u][j].id # w.id
               /\ j = IF u = fsUser THEN i + 1 ELSE i
  <2>1. CASE u = fsUser
    <3>1. i + 1 \in 1..Len(queue[u]) /\ queue'[u][i] = queue[u][i + 1] /\ i + 1 # 1
      BY <1>1, <2>1
    <3>2. queue[u][i + 1].id # w.id
      BY <1>0, <1>1, <2>1, <3>1 DEF QueuedOnce
    <3> QED BY <2>1, <3>1, <3>2
  <2>2. CASE u # fsUser
    <3>1. queue'[u][i] = queue[u][i] /\ i \in 1..Len(queue[u])
      BY <1>1, <2>2
    <3>2. queue[u][i].id # w.id
      BY <1>0, <1>1, <2>2, <3>1 DEF QueuedOnce
    <3> QED BY <2>2, <3>1, <3>2
  <2> QED BY <2>1, <2>2
<1>3. ASSUME NEW u \in Users, NEW j \in 1..Len(queue[u])
      PROVE  \/ queue[u][j] = w
             \/ \E i \in 1..Len(queue'[u]) : queue'[u][i] = queue[u][j]
  <2>1. CASE u = fsUser
    BY <1>1, <2>1
  <2>2. CASE u # fsUser
    BY <1>1, <2>2
  <2> QED BY <2>1, <2>2
<1>4. \A x : Queued(x)' => Queued(x) /\ x # w.id
  <2> SUFFICES ASSUME NEW x, Queued(x)' PROVE Queued(x) /\ x # w.id
    OBVIOUS
  <2>1. PICK u \in Users : \E i \in 1..Len(queue'[u]) : queue'[u][i].id = x
    BY DEF Queued
  <2>2. PICK i \in 1..Len(queue'[u]) : queue'[u][i].id = x
    BY <2>1
  <2>3. PICK j \in 1..Len(queue[u]) : queue'[u][i] = queue[u][j] /\ queue[u][j].id # w.id
    BY <1>2
  <2> QED BY <2>2, <2>3 DEF Queued
<1>5. \A x : Queued(x) => Queued(x)' \/ x = w.id
  <2> SUFFICES ASSUME NEW x, Queued(x), x # w.id PROVE Queued(x)'
    OBVIOUS
  <2>1. PICK u \in Users : \E j \in 1..Len(queue[u]) : queue[u][j].id = x
    BY DEF Queued
  <2>2. PICK j \in 1..Len(queue[u]) : queue[u][j].id = x
    BY <2>1
  <2>3. PICK i \in 1..Len(queue'[u]) : queue'[u][i] = queue[u][j]
    BY <1>3, <2>2
  <2> QED BY <2>2, <2>3 DEF Queued
<1>6. Queued(w.id)
  BY <1>0, <1>1 DEF Queued
<1>7. QueuedOnce'
  <2> SUFFICES ASSUME NEW u \in Users, NEW t \in Users,
                      NEW i \in 1..Len(queue'[u]), NEW j \in 1..Len(queue'[t]),
                      queue'[u][i].id = queue'[t][j].id
               PROVE  u = t /\ i = j
    BY DEF QueuedOnce
  <2>1. PICK k \in 1..Len(queue[u]) :
          queue'[u][i] = queue[u][k] /\ k = IF u = fsUser THEN i + 1 ELSE i
    BY <1>2
  <2>2. PICK l \in 1..Len(queue[t]) :
          queue'[t][j] = queue[t][l] /\ l = IF t = fsUser THEN j + 1 ELSE j
    BY <1>2
  <2>3. u = t /\ k = l
    BY <1>0, <2>1, <2>2 DEF QueuedOnce
  <2> QED BY <2>1, <2>2, <2>3
<1> QED BY <1>2, <1>3, <1>4, <1>5, <1>6, <1>7 DEF w

(* What an answer leaves alone.                                              *)
LEMMA AnswerKeeps ==
  ASSUME Inv, DataInv, HandleAnswer
  PROVE  /\ Latest' = Latest /\ fsUser' = fsUser /\ history' = history
         /\ \A v, f, x : Has(v, f, x)' <=> Has(v, f, x)
         /\ \A f, x, y : Newer(f, x, y)' <=> Newer(f, x, y)
         /\ HistoryGrows' /\ FieldsAreKnown'
<1>1. Latest' = Latest /\ fsUser' = fsUser /\ history' = history
  BY DEF HandleAnswer, Latest
<1>2. \A v, f, x : Has(v, f, x)' <=> Has(v, f, x)
  BY <1>1 DEF Has
<1>3. \A f, x, y : Newer(f, x, y)' <=> Newer(f, x, y)
  BY <1>1 DEF Newer, Has
<1>4. HistoryGrows'
  BY <1>1 DEF DataInv, HistoryGrows
<1>5. FieldsAreKnown'
  <2> SUFFICES ASSUME NEW u \in Users, NEW i \in 1..Len(queue'[u]), NEW v \in 1..Latest,
                      NEW f \in Fields, history[v] # Missing,
                      history[v][f] = queue'[u][i].id
               PROVE  f \in queue'[u][i].fields
    BY <1>1 DEF FieldsAreKnown, Has
  <2>1. PICK j \in 1..Len(queue[u]) : queue'[u][i] = queue[u][j]
    BY AnsweredOnce
  <2> QED BY <2>1 DEF DataInv, FieldsAreKnown, Has
<1> QED BY <1>1, <1>2, <1>3, <1>4, <1>5

(* The write is refused.                                                     *)
LEMMA RefusedData ==
  ASSUME Inv, DataInv, HandleAnswer, Head(answers) = 0
  PROVE  DataInv' /\ FitsStay
<1> DEFINE w == Head(queue[fsUser])
<1>1. answers' = <<>> /\ refused' = refused \cup {w.id} /\ cache' = cache
  BY DEF HandleAnswer
<1> HIDE DEF w
<1>2. \A f : Base(f)' = Base(f)
  BY <1>1 DEF Base
<1>3. CacheVersion' = CacheVersion
  BY <1>1 DEF CacheVersion
<1>4. /\ \A x : Queued(x)' => Queued(x) /\ x # w.id
      /\ \A x : Queued(x) => Queued(x)' \/ x = w.id
      /\ \A u \in Users : \A j \in 1..Len(queue[u]) :
           \/ queue[u][j] = w
           \/ \E i \in 1..Len(queue'[u]) : queue'[u][i] = queue[u][j]
      /\ QueuedOnce'
  BY AnsweredOnce DEF w
<1>5. CacheOccurs'
  BY <1>2, <1>3, AnswerKeeps DEF DataInv, CacheOccurs, Has
<1>6. AnswersAhead' /\ AnswersLand'
  BY <1>1, EmptySeq DEF AnswersAhead, AnswersLand
<1>7. Settled'
  <2> SUFFICES ASSUME NEW x \in WriteIds, ~Queued(x)', x \notin refused', NEW f \in Fields,
                      NEW p \in 1..Latest, NEW t \in 1..Latest, NEW r \in 1..Latest,
                      p <= t, t <= r, CacheVersion <= t, Has(p, f, x), Has(r, f, x)
               PROVE  Has(t, f, x)
    BY <1>3, AnswerKeeps DEF Settled
  <2>1. ~Queued(x) /\ x \notin refused
    BY <1>1, <1>4
  <2> QED BY <2>1 DEF DataInv, Settled
<1>8. FitsStay
  <2> SUFFICES ASSUME NEW f \in Fields, NEW x \in WriteIds \cup {Absent}, Fits(f, x)
               PROVE  Fits(f, x)'
    BY DEF FitsStay
  <2>1. CASE x = Absent \/ x \in refused'
    BY <2>1 DEF Fits
  <2>2. CASE OnItsWay(f, x) /\ x \notin refused'
    <3>1. PICK u \in Users : \E j \in 1..Len(queue[u]) :
                               queue[u][j].id = x /\ f \in queue[u][j].fields
      BY <2>2 DEF OnItsWay
    <3>2. PICK j \in 1..Len(queue[u]) : queue[u][j].id = x /\ f \in queue[u][j].fields
      BY <3>1
    <3>3. queue[u][j] # w
      BY <1>1, <2>2, <3>2
    <3>4. PICK i \in 1..Len(queue'[u]) : queue'[u][i] = queue[u][j]
      BY <1>4, <3>3
    <3>5. OnItsWay(f, x)'
      BY <3>2, <3>4 DEF OnItsWay
    <3> QED BY <3>5 DEF Fits
  <2>3. CASE Cleared(f, x)
    <3>1. ~Queued(x)'
      BY <1>4, <2>3 DEF Cleared
    <3>2. Newer(f, x, Base(f))'
      BY <1>1, <2>3, AnswerKeeps DEF Cleared, Newer, Has, Base
    <3>3. Cleared(f, x)'
      BY <1>2, <1>3, <2>3, <3>1, <3>2, AnswerKeeps DEF Cleared
    <3> QED BY <3>3 DEF Fits
  <2>4. x \in refused => x \in refused'
    BY <1>1
  <2> QED BY <2>1, <2>2, <2>3, <2>4 DEF Fits
<1> QED BY <1>4, <1>5, <1>6, <1>7, <1>8, AnswerKeeps DEF DataInv

(* The cache after the answer of version a: either the write is computed on  *)
(* top, or watch brought that version before, or a later one.                *)
LEMMA AckCache ==
  ASSUME Inv, DataInv, HandleAnswer, Head(answers) # 0
  PROVE  /\ Head(answers) \in 1..Latest
         /\ refused' = refused
         /\ CacheVersion <= CacheVersion' /\ Head(answers) <= CacheVersion'
         /\ CacheVersion' \in Nat
         /\ \/ /\ cache' # Unknown /\ cache'.version = Head(answers)
               /\ CacheVersion' = Head(answers)
               /\ \A f \in Fields :
                    Base(f)' = IF f \in Head(queue[fsUser]).fields
                               THEN Head(queue[fsUser]).id ELSE Base(f)
            \/ /\ cache' = cache /\ CacheVersion' = CacheVersion
               /\ cache # Unknown /\ ~cache.committed
               /\ CacheVersion \in 1..Latest
               /\ cache.doc = history[CacheVersion]
               /\ \A f : Base(f)' = Base(f)
<1> DEFINE w == Head(queue[fsUser])
           a == Head(answers)
           base == IF cache = Unknown THEN Missing ELSE cache.doc
           made == [doc |-> Overlay(base, w), version |-> a, committed |-> TRUE]
<1>1. refused' = refused /\ cache' = Acknowledged(cache, w, a)
  BY DEF HandleAnswer
<1>2. w \in Write /\ a = answers[1] /\ 1 \in 1..Len(answers)
  BY AnswerShifts
<1>3. a \in 1..Latest
  BY <1>2, DataTypes
<1>4. cache' = IF Behind(cache, a) THEN made ELSE cache
  BY <1>1 DEF Acknowledged
<1>5. base \in MaybeDocument
  BY DataTypes DEF MaybeDocument
<1>6. \A f : Base(f) = IF base = Missing THEN Absent ELSE base[f]
  BY DEF Base
<1> HIDE DEF w, a, base
<1>7. CacheVersion \in Nat /\ Latest \in Nat
      /\ (cache # Unknown => CacheVersion = cache.version /\ CacheVersion \in 1..Latest
                             /\ cache \in Cached)
  BY DataTypes
<1>8. CASE Behind(cache, a)
  <2>1. /\ Overlay(base, w) # Missing /\ Overlay(base, w) \in MaybeDocument
        /\ \A f \in Fields : Overlay(base, w)[f] =
             IF f \in w.fields THEN w.id ELSE Base(f)
    BY <1>2, <1>5, <1>6, OverlayFields, OverlayType
  <2>2. cache' = made
    BY <1>4, <1>8
  <2>3. made \in Cached
    <3>1. a \in Versions
      BY <1>3, DataTypes DEF Versions
    <3> QED BY <2>1, <3>1 DEF Cached
  <2>4. made.doc = Overlay(base, w) /\ made.version = a
    OBVIOUS
  <2> HIDE DEF made
  <2>5. cache' # Unknown /\ cache'.doc = Overlay(base, w) /\ cache'.version = a
    BY <2>2, <2>3, <2>4, ListenerAssumption
  <2>6. CacheVersion' = a
    BY <2>5 DEF CacheVersion
  <2>7. \A f \in Fields : Base(f)' = IF f \in w.fields THEN w.id ELSE Base(f)
    <3> SUFFICES ASSUME NEW f \in Fields
                 PROVE  Base(f)' = IF f \in w.fields THEN w.id ELSE Base(f)
      OBVIOUS
    <3>1. Base(f)' = Overlay(base, w)[f]
      BY <2>1, <2>5 DEF Base
    <3> QED BY <2>1, <3>1
  <2>8. CacheVersion <= a
    <3>1. CASE cache = Unknown
      BY <1>3, <3>1 DEF CacheVersion
    <3>2. CASE cache # Unknown
      BY <1>3, <1>7, <1>8, <3>2 DEF Behind
    <3> QED BY <3>1, <3>2
  <2> QED BY <1>1, <1>3, <1>7, <2>5, <2>6, <2>7, <2>8 DEF w, a
<1>9. CASE ~Behind(cache, a)
  <2>1. cache' = cache /\ cache # Unknown /\ ~(cache.version < a)
    BY <1>4, <1>9 DEF Behind
  <2>2. ~cache.committed
    BY <1>2, <1>3, <2>1 DEF DataInv, AnswersAhead
  <2>3. cache.doc = history[CacheVersion]
    BY <1>7, <2>1, <2>2 DEF Inv, CacheIsVersion
  <2>4. CacheVersion' = CacheVersion /\ \A f : Base(f)' = Base(f)
    BY <2>1 DEF CacheVersion, Base
  <2>5. a <= CacheVersion
    BY <1>3, <1>7, <2>1
  <2> QED BY <1>1, <1>3, <1>7, <2>1, <2>2, <2>3, <2>4, <2>5 DEF w, a
<1> QED BY <1>8, <1>9

(* The write is acknowledged.                                                *)
LEMMA AckData ==
  ASSUME Inv, DataInv, HandleAnswer, Head(answers) # 0
  PROVE  DataInv' /\ FitsStay
<1> DEFINE w == Head(queue[fsUser])
           a == Head(answers)
           Made == /\ cache' # Unknown /\ cache'.version = a
                   /\ CacheVersion' = a
                   /\ \A f \in Fields : Base(f)' = IF f \in w.fields THEN w.id ELSE Base(f)
           Kept == /\ cache' = cache /\ CacheVersion' = CacheVersion
                   /\ cache # Unknown /\ ~cache.committed
                   /\ CacheVersion \in 1..Latest
                   /\ cache.doc = history[CacheVersion]
                   /\ \A f : Base(f)' = Base(f)
<1>1. /\ a \in 1..Latest /\ refused' = refused
      /\ CacheVersion <= CacheVersion' /\ a <= CacheVersion' /\ CacheVersion' \in Nat
      /\ Made \/ Kept
  BY AckCache
<1>2. /\ Latest' = Latest /\ fsUser' = fsUser /\ history' = history
      /\ \A v, f, x : Has(v, f, x)' <=> Has(v, f, x)
      /\ \A f, x, y : Newer(f, x, y)' <=> Newer(f, x, y)
      /\ HistoryGrows' /\ FieldsAreKnown'
  BY AnswerKeeps
<1>3. /\ \A x : Queued(x)' => Queued(x) /\ x # w.id
      /\ \A x : Queued(x) => Queued(x)' \/ x = w.id
      /\ \A u \in Users : \A j \in 1..Len(queue[u]) :
           \/ queue[u][j] = w
           \/ \E i \in 1..Len(queue'[u]) : queue'[u][i] = queue[u][j]
      /\ Queued(w.id) /\ QueuedOnce'
  BY AnsweredOnce
<1>4. /\ w = queue[fsUser][1] /\ a = answers[1] /\ 1 \in 1..Len(answers)
      /\ w \in Write /\ w.id \in WriteIds /\ w.id # Absent
      /\ \A i \in 1..Len(answers') :
           i + 1 \in 1..Len(answers) /\ answers'[i] = answers[i + 1]
      /\ \A i \in 1..Len(queue'[fsUser]) :
           i + 1 \in 1..Len(queue[fsUser]) /\ queue'[fsUser][i] = queue[fsUser][i + 1]
      /\ Len(answers') <= Len(queue'[fsUser])
      /\ Len(answers') \in Nat /\ Len(queue'[fsUser]) \in Nat
  <2>1. Inv'
    BY HandleAnswerInv
  <2>2. Len(answers') <= Len(queue'[fsUser'])
    BY <2>1 DEF Inv, AnswersFit
  <2>3. answers \in Seq(0..Latest) /\ Len(answers) \in Nat \ {0}
    BY AnswerShifts, DataTypes
  <2>4. answers' = Tail(answers) /\ queue'[fsUser] = Tail(queue[fsUser])
    BY DataTypes DEF HandleAnswer
  <2>5. Tail(answers) \in Seq(0..Latest)
    BY <2>3
  <2>6. Tail(queue[fsUser]) \in Seq(Write)
    <3>1. queue[fsUser] \in Seq(Write) /\ Len(queue[fsUser]) \in Nat \ {0}
      BY AnswerShifts, Typed
    <3> QED BY <3>1
  <2>7. Len(answers') \in Nat /\ Len(queue'[fsUser]) \in Nat
    BY <2>4, <2>5, <2>6, LenProperties
  <2> QED BY <1>2, <2>2, <2>7, AnswerShifts, DataTypes DEF Write
<1> HIDE DEF w, a
<1>5. \A f \in Fields :
        /\ f \in w.fields => Has(a, f, w.id)
        /\ \A p, r \in 1..Latest : a <= p /\ p <= r /\ Has(r, f, w.id) => Has(p, f, w.id)
  BY <1>1, <1>4 DEF DataInv, AnswersLand
<1>6. a \in Nat /\ CacheVersion \in Nat /\ Latest \in Nat
  BY <1>1, DataTypes
<1>7. CacheOccurs'
  <2> SUFFICES ASSUME NEW f \in Fields, Base(f)' # Absent
               PROVE  \E p \in 1..Latest : p <= CacheVersion' /\ Has(p, f, Base(f)')
    BY <1>2 DEF CacheOccurs, Has
  <2>1. CASE Base(f)' = Base(f)
    <3>1. PICK p \in 1..Latest : p <= CacheVersion /\ Has(p, f, Base(f))
      BY <2>1 DEF DataInv, CacheOccurs
    <3>2. p <= CacheVersion'
      BY <1>1, <1>6, <3>1
    <3> QED BY <2>1, <3>1, <3>2 DEF Has
  <2>2. CASE f \in w.fields /\ Base(f)' = w.id
    <3>1. Has(a, f, w.id)
      BY <1>5, <2>2
    <3> QED BY <1>1, <2>2, <3>1 DEF Has
  <2> QED BY <1>1, <2>1, <2>2
<1>8. AnswersAhead'
  <2>0. \A i, j \in 1..Len(answers) : i < j /\ answers[j] # 0 => answers[i] < answers[j]
    BY DEF DataInv, AnswersAhead
  <2>1. ASSUME NEW i \in 1..Len(answers'), NEW j \in 1..Len(answers'), i < j, answers'[j] # 0
        PROVE  answers'[i] < answers'[j]
    <3>1. /\ i + 1 \in 1..Len(answers) /\ answers'[i] = answers[i + 1]
          /\ j + 1 \in 1..Len(answers) /\ answers'[j] = answers[j + 1]
      BY <1>4
    <3>2. i + 1 < j + 1
      BY <1>4, <2>1
    <3> QED BY <2>0, <2>1, <3>1, <3>2
  <2>2. ASSUME cache' # Unknown, cache'.committed, NEW i \in 1..Len(answers'), answers'[i] # 0
        PROVE  cache'.version < answers'[i]
    <3>1. cache'.version = a
      BY <1>1, <2>2
    <3>2. i + 1 \in 1..Len(answers) /\ answers'[i] = answers[i + 1] /\ 1 < i + 1
      BY <1>4
    <3> QED BY <1>4, <2>0, <2>2, <3>1, <3>2
  <2> QED BY <2>1, <2>2 DEF AnswersAhead
<1>9. AnswersLand'
  <2> SUFFICES ASSUME NEW i \in 1..Len(answers'), answers'[i] # 0, NEW f \in Fields
               PROVE  /\ f \in queue'[fsUser][i].fields
                           => Has(answers[i + 1], f, queue[fsUser][i + 1].id)
                      /\ \A p, r \in 1..Latest :
                           answers[i + 1] <= p /\ p <= r /\ Has(r, f, queue[fsUser][i + 1].id)
                             => Has(p, f, queue[fsUser][i + 1].id)
    <3>1. \A i \in 1..Len(answers') : i \in 1..Len(queue'[fsUser])
      BY <1>4
    <3>2. \A i \in 1..Len(answers') :
            answers'[i] = answers[i + 1] /\ queue'[fsUser][i] = queue[fsUser][i + 1]
      BY <1>4, <3>1
    <3> QED BY <1>2, <3>2 DEF AnswersLand, Has
  <2>1. i \in 1..Len(queue'[fsUser])
    BY <1>4
  <2>2. /\ i + 1 \in 1..Len(answers) /\ answers'[i] = answers[i + 1]
        /\ queue'[fsUser][i] = queue[fsUser][i + 1]
    BY <1>4, <2>1
  <2> QED BY <2>2 DEF DataInv, AnswersLand
<1>10. Settled'
  <2> SUFFICES ASSUME NEW x \in WriteIds, ~Queued(x)', x \notin refused, NEW f \in Fields,
                      NEW p \in 1..Latest, NEW t \in 1..Latest, NEW r \in 1..Latest,
                      p <= t, t <= r, CacheVersion' <= t, Has(p, f, x), Has(r, f, x)
               PROVE  Has(t, f, x)
    BY <1>1, <1>2 DEF Settled
  <2>1. CASE x = w.id
    <3>1. a <= t
      BY <1>1, <1>6
    <3> QED BY <1>5, <2>1, <3>1
  <2>2. CASE x # w.id
    <3>1. ~Queued(x) /\ CacheVersion <= t
      BY <1>1, <1>3, <1>6, <2>2
    <3> QED BY <3>1 DEF DataInv, Settled
  <2> QED BY <2>1, <2>2
<1>11. ASSUME NEW f \in Fields, f \in w.fields, NEW x \in WriteIds, x = w.id
       PROVE  Cleared(f, x)'
  <2>1. ~Queued(x)' /\ Has(a, f, x) /\ a <= CacheVersion'
    BY <1>1, <1>3, <1>5, <1>11
  <2>2. CASE Made
    <3>1. Base(f)' = x
      BY <1>11, <2>2
    <3>2. Newer(f, x, x)
      BY <1>6 DEF Newer
    <3> QED BY <1>1, <1>2, <1>4, <2>1, <3>1, <3>2, <1>11 DEF Cleared, Newer, Has
  <2>3. CASE Kept
    <3> DEFINE c == CacheVersion
    <3>1. c \in 1..Latest /\ a <= c /\ Base(f)' = Base(f) /\ cache.doc = history[c]
      BY <1>1, <2>3
    <3> HIDE DEF c
    <3>2. history[c] # Missing /\ history[c][f] # Absent
      <4>1. CASE a = c
        BY <1>4, <1>11, <2>1, <4>1 DEF Has
      <4>2. CASE a # c
        <5>1. a < c
          BY <1>1, <1>6, <3>1, <4>2
        <5> QED BY <1>1, <1>4, <1>11, <2>1, <3>1, <5>1 DEF DataInv, HistoryGrows, Has
      <4> QED BY <4>1, <4>2
    <3>3. Base(f) = history[c][f] /\ Base(f) # Absent /\ Has(c, f, Base(f))
      BY <2>3, <3>1, <3>2 DEF Base, Has
    <3>4. Newer(f, x, Base(f))
      <4> SUFFICES ASSUME NEW v \in 1..Latest, Has(v, f, x)
                   PROVE  \E t \in 1..Latest : v <= t /\ Has(t, f, Base(f))
        BY DEF Newer
      <4>1. CASE v <= c
        BY <3>1, <3>3, <4>1
      <4>2. CASE c <= v
        <5>1. Has(c, f, x)
          BY <1>5, <1>11, <3>1, <4>2
        <5>2. Base(f) = x
          BY <3>3, <5>1 DEF Has
        <5> QED BY <1>6, <5>2
      <4> QED BY <1>6, <3>1, <4>1, <4>2
    <3> QED BY <1>1, <1>2, <2>1, <3>1, <3>3, <3>4 DEF Cleared, Newer, Has
  <2> QED BY <1>1, <2>2, <2>3
<1>12. ASSUME NEW f \in Fields, NEW x \in WriteIds, Cleared(f, x), x \notin refused
       PROVE  Cleared(f, x)'
  <2>0. ~Queued(x) /\ Base(f) # Absent /\ Newer(f, x, Base(f)) /\ x # w.id
    BY <1>3, <1>12 DEF Cleared
  <2>1. PICK p \in 1..Latest : p <= CacheVersion /\ Has(p, f, x)
    BY <1>12 DEF Cleared
  <2>2. ~Queued(x)' /\ p <= CacheVersion'
    BY <1>1, <1>3, <1>6, <2>0, <2>1
  <2>3. CASE Base(f)' = Base(f)
    BY <1>2, <2>0, <2>1, <2>2, <2>3 DEF Cleared, Newer, Has
  <2>4. CASE Made /\ f \in w.fields
    <3>1. Base(f)' = w.id /\ CacheVersion' = a /\ Has(a, f, w.id)
      BY <1>5, <2>4
    <3>2. Newer(f, x, w.id)
      <4> SUFFICES ASSUME NEW v \in 1..Latest, Has(v, f, x), ~(v <= a) PROVE FALSE
        BY <1>1, <3>1 DEF Newer
      <4>1. p <= a /\ a <= v /\ CacheVersion <= a
        BY <1>1, <1>6, <2>2, <3>1
      <4>2. Has(a, f, x)
        BY <1>1, <1>12, <2>0, <2>1, <4>1 DEF DataInv, Settled
      <4> QED BY <2>0, <3>1, <4>2 DEF Has
    <3> QED BY <1>2, <1>4, <2>1, <2>2, <3>1, <3>2 DEF Cleared, Newer, Has
  <2> QED BY <1>1, <2>3, <2>4
<1>13. FitsStay
  <2> SUFFICES ASSUME NEW f \in Fields, NEW x \in WriteIds \cup {Absent}, Fits(f, x),
                      x # Absent, x \notin refused
               PROVE  Fits(f, x)'
    BY <1>1 DEF FitsStay, Fits
  <2>1. CASE OnItsWay(f, x)
    <3>1. PICK u \in Users : \E j \in 1..Len(queue[u]) :
                               queue[u][j].id = x /\ f \in queue[u][j].fields
      BY <2>1 DEF OnItsWay
    <3>2. PICK j \in 1..Len(queue[u]) : queue[u][j].id = x /\ f \in queue[u][j].fields
      BY <3>1
    <3>3. CASE queue[u][j] = w
      BY <1>4, <1>11, <3>2, <3>3 DEF Fits
    <3>4. CASE \E i \in 1..Len(queue'[u]) : queue'[u][i] = queue[u][j]
      <4>1. OnItsWay(f, x)'
        BY <3>2, <3>4 DEF OnItsWay
      <4> QED BY <4>1 DEF Fits
    <3> QED BY <1>3, <3>3, <3>4
  <2>2. CASE Cleared(f, x)
    BY <1>12, <2>2 DEF Fits
  <2> QED BY <2>1, <2>2 DEF Fits
<1> QED BY <1>2, <1>3, <1>7, <1>8, <1>9, <1>10, <1>13 DEF DataInv

(* Watch brings a version, or a deletion.                                    *)
LEMMA SnapshotData ==
  ASSUME Inv, DataInv, NEW v \in 1..Latest, NEW current \in BOOLEAN, WatchSnapshot(v, current)
  PROVE  DataInv' /\ FitsStay
<1>1. /\ UNCHANGED <<history, queue, fsUser, refused, answers>>
      /\ \/ cache' = cache
         \/ /\ Accepts(cache, v)
            /\ \E d \in {history[v], Missing} :
                 cache' = [doc |-> d, version |-> v, committed |-> FALSE]
  BY DEF WatchSnapshot
<1>2. CASE cache' = cache
  BY <1>1, <1>2, QuietData
<1>3. CASE cache' # cache
  <2>1. PICK d \in {history[v], Missing} :
          cache' = [doc |-> d, version |-> v, committed |-> FALSE]
    BY <1>1, <1>3
  <2>2. /\ Latest \in Nat /\ history[v] \in MaybeDocument /\ v \in Nat
        /\ CacheVersion \in Nat
        /\ cache # Unknown => CacheVersion = cache.version
        /\ \A f \in Fields : history[v] # Missing => history[v][f] \in WriteIds \cup {Absent}
        /\ Absent \notin WriteIds
    BY DataTypes
  <2>3. Inv'
    BY SnapshotInv
  <2>4. /\ cache' # Unknown /\ cache'.version = v /\ cache'.doc = d /\ ~cache'.committed
    <3>1. d \in MaybeDocument
      BY <2>1, <2>2 DEF MaybeDocument
    <3>2. v \in Versions
      BY <2>2, DataTypes DEF Versions
    <3>3. cache' \in Cached
      BY <2>1, <3>1, <3>2 DEF Cached
    <3> QED BY <2>1, <3>3, ListenerAssumption
  <2>5. cache'.doc = history[v]
    BY <1>1, <2>3, <2>4 DEF Inv, CacheIsVersion
  <2>6. CacheVersion' = v
    BY <2>4 DEF CacheVersion
  <2>7. \A f : Base(f)' = IF history[v] = Missing THEN Absent ELSE history[v][f]
    BY <2>4, <2>5 DEF Base
  <2>8. CacheVersion <= v
    <3>1. CASE cache = Unknown
      BY <2>2, <3>1 DEF CacheVersion
    <3>2. CASE cache # Unknown
      BY <1>1, <1>3, <2>2, <3>2 DEF Accepts, Behind
    <3> QED BY <3>1, <3>2
  <2>9. /\ Latest' = Latest
        /\ \A n, f, x : Has(n, f, x)' <=> Has(n, f, x)
        /\ \A x : Queued(x)' <=> Queued(x)
    BY <1>1 DEF Latest, Has, Queued
  <2>10. HistoryGrows' /\ QueuedOnce' /\ FieldsAreKnown' /\ AnswersLand'
    BY <1>1, <2>9 DEF DataInv, HistoryGrows, QueuedOnce, FieldsAreKnown, AnswersLand, Has
  <2>11. AnswersAhead'
    BY <1>1, <2>4 DEF DataInv, AnswersAhead
  <2>12. ASSUME NEW f \in Fields, Base(f)' # Absent
         PROVE  history[v] # Missing /\ history[v][f] = Base(f)'
    BY <2>7, <2>12
  <2>13. CacheOccurs'
    <3> SUFFICES ASSUME NEW f \in Fields, Base(f)' # Absent
                 PROVE  \E p \in 1..Latest : p <= v /\ history[p] # Missing
                                               /\ history[p][f] = Base(f)'
      BY <1>1, <2>6, <2>9 DEF CacheOccurs, Has
    <3> QED BY <2>2, <2>12
  <2>14. Settled'
    <3> SUFFICES ASSUME NEW x \in WriteIds, ~Queued(x), x \notin refused, NEW f \in Fields,
                        NEW p \in 1..Latest, NEW t \in 1..Latest, NEW r \in 1..Latest,
                        p <= t, t <= r, v <= t, Has(p, f, x), Has(r, f, x)
                 PROVE  Has(t, f, x)
      BY <1>1, <2>6, <2>9 DEF Settled
    <3>1. CacheVersion <= t
      BY <2>2, <2>8
    <3> QED BY <3>1 DEF DataInv, Settled
  <2>15. FitsStay
    <3> SUFFICES ASSUME NEW f \in Fields, NEW x \in WriteIds \cup {Absent}, Fits(f, x),
                        x # Absent, x \notin refused
                 PROVE  Fits(f, x)'
      BY <1>1 DEF FitsStay, Fits
    <3>1. CASE OnItsWay(f, x)
      BY <1>1, <3>1 DEF Fits, OnItsWay
    <3>2. CASE Cleared(f, x)
      <4>1. PICK p \in 1..Latest : p <= CacheVersion /\ Has(p, f, x)
        BY <3>2 DEF Cleared
      <4>2. p <= v /\ ~Queued(x) /\ x \in WriteIds
        BY <2>2, <2>8, <3>2, <4>1 DEF Cleared
      <4>3. history[v] # Missing /\ history[v][f] # Absent
        <5>1. CASE p = v
          BY <4>1, <5>1 DEF Has
        <5>2. CASE p # v
          <6>1. p < v
            BY <2>2, <4>2, <5>2
          <6> QED BY <4>1, <6>1 DEF DataInv, HistoryGrows, Has
        <5> QED BY <5>1, <5>2
      <4>4. Has(v, f, Base(f)') /\ Base(f)' # Absent
        BY <2>7, <4>3 DEF Has
      <4>5. ASSUME NEW n \in 1..Latest, Has(n, f, x)
            PROVE  \E t \in 1..Latest : n <= t /\ Has(t, f, Base(f)')
        <5>1. CASE n <= v
          BY <4>4, <5>1
        <5>2. CASE v <= n
          <6>1. Has(v, f, x)
            BY <2>8, <4>1, <4>2, <4>5, <5>2 DEF DataInv, Settled
          <6>2. Base(f)' = x
            BY <4>4, <6>1 DEF Has
          <6> QED BY <2>2, <4>5, <6>2 DEF Has
        <5> QED BY <2>2, <5>1, <5>2
      <4>6. Newer(f, x, Base(f))'
        BY <1>1, <2>9, <4>5 DEF Newer, Has
      <4>7. Cleared(f, x)'
        BY <2>6, <2>9, <4>1, <4>2, <4>4, <4>6 DEF Cleared
      <4> QED BY <4>7 DEF Fits
    <3> QED BY <3>1, <3>2 DEF Fits
  <2> QED BY <2>10, <2>11, <2>13, <2>14, <2>15 DEF DataInv
<1> QED BY <1>2, <1>3

(* Every step.                                                               *)
LEMMA NextData ==
  ASSUME Inv, DataInv, [Next]_vars
  PROVE  DataInv' /\ FitsStay
<1>1. ASSUME NEW m \in ViewModels, AddListener(m) PROVE DataInv' /\ FitsStay
  <2>1. UNCHANGED <<history, queue, cache, refused, answers, fsUser>>
    BY <1>1 DEF AddListener, localStore
  <2> QED BY <2>1, QuietData
<1>2. ASSUME NEW w \in Write, SetData(w) PROVE DataInv' /\ FitsStay
  BY <1>2, SetDataData
<1>3. ASSUME NEW w \in Write, OtherCommits(w) PROVE DataInv' /\ FitsStay
  <2>1. /\ history' = Append(history, Overlay(history[Latest], w))
        /\ UNCHANGED <<queue, cache, fsUser, refused>>
        /\ answers' = answers /\ Unused(w.id)
    BY <1>3 DEF OtherCommits, localStore
  <2> QED BY <2>1, CommitData
<1>4. CASE ServerCommits
  <2>1. /\ history' = Append(history, Overlay(history[Latest], Sent))
        /\ UNCHANGED <<queue, cache, fsUser, refused>>
        /\ answers' = Append(answers, Latest + 1) /\ Sendable
    BY <1>4 DEF ServerCommits, localStore
  <2>2. Sent \in Write
    <3>1. /\ answers \in Seq(0..Latest) /\ queue[fsUser] \in Seq(Write)
          /\ Len(answers) \in Nat /\ Len(queue[fsUser]) \in Nat
      BY Typed, LenProperties
    <3>2. Len(answers) + 1 \in 1..Len(queue[fsUser])
      BY <2>1, <3>1 DEF Sendable
    <3> QED BY <3>1, <3>2, ElementOfSeq DEF Sent
  <2> QED BY <2>1, <2>2, CommitData
<1>5. CASE ServerRefuses \/ WriteStreamBreaks
  <2>1. /\ UNCHANGED <<history, queue, cache, refused, fsUser>>
        /\ answers' = <<>> \/ answers' = Append(answers, 0)
    BY <1>5 DEF ServerRefuses, WriteStreamBreaks, localStore
  <2> QED BY <2>1, QuietData
<1>6. CASE HandleAnswer
  BY <1>6, RefusedData, AckData
<1>7. CASE Watch
  <2>1. ASSUME NEW v \in 1..Latest, NEW current \in BOOLEAN, WatchSnapshot(v, current)
        PROVE  DataInv' /\ FitsStay
    BY <2>1, SnapshotData
  <2>2. CASE WatchStreamBreaks \/ OnlineTimeout \/ ListenRefused
    <3>1. UNCHANGED <<history, queue, cache, refused, answers, fsUser>>
      BY <2>2 DEF WatchStreamBreaks, OnlineTimeout, ListenRefused, localStore
    <3> QED BY <3>1, QuietData
  <2> QED BY <1>7, <2>1, <2>2 DEF Watch
<1>8. ASSUME NEW u \in Users, ChangeUser(u) \/ Relaunch(u) PROVE DataInv' /\ FitsStay
  <2>1. UNCHANGED <<history, queue, cache, refused>> /\ answers' = <<>>
    BY <1>8 DEF ChangeUser, Relaunch, localStore
  <2> QED BY <2>1, QuietData
<1>9. CASE UNCHANGED vars
  <2>1. UNCHANGED <<history, queue, cache, refused, answers, fsUser>>
    BY <1>9 DEF vars, localStore
  <2> QED BY <2>1, QuietData
<1> QED
  BY <1>1, <1>2, <1>3, <1>4, <1>5, <1>6, <1>7, <1>8, <1>9 DEF Next

-----------------------------------------------------------------------------
(* What was shown last is what the view shows, while there is a document; a  *)
(* view has listeners, who only wait for a document.                         *)
Listens(m) == phase[m] \in {"waiting", "raised"}

SeenInv ==
  /\ view # Unknown =>
       /\ \E m \in ViewModels : Listens(m)
       /\ view.doc # Missing => seen = view.doc /\ \A m \in ViewModels : phase[m] # "waiting"
  /\ view = Unknown => \A m \in ViewModels : ~Listens(m)

LEMMA HearSeen ==
  ASSUME SeenInv, HeardTypes, view \in View, NEW new \in View, view' = new,
         NEW hears \in SUBSET ViewModels, Hear(new, hears),
         \A m \in hears : Listens(m),
         new.doc # view.doc => \A m \in ViewModels :
           /\ phase[m] = "raised" => m \in hears
           /\ phase[m] = "waiting" /\ new.doc # Missing => m \in hears
  PROVE  /\ SeenInv'
         /\ seen' \in {Missing, seen, new.doc}
         /\ new.doc = view.doc => seen' \in {Missing, seen}
<1>1. view # Unknown /\ new # Unknown
  BY ListenerAssumption
<1>2. /\ phase' = [m \in ViewModels |-> IF m \in hears THEN "raised" ELSE phase[m]]
      /\ seen' = IF hears # {} THEN new.doc ELSE seen
  BY DEF Hear
<1>3. PICK m \in ViewModels : Listens(m)
  BY <1>1 DEF SeenInv
<1>4. Listens(m)'
  BY <1>2, <1>3 DEF Listens
<1>5. seen' \in {Missing, seen, new.doc}
  BY <1>2
<1>6. CASE new.doc = view.doc
  <2>1. view.doc # Missing => seen = view.doc /\ \A n \in ViewModels : phase[n] # "waiting"
    BY <1>1 DEF SeenInv
  <2>2. seen' \in {Missing, seen}
    BY <1>2, <1>6, <2>1
  <2>3. new.doc # Missing => seen' = new.doc /\ \A n \in ViewModels : phase'[n] # "waiting"
    BY <1>2, <1>6, <2>1
  <2> QED BY <1>1, <1>4, <1>5, <2>2, <2>3 DEF SeenInv
<1>7. CASE new.doc # view.doc
  <2>1. ASSUME new.doc # Missing
        PROVE  seen' = new.doc /\ \A n \in ViewModels : phase'[n] # "waiting"
    <3>1. m \in hears
      BY <1>3, <1>7, <2>1 DEF Listens
    <3>2. \A n \in ViewModels : phase'[n] # "waiting"
      BY <1>2, <1>7, <2>1
    <3> QED BY <1>2, <3>1, <3>2
  <2> QED BY <1>1, <1>4, <1>5, <1>7, <2>1 DEF SeenInv
<1> QED BY <1>6, <1>7

LEMMA EmitSeen ==
  ASSUME SeenInv, HeardTypes, view \in View,
         NEW new \in View, NEW change, NEW o, Emit(new, change, o),
         change # "data" => new.doc = view.doc
  PROVE  /\ SeenInv'
         /\ seen' \in {Missing, seen, new.doc}
         /\ new.doc = view.doc => seen' \in {Missing, seen}
<1> DEFINE snapshot == change # "none" \/ new.fromCache # view.fromCache
           hears == {m \in ViewModels :
                       /\ snapshot
                       /\ \/ phase[m] = "waiting" /\ FirstEvent(new, o)
                          \/ phase[m] = "raised" /\ change = "data"}
<1>1. view' = new /\ Hear(new, hears)
  BY DEF Emit
<1>2. hears \in SUBSET ViewModels /\ \A m \in hears : Listens(m)
  BY DEF Listens
<1>3. new.doc # view.doc => \A m \in ViewModels :
        /\ phase[m] = "raised" => m \in hears
        /\ phase[m] = "waiting" /\ new.doc # Missing => m \in hears
  BY DEF FirstEvent
<1> HIDE DEF hears
<1> QED BY <1>1, <1>2, <1>3, HearSeen

(* The view shows the document it had or the new one.                        *)
LEMMA ChangedDoc ==
  ASSUME NEW v \in View, NEW new, new.doc \in MaybeDocument,
         new.state \in {"none", "mutated", "committed", "synced"},
         NEW synced \in BOOLEAN, NEW current \in BOOLEAN
  PROVE  Changed(v, new, synced, current).doc \in {v.doc, new.doc}
<1> DEFINE shown == IF Change(v, new) = "none" THEN v
                    ELSE [v EXCEPT !.doc = new.doc, !.state = new.state,
                                   !.mutated = new.state = "mutated"]
           told == [shown EXCEPT !.synced = synced, !.current = current]
           fromCache == ~(current /\ ~InLimbo(told))
<1>1. Changed(v, new, synced, current) = [told EXCEPT !.fromCache = fromCache]
  BY DEF Changed
<1>2. shown \in View /\ shown.doc \in {v.doc, new.doc}
  BY DEF View
<1> HIDE DEF shown
<1>3. told \in View /\ told.doc = shown.doc
  BY <1>2 DEF View
<1> HIDE DEF told, fromCache
<1>4. [told EXCEPT !.fromCache = fromCache].doc = told.doc
  BY <1>3 DEF View
<1> QED BY <1>1, <1>2, <1>3, <1>4

LEMMA EmitLocalSeen ==
  ASSUME SeenInv, HeardTypes, view \in View \cup {Unknown}, EmitLocal,
         cache' \in Cached \cup {Unknown}, queue'[fsUser'] \in Seq(Write)
  PROVE  SeenInv' /\ seen' \in {Missing, seen, LocalNow'}
<1>1. CASE view = Unknown
  <2>1. UNCHANGED <<view, phase, seen>>
    BY <1>1 DEF EmitLocal, heard
  <2> QED BY <2>1 DEF SeenInv, Listens
<1>2. CASE view # Unknown
  <2> DEFINE new == Local(cache', queue'[fsUser'])
             told == Changed(view, new, view.synced, view.current)
  <2>1. view \in View /\ view.synced \in BOOLEAN /\ view.current \in BOOLEAN
    BY <1>2 DEF View
  <2>2. new \in LocalDocument
    BY LocalType
  <2>3. new.doc \in MaybeDocument /\ new.state \in {"none", "mutated", "committed", "synced"}
    BY <2>2 DEF LocalDocument
  <2>4. Emit(told, Change(view, new), online)
    BY <1>2 DEF EmitLocal
  <2>5. new.doc = LocalNow'
    BY DEF LocalNow
  <2> HIDE DEF new
  <2>6. /\ told \in View /\ told.doc \in {view.doc, new.doc}
        /\ Change(view, new) # "data" => told.doc = view.doc
    BY <2>1, <2>3, ChangedFacts, ChangedDoc
  <2> HIDE DEF told
  <2>7. /\ SeenInv' /\ seen' \in {Missing, seen, told.doc}
        /\ told.doc = view.doc => seen' \in {Missing, seen}
    BY <2>1, <2>4, <2>6, EmitSeen
  <2> QED BY <2>5, <2>6, <2>7
<1> QED BY <1>1, <1>2

LEMMA OfflineSeen ==
  ASSUME Inv, SeenInv, GoOffline
  PROVE  SeenInv' /\ seen' \in {Missing, seen}
<1>1. CASE view = Unknown
  <2>1. UNCHANGED <<view, phase, seen>>
    BY <1>1 DEF GoOffline, heard
  <2> QED BY <2>1 DEF SeenInv, Listens
<1>2. CASE view # Unknown
  <2> DEFINE new == [view EXCEPT !.current = FALSE, !.fromCache = TRUE]
             hears == {m \in ViewModels : phase[m] = "waiting"}
  <2>1. view' = new /\ Hear(new, hears)
    BY <1>2 DEF GoOffline
  <2>2. view \in View /\ HeardTypes
    BY <1>2, Typed
  <2>3. new \in View /\ new.doc = view.doc
    BY <2>2 DEF View
  <2>4. hears \in SUBSET ViewModels /\ \A m \in hears : Listens(m)
    BY DEF Listens
  <2> HIDE DEF new, hears
  <2> QED BY <2>1, <2>2, <2>3, <2>4, HearSeen
<1> QED BY <1>1, <1>2

LEMMA AddListenerSeen ==
  ASSUME Inv, SeenInv, NEW m \in ViewModels, AddListener(m)
  PROVE  SeenInv' /\ seen' \in {Missing, seen, LocalNow'}
<1> DEFINE first == FirstEvent(view', online)
<1>1. /\ view' = IF view = Unknown THEN NewView ELSE view
      /\ phase' = [phase EXCEPT ![m] = IF first THEN "raised" ELSE "waiting"]
      /\ seen' = IF first THEN view'.doc ELSE seen
      /\ UNCHANGED <<queue, cache, fsUser>>
  BY DEF AddListener, localStore
<1>2. view'.doc # Missing => first
  BY DEF FirstEvent
<1> HIDE DEF first
<1>3. Inv' /\ phase \in [ViewModels -> {"none", "waiting", "raised", "dead"}]
  BY AddListenerInv, Typed DEF HeardTypes
<1>4. /\ phase'[m] = IF first THEN "raised" ELSE "waiting"
      /\ \A n \in ViewModels : n # m => phase'[n] = phase[n]
  BY <1>1, <1>3
<1>5. Listens(m)'
  BY <1>4 DEF Listens
<1>6. LocalNow' = LocalNow
  BY <1>1 DEF LocalNow
<1>7. CASE view = Unknown
  <2>1. view' = NewView /\ NewView.doc = LocalNow
    BY <1>1, <1>7 DEF NewView, LocalNow
  <2>2. \A n \in ViewModels : n # m => phase'[n] # "waiting"
    BY <1>4, <1>7 DEF SeenInv, Listens
  <2>3. view' # Unknown
    <3>1. NewView \in View
      BY NewViewType
    <3> QED BY <2>1, <3>1, ListenerAssumption
  <2> QED BY <1>1, <1>2, <1>4, <1>5, <1>6, <2>1, <2>2, <2>3 DEF SeenInv
<1>8. CASE view # Unknown
  <2>1. view' = view
    BY <1>1, <1>8
  <2>2. view.doc # Missing => seen = view.doc /\ \A n \in ViewModels : phase[n] # "waiting"
    BY <1>8 DEF SeenInv
  <2>3. view.doc # Missing => seen' = view.doc /\ \A n \in ViewModels : phase'[n] # "waiting"
    BY <1>1, <1>2, <1>4, <2>1, <2>2
  <2>4. seen' \in {Missing, seen}
    BY <1>1, <2>1, <2>2
  <2> QED BY <1>5, <1>8, <2>1, <2>3, <2>4 DEF SeenInv
<1> QED BY <1>7, <1>8

LEMMA SnapshotSeen ==
  ASSUME Inv, SeenInv, NEW v \in 1..Latest, NEW current \in BOOLEAN, WatchSnapshot(v, current)
  PROVE  SeenInv' /\ seen' \in {Missing, seen, LocalNow'}
<1> DEFINE brings == v > stream.has /\ history[v] # Missing
           deletes == current /\ ~brings /\ ~view.synced
           accepted == (brings \/ deletes) /\ Accepts(cache, v)
           synced == view.synced \/ brings
           new == IF accepted THEN Local(cache', queue[fsUser]) ELSE view
           change == IF accepted THEN Change(view, new) ELSE "none"
           told == Changed(view, new, synced, current)
<1>1. /\ view # Unknown
      /\ Emit(told, change, "online")
      /\ UNCHANGED <<queue, fsUser>>
  BY DEF WatchSnapshot
<1>2. view \in View /\ view.synced \in BOOLEAN /\ view.doc \in MaybeDocument
      /\ view.state \in {"none", "mutated", "committed", "synced"} /\ HeardTypes
  BY <1>1, Typed DEF View
<1>3. synced \in BOOLEAN
  BY <1>2
<1>4. Local(cache', queue[fsUser]).doc = LocalNow'
  BY <1>1 DEF LocalNow
<1> HIDE DEF accepted, synced
<1>5. new.doc \in MaybeDocument /\ new.state \in {"none", "mutated", "committed", "synced"}
  <2>1. Inv'
    BY SnapshotInv
  <2>2. cache' \in Cached \cup {Unknown}
    BY <2>1 DEF Inv, TypeOK
  <2>3. Local(cache', queue[fsUser]) \in LocalDocument
    BY <2>2, Typed, LocalType
  <2> QED BY <1>2, <2>3 DEF LocalDocument
<1>6. ~accepted => new = view
  OBVIOUS
<1>7. change # "data" => Change(view, new) # "data"
  BY <1>6, SameIsNotData
<1>8. new.doc \in {view.doc, LocalNow'}
  BY <1>4
<1> HIDE DEF new, change
<1>9. /\ told \in View /\ told.doc \in {view.doc, new.doc}
      /\ Change(view, new) # "data" => told.doc = view.doc
  BY <1>2, <1>3, <1>5, ChangedFacts, ChangedDoc
<1> HIDE DEF told
<1>10. /\ SeenInv' /\ seen' \in {Missing, seen, told.doc}
       /\ told.doc = view.doc => seen' \in {Missing, seen}
  BY <1>1, <1>2, <1>7, <1>9, EmitSeen
<1> QED BY <1>8, <1>9, <1>10

(* What is shown is what was shown before, or what the local store has now.  *)
LEMMA NextSeen ==
  ASSUME Inv, SeenInv, [Next]_vars
  PROVE  SeenInv' /\ seen' \in {Missing, seen, LocalNow'}
<1>0. ASSUME UNCHANGED <<view, phase, seen>>
      PROVE  SeenInv' /\ seen' \in {Missing, seen, LocalNow'}
  BY <1>0 DEF SeenInv, Listens
<1>1. ASSUME NEW m \in ViewModels, AddListener(m)
      PROVE  SeenInv' /\ seen' \in {Missing, seen, LocalNow'}
  BY <1>1, AddListenerSeen
<1>2. ASSUME EmitLocal, Inv'
      PROVE  SeenInv' /\ seen' \in {Missing, seen, LocalNow'}
  <2>1. cache' \in Cached \cup {Unknown} /\ queue'[fsUser'] \in Seq(Write)
    BY <1>2 DEF Inv, TypeOK
  <2> QED BY <1>2, <2>1, Typed, EmitLocalSeen
<1>3. ASSUME NEW w \in Write, SetData(w) \/ OtherCommits(w)
      PROVE  SeenInv' /\ seen' \in {Missing, seen, LocalNow'}
  <2>1. CASE SetData(w)
    BY <1>2, <2>1, SetDataInv DEF SetData
  <2>2. CASE OtherCommits(w)
    BY <1>0, <2>2 DEF OtherCommits, heard
  <2> QED BY <1>3, <2>1, <2>2
<1>4. CASE ServerCommits \/ ServerRefuses \/ WriteStreamBreaks
  BY <1>0, <1>4 DEF ServerCommits, ServerRefuses, WriteStreamBreaks, heard
<1>5. CASE HandleAnswer
  BY <1>2, <1>5, HandleAnswerInv DEF HandleAnswer
<1>6. CASE Watch
  <2>1. ASSUME NEW v \in 1..Latest, NEW current \in BOOLEAN, WatchSnapshot(v, current)
        PROVE  SeenInv' /\ seen' \in {Missing, seen, LocalNow'}
    BY <2>1, SnapshotSeen
  <2>2. CASE WatchStreamBreaks \/ OnlineTimeout
    <3>1. GoOffline \/ UNCHANGED <<view, phase, seen>>
      BY <2>2 DEF WatchStreamBreaks, OnlineTimeout, heard
    <3> QED BY <1>0, <3>1, OfflineSeen
  <2>3. CASE ListenRefused
    <3>1. /\ view' = Unknown /\ seen' = seen
          /\ phase' = [m \in ViewModels |-> IF phase[m] = "none" THEN "none" ELSE "dead"]
      BY <2>3 DEF ListenRefused
    <3> QED BY <3>1 DEF SeenInv, Listens
  <2> QED BY <1>6, <2>1, <2>2, <2>3 DEF Watch
<1>7. ASSUME NEW u \in Users, ChangeUser(u) \/ Relaunch(u)
      PROVE  SeenInv' /\ seen' \in {Missing, seen, LocalNow'}
  <2>1. CASE ChangeUser(u)
    <3>1. EmitLocal \/ UNCHANGED <<view, phase, seen>>
      BY <2>1 DEF ChangeUser, heard
    <3> QED BY <1>0, <1>2, <2>1, <3>1, ChangeUserInv
  <2>2. CASE Relaunch(u)
    <3>1. /\ view' = Unknown /\ seen' = seen
          /\ phase' = [m \in ViewModels |-> "none"]
      BY <2>2 DEF Relaunch
    <3> QED BY <3>1 DEF SeenInv, Listens
  <2> QED BY <1>7, <2>1, <2>2
<1>8. CASE UNCHANGED vars
  BY <1>0, <1>8 DEF vars, heard
<1> QED BY <1>1, <1>3, <1>4, <1>5, <1>6, <1>7, <1>8 DEF Next

-----------------------------------------------------------------------------
(* The last document that was shown has only fields that may have been.      *)
SeenFits == seen # Missing => \A f \in Fields : Fits(f, seen[f])

ShownInv == Inv /\ DataInv /\ SeenInv /\ SeenFits

LEMMA SeenTypes ==
  ASSUME Inv, seen # Missing, NEW f \in Fields
  PROVE  seen[f] \in WriteIds \cup {Absent}
BY DEF Inv, TypeOK, MaybeDocument, Contents

(* These hold in every state, so also in the next one.                       *)
LEMMA AllNowFits ==
  Inv /\ DataInv /\ LocalNow # Missing => \A f \in Fields : Fits(f, LocalNow[f])
BY NowFits

LEMMA NextNowFits ==
  (Inv /\ DataInv /\ LocalNow # Missing => \A f \in Fields : Fits(f, LocalNow[f]))'
BY AllNowFits, PTL

LEMMA AllFitsAge ==
  Inv /\ DataInv /\ LocalNow # Missing =>
    \A f \in Fields : \A x \in WriteIds \cup {Absent} :
      Fits(f, x) /\ x \notin Undone => Age(f, x) <= Age(f, LocalNow[f])
BY FitsAge

LEMMA NextFitsAge ==
  (Inv /\ DataInv /\ LocalNow # Missing =>
    \A f \in Fields : \A x \in WriteIds \cup {Absent} :
      Fits(f, x) /\ x \notin Undone => Age(f, x) <= Age(f, LocalNow[f]))'
BY AllFitsAge, PTL

LEMMA AllAges == Inv => \A f \in Fields : \A x \in WriteIds \cup {Absent} : Age(f, x) <= Age(f, x)
<1> SUFFICES ASSUME Inv, NEW f \in Fields, NEW x \in WriteIds \cup {Absent}
             PROVE  Age(f, x) <= Age(f, x)
  OBVIOUS
<1>1. Age(f, x) \in 0..(MaxVersions + 1) /\ MaxVersions \in Nat
  BY AgeIs, DataTypes
<1> QED BY <1>1

LEMMA NextAges ==
  (Inv => \A f \in Fields : \A x \in WriteIds \cup {Absent} : Age(f, x) <= Age(f, x))'
BY AllAges, PTL

LEMMA ShownStep ==
  ASSUME ShownInv, [Next]_vars
  PROVE  ShownInv'
<1>1. Inv' /\ DataInv' /\ FitsStay /\ SeenInv' /\ seen' \in {Missing, seen, LocalNow'}
  BY NextInv, NextData, NextSeen DEF ShownInv
<1>2. SeenFits'
  <2> SUFFICES ASSUME seen' # Missing, NEW f \in Fields PROVE Fits(f, seen[f])'
    BY DEF SeenFits
  <2>1. CASE seen' = seen
    <3>1. seen[f] \in WriteIds \cup {Absent} /\ Fits(f, seen[f])
      BY <2>1, SeenTypes DEF ShownInv, SeenFits
    <3>2. PICK x \in WriteIds \cup {Absent} : x = seen[f]
      BY <3>1
    <3>3. Fits(f, x)'
      BY <1>1, <3>1, <3>2 DEF FitsStay
    <3> QED BY <2>1, <3>2, <3>3 DEF Fits, OnItsWay, Cleared, Newer, Has, Queued
  <2>2. CASE seen' = LocalNow'
    BY <1>1, <2>2, NextNowFits DEF Fits, OnItsWay, Cleared, Newer, Has, Queued
  <2> QED BY <1>1, <2>1, <2>2
<1> QED BY <1>1, <1>2 DEF ShownInv

LEMMA StepForward ==
  ASSUME ShownInv, [Next]_vars, seen # Missing, seen' # Missing, NEW f \in Fields,
         NEW before \in {seen[f]} \ Undone'
  PROVE  Age(f, before)' <= Age(f, seen[f])'
<1>1. Inv' /\ DataInv' /\ FitsStay /\ seen' \in {Missing, seen, LocalNow'}
  BY NextInv, NextData, NextSeen DEF ShownInv
<1>2. before \in WriteIds \cup {Absent} /\ Fits(f, before)
  BY SeenTypes DEF ShownInv, SeenFits
<1>3. Fits(f, before)'
  BY <1>1, <1>2 DEF FitsStay
<1>4. CASE seen' = seen
  <2>1. seen'[f] = before
    BY <1>4
  <2>2. Age(f, before)' <= Age(f, before)'
    BY <1>1, <1>2, NextAges
  <2> QED BY <2>1, <2>2 DEF Age
<1>5. CASE seen' = LocalNow'
  <2>1. (Age(f, before) <= Age(f, LocalNow[f]))'
    BY <1>1, <1>2, <1>3, <1>5, NextFitsAge
  <2> QED BY <1>5, <2>1 DEF Age
<1> QED BY <1>1, <1>4, <1>5

LEMMA ShownInit == Init => ShownInv
<1> SUFFICES ASSUME Init PROVE ShownInv
  OBVIOUS
<1>1. Inv /\ DataInv
  BY InitInv, DataInit
<1>2. SeenInv /\ SeenFits
  BY DEF Init, SeenInv, SeenFits, Listens
<1> QED BY <1>1, <1>2 DEF ShownInv

(* No field that a view model was shown goes back to an older value, however *)
(* answers and watch snapshots are ordered, lost or repeated: what was shown *)
(* stays refused, on its way, or no newer than what the local store has now, *)
(* and only that is shown next.                                              *)
THEOREM ShownOnlyForward == Spec => NoGoingBack
<1>1. Init => ShownInv
  BY ShownInit
<1>2. ShownInv /\ [Next]_vars => ShownInv'
  BY ShownStep
<1>3. ShownInv /\ [Next]_vars =>
        [seen # Missing /\ seen' # Missing =>
           \A f \in Fields : \A before \in {seen[f]} \ Undone' :
             Age(f, before)' <= Age(f, seen[f])']_vars
  BY StepForward
<1> QED BY <1>1, <1>2, <1>3, PTL DEF Spec, NoGoingBack
=============================================================================
