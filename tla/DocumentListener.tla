--------------------------- MODULE DocumentListener ---------------------------
(***************************************************************************)
(* Firestore's view of one user document, and the view models listening to *)
(* it (UserViewModel.getCurrentUser).                                      *)
(*                                                                         *)
(* LocalStore keeps the last version it knows of the server's document,    *)
(* from the watch stream or from the answer to a write, and the mutation   *)
(* queue of each user.  A view shows the one overlaid with the other;      *)
(* QueryListener decides which changes of the view a listener hears.       *)
(* Watch and write stream are not ordered with each other: watch may lag   *)
(* behind an answer or bring a version before it.                          *)
(*                                                                         *)
(* A step is one operation of Firestore's worker queue.  What listeners    *)
(* hear goes to the main queue in order, and is heard at once here.  The   *)
(* second listen that resolves a document in limbo is left out: it brings  *)
(* the same document.                                                      *)
(***************************************************************************)
EXTENDS Integers, Sequences, FiniteSets, FiniteSetsExt

CONSTANTS
  Users,        \* whose mutation queues there are
  ViewModels,   \* the instances of UserViewModel
  WriteIds,     \* one for each call of setData, here or on another device
  Fields,
  Absent,       \* the field is missing
  Missing,      \* the document is missing
  Unknown,      \* nothing is cached; no view
  MaxVersions   \* bound: versions of the document on the server

(* A document tells for each field which write set it.                       *)
Contents == [Fields -> WriteIds \cup {Absent}]
MaybeDocument == Contents \cup {Missing}
Empty == [f \in Fields |-> Absent]
Write == [id : WriteIds, fields : SUBSET Fields]
Versions == 1..MaxVersions
Cached == [doc : MaybeDocument, version : Versions, committed : BOOLEAN]
View == [doc : MaybeDocument, state : {"none", "mutated", "committed", "synced"},
         mutated : BOOLEAN, synced : BOOLEAN, current : BOOLEAN, fromCache : BOOLEAN]

ASSUME ListenerAssumption ==
  /\ Absent \notin WriteIds
  /\ Missing # Unknown /\ Missing \notin Contents
  /\ Unknown \notin Cached \cup View
  /\ MaxVersions \in Nat \ {0}

VARIABLES
  history,    \* server: the versions of the document
  queue,      \* LevelDB: the mutation queue of each user
  cache,      \* LevelDB: RemoteDocumentCache
  target,     \* LevelDB: the target's resume token and keys, last snapshot
  fsUser,     \* SyncEngine.current_user_
  refused,    \* the writes whose answer was an error (history variable)
  answers,    \* answers of the write stream: commit versions, 0 if refused
  stream,     \* watch: the version this client has, and TargetState.current_
  online,     \* OnlineStateTracker.state_
  view,       \* SyncEngine's view of the query for the document
  phase,      \* QueryListener of each view model
  user,       \* UserViewModel.user
  seen        \* the last document a view model was given (history variable)

localStore == <<queue, cache, target>>
heard == <<view, phase, user, seen>>
vars == <<history, localStore, fsUser, refused, answers, stream, online, heard>>

Latest == Len(history)
Overlay(d, w) ==
  [f \in Fields |-> IF f \in w.fields THEN w.id
                    ELSE IF d = Missing THEN Absent ELSE d[f]]

(* LocalDocumentsView.ApplyLocalMutationsToDocuments: one batch after the    *)
(* other.                                                                    *)
Overlaid(base, q) ==
  LET over[i \in 0..Len(q)] == IF i = 0 THEN base ELSE Overlay(over[i - 1], q[i])
  IN  over[Len(q)]

(* LocalDocumentsView.GetDocument: the cached document under the mutations.  *)
Local(c, q) ==
  LET doc == Overlaid(IF c = Unknown THEN Missing ELSE c.doc, q)
  IN  [doc   |-> doc,
       state |-> CASE doc = Missing -> "none"
                   [] doc # Missing /\ Len(q) > 0 -> "mutated"
                   [] OTHER -> IF c.committed THEN "committed" ELSE "synced"]

-----------------------------------------------------------------------------
(* The view. *)

(* View.ShouldWaitForSyncedDocument: what an answer alone changes is not     *)
(* shown, watch will bring the document.                                     *)
ShouldWait(v, new) == v.state = "mutated" /\ new.state = "committed"

(* View.ComputeDocumentChanges, for the document as the local store sees it. *)
Change(v, new) ==
  CASE v.doc = Missing /\ new.doc = Missing -> "none"
    [] v.doc # new.doc ->
         IF Missing \notin {v.doc, new.doc} /\ ShouldWait(v, new) THEN "none" ELSE "data"
    [] OTHER ->
         LET pending == new.state = "mutated" \/ (v.mutated /\ new.state = "committed")
         IN IF v.mutated # pending THEN "metadata" ELSE "none"

(* View.ShouldBeInLimbo: a document that watch does not account for.         *)
InLimbo(v) == v.doc # Missing /\ ~v.synced /\ v.state # "mutated"

(* View.ApplyChanges, with the target change of watch: keys and current.     *)
Changed(v, new, synced, current) ==
  LET shown == IF Change(v, new) = "none" THEN v
               ELSE [v EXCEPT !.doc = new.doc, !.state = new.state,
                              !.mutated = new.state = "mutated"]
      told == [shown EXCEPT !.synced = synced, !.current = current]
  IN  [told EXCEPT !.fromCache = ~(current /\ ~InLimbo(told))]

(* QueryListener.OnViewSnapshot: a first event needs something to show, or a *)
(* reason to show nothing; later only changes of data are told.  The view    *)
(* model keeps its user when the document is missing.                        *)
FirstEvent(v, o) == ~v.fromCache \/ v.doc # Missing \/ o = "offline"
Hear(new, hears) ==
  /\ phase' = [m \in ViewModels |-> IF m \in hears THEN "raised" ELSE phase[m]]
  /\ user' = [m \in ViewModels |-> IF m \in hears /\ new.doc # Missing THEN new.doc ELSE user[m]]
  /\ seen' = IF hears # {} THEN new.doc ELSE seen

(* Mutant of Emit: a listener is not told what has pending writes.           *)
EmitServerOnly(new, change, o) ==
  LET snapshot == change # "none" \/ new.fromCache # view.fromCache
  IN  /\ view' = new
      /\ Hear(new, {m \in ViewModels :
                      /\ snapshot
                      /\ \/ phase[m] = "waiting" /\ FirstEvent(new, o)
                         \/ phase[m] = "raised" /\ change = "data" /\ ~new.mutated})

(* EventManager.OnViewSnapshots: the view becomes new, o is the online state. *)
Emit(new, change, o) ==
  LET snapshot == change # "none" \/ new.fromCache # view.fromCache
  IN  /\ view' = new
      /\ Hear(new, {m \in ViewModels :
                      /\ snapshot
                      /\ \/ phase[m] = "waiting" /\ FirstEvent(new, o)
                         \/ phase[m] = "raised" /\ change = "data"})

(* SyncEngine.EmitNewSnapshotsAndNotifyLocalStore after a local change.      *)
EmitLocal ==
  IF view = Unknown THEN UNCHANGED heard
  ELSE LET new == Local(cache', queue'[fsUser'])
       IN Emit(Changed(view, new, view.synced, view.current), Change(view, new), online)

-----------------------------------------------------------------------------
Init ==
  /\ history \in {<<Missing>>, <<Empty>>}
  /\ queue = [u \in Users |-> <<>>]
  /\ cache = Unknown
  /\ target = [token |-> 0, key |-> FALSE, last |-> 0]
  /\ fsUser \in Users
  /\ refused = {}
  /\ answers = <<>>
  /\ stream = [has |-> 0, current |-> FALSE]
  /\ online = "unknown"
  /\ view = Unknown
  /\ phase = [m \in ViewModels |-> "none"]
  /\ user = [m \in ViewModels |-> Missing]
  /\ seen = Missing

(* UserViewModel.getCurrentUser.  The first listener of the document makes   *)
(* the view and the target (SyncEngine.Listen); another one is given what    *)
(* the view shows (EventManager.AddQueryListener).                           *)
NewView ==
  LET new == Local(cache, queue[fsUser])
  IN  [doc |-> new.doc, state |-> new.state, mutated |-> new.state = "mutated",
       synced |-> target.key, current |-> FALSE, fromCache |-> TRUE]
AddListener(m) ==
  /\ phase[m] = "none"
  /\ view' = IF view = Unknown THEN NewView ELSE view
  /\ stream' = IF view = Unknown THEN [has |-> target.token, current |-> FALSE] ELSE stream
  /\ LET first == FirstEvent(view', online)
     IN /\ phase' = [phase EXCEPT ![m] = IF first THEN "raised" ELSE "waiting"]
        /\ user' = IF first /\ view'.doc # Missing THEN [user EXCEPT ![m] = view'.doc] ELSE user
        /\ seen' = IF first THEN view'.doc ELSE seen
  /\ UNCHANGED <<history, localStore, fsUser, refused, answers, online>>

(* DocumentReference.setData, LocalStore.WriteLocally.                       *)
Unused(w) ==
  /\ w \notin refused
  /\ \A u \in Users : \A i \in 1..Len(queue[u]) : queue[u][i].id # w
  /\ \A v \in 1..Latest : history[v] # Missing => \A f \in Fields : history[v][f] # w
SetData(w) ==
  /\ Unused(w.id) /\ w.fields # {}
  /\ queue' = [queue EXCEPT ![fsUser] = Append(@, w)]
  /\ UNCHANGED <<history, cache, target, fsUser, refused, answers, stream, online>>
  /\ EmitLocal

(* The server commits a write of this client, again when it was resent.      *)
Sendable == Len(answers) < Len(queue[fsUser]) /\ \A i \in 1..Len(answers) : answers[i] # 0
Sent == queue[fsUser][Len(answers) + 1]
ServerCommits ==
  /\ Sendable /\ Latest < MaxVersions
  /\ history' = Append(history, Overlay(history[Latest], Sent))
  /\ answers' = Append(answers, Latest + 1)
  /\ UNCHANGED <<localStore, fsUser, refused, stream, online, heard>>
ServerRefuses ==
  /\ Sendable
  /\ answers' = Append(answers, 0)
  /\ UNCHANGED <<history, localStore, fsUser, refused, stream, online, heard>>

(* Another device of the user changes the document.                          *)
OtherCommits(w) ==
  /\ Unused(w.id) /\ w.fields # {} /\ Latest < MaxVersions
  /\ history' = Append(history, Overlay(history[Latest], w))
  /\ UNCHANGED <<localStore, fsUser, refused, answers, stream, online, heard>>

(* The write stream breaks: answers are lost, the queue is resent.           *)
WriteStreamBreaks ==
  /\ answers # <<>>
  /\ answers' = <<>>
  /\ UNCHANGED <<history, localStore, fsUser, refused, stream, online, heard>>

Behind(c, v) == c = Unknown \/ c.version < v

(* Mutants of Acknowledged: the answer's version is off by one; the document *)
(* is taken for one that watch brought.                                      *)
AcknowledgedNext(c, w, v) ==
  IF Behind(c, v) THEN [doc |-> Overlay(IF c = Unknown THEN Missing ELSE c.doc, w),
                        version |-> v + 1, committed |-> TRUE]
                  ELSE c
AcknowledgedSynced(c, w, v) ==
  IF Behind(c, v) THEN [doc |-> Overlay(IF c = Unknown THEN Missing ELSE c.doc, w),
                        version |-> v, committed |-> FALSE]
                  ELSE c

(* LocalStore.AcknowledgeBatch: the document of the answer is computed from  *)
(* the cached one, unless watch brought that version or a later one.         *)
Acknowledged(c, w, v) ==
  IF Behind(c, v) THEN [doc |-> Overlay(IF c = Unknown THEN Missing ELSE c.doc, w),
                        version |-> v, committed |-> TRUE]
                  ELSE c
HandleAnswer ==
  /\ answers # <<>>
  /\ queue' = [queue EXCEPT ![fsUser] = Tail(@)]
  /\ IF Head(answers) = 0
       THEN /\ answers' = <<>>
            /\ refused' = refused \cup {Head(queue[fsUser]).id}
            /\ UNCHANGED cache
       ELSE /\ answers' = Tail(answers)
            /\ UNCHANGED refused
            /\ cache' = Acknowledged(cache, Head(queue[fsUser]), Head(answers))
  /\ UNCHANGED <<history, target, fsUser, stream, online>>
  /\ EmitLocal

-----------------------------------------------------------------------------
(* The watch stream. *)

(* Mutants of Accepts: any version is taken; only newer ones are.            *)
AcceptsAny(c, v) == TRUE
AcceptsNewer(c, v) == Behind(c, v)

(* LocalStore.ApplyRemoteEvent: older versions are ignored; the same version *)
(* replaces what was computed from an answer.                                *)
Accepts(c, v) == Behind(c, v) \/ (c.version = v /\ c.committed)

(* A consistent snapshot at version v: the document if this client does not  *)
(* have it, or the news that the target is current.  A current target        *)
(* without its document means that the document is missing                   *)
(* (WatchChangeAggregator.CreateRemoteEvent).                                *)
WatchSnapshot(v, current) ==
  LET brings == v > stream.has /\ history[v] # Missing
      deletes == current /\ ~brings /\ ~view.synced
      accepted == (brings \/ deletes) /\ Accepts(cache, v)
      synced == view.synced \/ brings
  IN  /\ view # Unknown
      /\ v >= stream.has /\ v >= target.last
      /\ stream.current => current
      /\ cache' = IF accepted THEN [doc |-> IF brings THEN history[v] ELSE Missing,
                                    version |-> v, committed |-> FALSE]
                              ELSE cache
      /\ \E token \in {target.token, v} :
           /\ brings \/ target.token = 0 => token = v
           /\ target' = [token |-> token, key |-> target.key \/ brings, last |-> v]
      /\ stream' = [has |-> v, current |-> current]
      /\ online' = "online"
      /\ LET new == IF accepted THEN Local(cache', queue[fsUser]) ELSE view
         IN Emit(Changed(view, new, synced, current),
                 IF accepted THEN Change(view, new) ELSE "none", "online")
      /\ UNCHANGED <<history, queue, fsUser, refused, answers>>

(* Mutant of GoOffline: the listeners that wait are not told.                *)
GoOfflineSilently ==
  /\ online' = "offline"
  /\ IF view = Unknown THEN UNCHANGED heard
     ELSE /\ view' = [view EXCEPT !.current = FALSE, !.fromCache = TRUE]
          /\ UNCHANGED <<phase, user, seen>>

(* SyncEngine.HandleOnlineStateChange: a view that was in sync is not when   *)
(* the client is offline; a listener that waits is told that nothing is      *)
(* known (QueryListener.OnOnlineStateChanged).                               *)
GoOffline ==
  /\ online' = "offline"
  /\ IF view = Unknown THEN UNCHANGED heard
     ELSE LET new == [view EXCEPT !.current = FALSE, !.fromCache = TRUE]
          IN view' = new /\ Hear(new, {m \in ViewModels : phase[m] = "waiting"})

(* OnWatchStreamClose with an error, and the stream is started again.        *)
WatchStreamBreaks ==
  /\ view # Unknown
  /\ stream' = [stream EXCEPT !.current = FALSE]
  /\ IF online = "online" THEN online' = "unknown" /\ UNCHANGED heard ELSE GoOffline
  /\ UNCHANGED <<history, localStore, fsUser, refused, answers>>

(* OnlineStateTracker's timer: no answer for ten seconds.                    *)
OnlineTimeout ==
  /\ view # Unknown /\ online = "unknown"
  /\ GoOffline
  /\ UNCHANGED <<history, localStore, fsUser, refused, answers, stream>>

(* ProcessTargetError: the server ends the listen, and every listener of the *)
(* document with it.  The view models only log it.                           *)
ListenRefused ==
  /\ view # Unknown
  /\ view' = Unknown
  /\ phase' = [m \in ViewModels |-> IF phase[m] = "none" THEN "none" ELSE "dead"]
  /\ target' = [target EXCEPT !.token = stream.has]
  /\ online' = "online"
  /\ UNCHANGED <<history, queue, cache, fsUser, refused, answers, stream, user, seen>>

(* SyncEngine.HandleCredentialChange: only documents with pending writes of  *)
(* the former or the new user change; all streams start again.               *)
ChangeUser(u) ==
  /\ fsUser' = u
  /\ answers' = <<>>
  /\ stream' = [stream EXCEPT !.current = FALSE]
  /\ online' = "unknown"
  /\ UNCHANGED <<history, localStore, refused>>
  /\ IF view = Unknown \/ u = fsUser \/ (queue[fsUser] = <<>> /\ queue[u] = <<>>)
       THEN UNCHANGED heard ELSE EmitLocal

(* The process dies and starts again: what LevelDB holds remains.            *)
Relaunch(u) ==
  /\ fsUser' = u
  /\ answers' = <<>>
  /\ stream' = [has |-> 0, current |-> FALSE]
  /\ online' = "unknown"
  /\ view' = Unknown
  /\ phase' = [m \in ViewModels |-> "none"]
  /\ user' = [m \in ViewModels |-> Missing]
  /\ UNCHANGED <<history, localStore, refused, seen>>

Watch ==
  \/ \E v \in 1..Latest, current \in BOOLEAN : WatchSnapshot(v, current)
  \/ WatchStreamBreaks
  \/ OnlineTimeout
  \/ ListenRefused

Next ==
  \/ \E m \in ViewModels : AddListener(m)
  \/ \E w \in Write : SetData(w) \/ OtherCommits(w)
  \/ ServerCommits \/ ServerRefuses \/ WriteStreamBreaks \/ HandleAnswer
  \/ Watch
  \/ \E u \in Users : ChangeUser(u) \/ Relaunch(u)

Spec == Init /\ [][Next]_vars

-----------------------------------------------------------------------------
TypeOK ==
  /\ history \in Seq(MaybeDocument) /\ Latest \in Versions
  /\ queue \in [Users -> Seq(Write)]
  /\ cache \in Cached \cup {Unknown}
  /\ target \in [token : 0..Latest, key : BOOLEAN, last : 0..Latest]
  /\ fsUser \in Users
  /\ refused \subseteq WriteIds
  /\ answers \in Seq(0..Latest)
  /\ stream \in [has : 0..Latest, current : BOOLEAN]
  /\ online \in {"unknown", "online", "offline"}
  /\ view \in View \cup {Unknown}
  /\ phase \in [ViewModels -> {"none", "waiting", "raised", "dead"}]
  /\ user \in [ViewModels -> MaybeDocument]
  /\ seen \in MaybeDocument

(* View models that hear of the same document hold the same user, whenever   *)
(* they began to listen: what the view shows, while the document exists      *)
(* (UserViewModel.shared and the CategoryView's instance).                   *)
UserFollowsView ==
  \A m \in ViewModels :
    phase[m] = "raised" => view # Unknown /\ (view.doc # Missing => user[m] = view.doc)

(* Without answers computed on top, the cache is a version of the server's   *)
(* document, whatever order answers and watch snapshots came in.             *)
CacheIsVersion == cache # Unknown /\ ~cache.committed => cache.doc = history[cache.version]

(* How new a value of field f is: the user's writes on their way are newer   *)
(* than any version.  What the server refused, or another user has on its    *)
(* way, is undone.                                                           *)
Ids(q) == {q[i].id : i \in 1..Len(q)}
Age(f, x) ==
  CASE x = Absent -> 0
    [] x \in Ids(queue[fsUser]) -> MaxVersions + 1
    [] OTHER -> Max({0} \cup {v \in 1..Latest : history[v] # Missing /\ history[v][f] = x})
Undone == refused \cup UNION {Ids(queue[u]) : u \in Users \ {fsUser}}

(* No field that a view model was shown goes back to an older value: not     *)
(* when a write is answered before watch brings it, nor when watch is behind *)
(* or repeats itself, nor over a relaunch.  Only a refused write is undone.  *)
NoGoingBack ==
  [][seen # Missing /\ seen' # Missing =>
       \A f \in Fields : \A before \in {seen[f]} \ Undone' :
         Age(f, before)' <= Age(f, seen[f])']_vars
=============================================================================
