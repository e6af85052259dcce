--------------------------- MODULE FirestoreWrites ---------------------------
(***************************************************************************)
(* The Firestore client as the app uses it: DocumentReference.setData.     *)
(*                                                                         *)
(* A write is first put in the mutation queue of the user that Firestore   *)
(* believes to be signed in.  That queue is kept in LevelDB, so it         *)
(* survives the process; the completion handler is kept in memory only.    *)
(* The write stream sends the front of the current user's queue in order,  *)
(* and resends what was not answered when it breaks.  Firestore learns of  *)
(* a new user from a notification on the main queue, later than FIRAuth,   *)
(* and then swaps the queues.                                              *)
(*                                                                         *)
(* What the main thread enqueues on Firestore's worker queue is handled in  *)
(* that order, so setData and a delivered notification take effect at once *)
(* here.                                                                   *)
(*                                                                         *)
(* This module is a component: the modules that EXTEND it add the callers. *)
(***************************************************************************)
EXTENDS Naturals, Sequences

CONSTANTS
  Users,      \* also the names of the documents users/<uid>
  NoUser,     \* nil
  WriteIds,   \* one for each call of setData
  Fields,     \* fields of a user document
  Values,     \* values of a field
  Absent      \* the field is missing

ASSUME FirestoreAssumption == NoUser \notin Users /\ Absent \notin Values

MaybeUser == Users \cup {NoUser}
Document == [Fields -> Values \cup {Absent}]
Missing == [f \in Fields |-> Absent]
Write == [id : WriteIds, doc : Users, data : Document, merge : BOOLEAN]
Callback == [id : WriteIds, ok : BOOLEAN]

VARIABLES
  docs,       \* server: the documents
  landed,     \* server: the writes it ever applied (a history variable)
  queue,      \* LevelDB: the mutation queue of each user
  fsUser,     \* SyncEngine.current_user_
  credQ,      \* FIRAuth's notifications on the main queue, with their uid
  waiting,    \* SyncEngine.mutation_callbacks_, by user
  responses,  \* answers of the write stream to the front of the queue
  callbacks   \* completions dispatched to the main queue

server == <<docs, landed>>
fsVars == <<docs, landed, queue, fsUser, credQ, waiting, responses, callbacks>>

Ids(q) == {q[i].id : i \in 1..Len(q)}

(* A merge changes the fields it names, a plain setData replaces them all.   *)
Apply(d, w) ==
  IF w.merge THEN [f \in Fields |-> IF w.data[f] = Absent THEN d[f] ELSE w.data[f]]
             ELSE w.data

FsInit(u, contents) ==
  /\ docs = contents
  /\ landed = {}
  /\ queue = [v \in MaybeUser |-> <<>>]
  /\ fsUser = u
  /\ credQ = <<>>
  /\ waiting = [v \in MaybeUser |-> {}]
  /\ responses = <<>>
  /\ callbacks = <<>>

-----------------------------------------------------------------------------
(* DocumentReference.setData: WriteLocally puts the batch in the queue of    *)
(* Firestore's user, whoever issued it, and the callback next to it.         *)
SetData(w) ==
  /\ queue' = [queue EXCEPT ![fsUser] = Append(@, w)]
  /\ waiting' = [waiting EXCEPT ![fsUser] = @ \cup {w.id}]
  /\ UNCHANGED <<server, fsUser, credQ, responses, callbacks>>

(* FIRAuth posted that u is the user now (the uid is captured here).         *)
PostCredential(u) == credQ' = Append(credQ, u)

(* The next write of the open stream that the server has not answered.       *)
Unanswered ==
  /\ Len(responses) < Len(queue[fsUser])
  /\ \A i \in 1..Len(responses) : responses[i] = "ok"
NextWrite == queue[fsUser][Len(responses) + 1]

(* The server applies the write, again if it was resent, and answers.        *)
ServerStores ==
  /\ Unanswered
  /\ docs' = [docs EXCEPT ![NextWrite.doc] = Apply(@, NextWrite)]
  /\ landed' = landed \cup {NextWrite.id}
  /\ responses' = Append(responses, "ok")
  /\ UNCHANGED <<queue, fsUser, credQ, waiting, callbacks>>

(* The server refuses the write for good and closes the stream.              *)
ServerDenies ==
  /\ Unanswered
  /\ responses' = Append(responses, "denied")
  /\ UNCHANGED <<server, queue, fsUser, credQ, waiting, callbacks>>

(* Mutant of StreamBreaks: the write is put to the back of the queue.        *)
StreamBreaksRequeued ==
  /\ responses # <<>>
  /\ responses' = <<>>
  /\ queue' = [queue EXCEPT ![fsUser] = Append(Tail(@), Head(@))]
  /\ UNCHANGED <<server, fsUser, credQ, waiting, callbacks>>

(* A transient error: answers on their way are lost, the pipeline is resent. *)
StreamBreaks ==
  /\ responses # <<>>
  /\ responses' = <<>>
  /\ UNCHANGED <<server, queue, fsUser, credQ, waiting, callbacks>>

(* Mutant of NotifyUser: the completion is not erased from the map.          *)
NotifyUserAgain(id, ok) ==
  /\ callbacks' = IF id \in waiting[fsUser] THEN Append(callbacks, [id |-> id, ok |-> ok])
                                            ELSE callbacks
  /\ UNCHANGED waiting

(* SyncEngine.NotifyUser: only the callbacks of the current user are looked  *)
(* up, and a write restored from LevelDB has none.                           *)
NotifyUser(id, ok) ==
  /\ callbacks' = IF id \in waiting[fsUser] THEN Append(callbacks, [id |-> id, ok |-> ok])
                                            ELSE callbacks
  /\ waiting' = [waiting EXCEPT ![fsUser] = @ \ {id}]

(* Mutants of HandleResponse: an error is reported as success; a rejected    *)
(* write tells nobody; a rejected write stays in the queue.                  *)
HandleResponseAsOk ==
  /\ responses # <<>>
  /\ NotifyUser(Head(queue[fsUser]).id, TRUE)
  /\ queue' = [queue EXCEPT ![fsUser] = Tail(@)]
  /\ responses' = IF Head(responses) = "ok" THEN Tail(responses) ELSE <<>>
  /\ UNCHANGED <<server, fsUser, credQ>>
HandleResponseSilently ==
  /\ responses # <<>>
  /\ IF Head(responses) = "ok" THEN NotifyUser(Head(queue[fsUser]).id, TRUE)
                               ELSE UNCHANGED <<waiting, callbacks>>
  /\ queue' = [queue EXCEPT ![fsUser] = Tail(@)]
  /\ responses' = IF Head(responses) = "ok" THEN Tail(responses) ELSE <<>>
  /\ UNCHANGED <<server, fsUser, credQ>>
HandleResponseKept ==
  /\ responses # <<>>
  /\ NotifyUser(Head(queue[fsUser]).id, Head(responses) = "ok")
  /\ queue' = IF Head(responses) = "ok" THEN [queue EXCEPT ![fsUser] = Tail(@)] ELSE queue
  /\ responses' = IF Head(responses) = "ok" THEN Tail(responses) ELSE <<>>
  /\ UNCHANGED <<server, fsUser, credQ>>

(* HandleSuccessfulWrite and HandleRejectedWrite: the front batch leaves the *)
(* queue; a rejected write also ends the stream.                             *)
HandleResponse ==
  /\ responses # <<>>
  /\ NotifyUser(Head(queue[fsUser]).id, Head(responses) = "ok")
  /\ queue' = [queue EXCEPT ![fsUser] = Tail(@)]
  /\ responses' = IF Head(responses) = "ok" THEN Tail(responses) ELSE <<>>
  /\ UNCHANGED <<server, fsUser, credQ>>

(* SyncEngine.HandleCredentialChange: the queues are swapped, the streams    *)
(* restarted; callbacks of the former user wait for its return.              *)
CredentialChange ==
  /\ credQ # <<>>
  /\ fsUser' = Head(credQ)
  /\ credQ' = Tail(credQ)
  /\ responses' = <<>>
  /\ UNCHANGED <<server, queue, waiting, callbacks>>

(* The main queue runs a completion.                                         *)
TakeCallback ==
  /\ callbacks # <<>>
  /\ callbacks' = Tail(callbacks)
  /\ UNCHANGED <<server, queue, fsUser, credQ, waiting, responses>>

(* The process dies and starts again with user u: the queues remain.         *)
FsRelaunch(u) ==
  /\ fsUser' = u
  /\ credQ' = <<>>
  /\ waiting' = [v \in MaybeUser |-> {}]
  /\ responses' = <<>>
  /\ callbacks' = <<>>
  /\ UNCHANGED <<server, queue>>

(* The steps that no caller takes part in.                                   *)
FsInternal == ServerStores \/ ServerDenies \/ StreamBreaks \/ HandleResponse

-----------------------------------------------------------------------------
FsTypeOK ==
  /\ docs \in [Users -> Document]
  /\ landed \subseteq WriteIds
  /\ queue \in [MaybeUser -> Seq(Write)]
  /\ fsUser \in MaybeUser
  /\ credQ \in Seq(MaybeUser)
  /\ waiting \in [MaybeUser -> SUBSET WriteIds]
  /\ responses \in Seq({"ok", "denied"})
  /\ callbacks \in Seq(Callback)

(* No completion handler is forgotten while the process lives: as long as    *)
(* one waits, its write is still in that user's queue, through rejections,   *)
(* broken streams and changes of user (SyncEngine.NotifyUser).               *)
AwaitedIsQueued == \A u \in MaybeUser : waiting[u] \subseteq Ids(queue[u])

(* A completion without error means that the server applied the write.       *)
OkMeansLanded ==
  \A i \in 1..Len(callbacks) : callbacks[i].ok => callbacks[i].id \in landed

(* A completion runs at most once: what was dispatched is dispatched once    *)
(* and no longer waits.                                                      *)
CalledBackOnce ==
  \A i \in 1..Len(callbacks) :
    /\ \A j \in 1..Len(callbacks) : callbacks[i].id = callbacks[j].id => i = j
    /\ \A u \in MaybeUser : callbacks[i].id \notin waiting[u]
=============================================================================
