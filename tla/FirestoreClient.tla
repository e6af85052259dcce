---------------------------- MODULE FirestoreClient ----------------------------
(***************************************************************************)
(* FirestoreWrites closed with the most general caller: anybody writes any *)
(* document, once per write id, and users come and go.                     *)
(***************************************************************************)
EXTENDS FirestoreWrites

CONSTANT MaxCredentials  \* bound: credential changes on their way

VARIABLE outcome  \* what the callers know of each write (a history variable)

clientVars == <<fsVars, outcome>>

(* The data of a write is its own id, so that a document tells who wrote it. *)
Data(w) == [f \in Fields |-> w]

ASSUME ClientAssumption == WriteIds \subseteq Values /\ Fields # {}

ClientInit ==
  /\ FsInit(NoUser, [u \in Users |-> Missing])
  /\ outcome = [w \in WriteIds |-> "new"]

(* A caller writes all the fields of a document, as a merge.                 *)
Submit(w, d) ==
  /\ outcome[w] = "new"
  /\ outcome' = [outcome EXCEPT ![w] = "asked"]
  /\ SetData([id |-> w, doc |-> d, data |-> Data(w), merge |-> TRUE])

ChangeUser(u) ==
  /\ Len(credQ) < MaxCredentials
  /\ PostCredential(u)
  /\ UNCHANGED <<docs, landed, queue, fsUser, waiting, responses, callbacks, outcome>>

(* The completion runs.                                                      *)
RunCallback ==
  /\ TakeCallback
  /\ outcome' = [outcome EXCEPT ![Head(callbacks).id] =
                   IF Head(callbacks).ok THEN "ok" ELSE "failed"]

ClientRelaunch(u) ==
  /\ FsRelaunch(u)
  /\ outcome' = [w \in WriteIds |->
                   IF outcome[w] = "asked" THEN "forgotten" ELSE outcome[w]]

Silent ==
  /\ FsInternal \/ CredentialChange
  /\ UNCHANGED outcome

ClientNext ==
  \/ \E w \in WriteIds, d \in Users : Submit(w, d)
  \/ \E u \in MaybeUser : ChangeUser(u) \/ ClientRelaunch(u)
  \/ RunCallback
  \/ Silent

ClientSpec == ClientInit /\ [][ClientNext]_clientVars

-----------------------------------------------------------------------------
(* What FirestoreWrites needs to keep its promises, and keeps: no write is   *)
(* queued twice, nor queued again once its callers were or will be told;     *)
(* answers on their way belong to the front of the queue.                    *)
Known == {w \in WriteIds : outcome[w] # "new"}
Told == {w \in WriteIds : outcome[w] \in {"ok", "failed"}}
Answered == {callbacks[i].id : i \in 1..Len(callbacks)}

QueuedOnce ==
  \A u, v \in MaybeUser : \A i \in 1..Len(queue[u]), j \in 1..Len(queue[v]) :
    queue[u][i].id = queue[v][j].id => u = v /\ i = j
QueuedIsKnown ==
  \A u \in MaybeUser : \A i \in 1..Len(queue[u]) :
    queue[u][i].id \in Known \ (Told \cup Answered)
ResponsesMatch ==
  /\ Len(responses) <= Len(queue[fsUser])
  /\ \A i \in 1..Len(responses) :
       /\ responses[i] = "ok" => queue[fsUser][i].id \in landed
       /\ responses[i] = "denied" => i = Len(responses)
AnsweredIsAsked ==
  \A i \in 1..Len(callbacks) : outcome[callbacks[i].id] = "asked"
WaitingIsAsked ==
  \A u \in MaybeUser : \A w \in waiting[u] : outcome[w] = "asked"

ClientInv ==
  /\ FsTypeOK
  /\ outcome \in [WriteIds -> {"new", "asked", "ok", "failed", "forgotten"}]
  /\ QueuedOnce
  /\ QueuedIsKnown
  /\ ResponsesMatch
  /\ AnsweredIsAsked
  /\ WaitingIsAsked
  /\ AwaitedIsQueued
  /\ OkMeansLanded
  /\ CalledBackOnce

(* The Firestore client implements the promise of setData: completions run   *)
(* at most once over changes of user and broken streams, never without error *)
(* before the server has the write, and a write reported as failed is never  *)
(* sent again (SyncEngine, LocalStore, RemoteStore).                         *)
Promise == INSTANCE SetDataPromise
KeepsPromise == Promise!Spec
=============================================================================
