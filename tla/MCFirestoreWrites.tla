-------------------------- MODULE MCFirestoreWrites --------------------------
(* Small instances of FirestoreClient for TLC, with the order of the calls. *)
EXTENDS FirestoreClient, TLC, FiniteSets

VARIABLE issued  \* the calls of setData so far, with Firestore's user then

vars == <<clientVars, issued>>

Init == ClientInit /\ issued = <<>>

Next ==
  \/ \E w \in WriteIds, d \in Users :
       Submit(w, d) /\ issued' = Append(issued, [id |-> w, doc |-> d, by |-> fsUser])
  \/ \E u \in MaybeUser : (ChangeUser(u) \/ ClientRelaunch(u)) /\ UNCHANGED issued
  \/ (RunCallback \/ Silent) /\ UNCHANGED issued

Spec == Init /\ [][Next]_vars

(* A write whose completion reported success is never overwritten by an      *)
(* older write of the same user to the same document: not by a resend, not   *)
(* over a change of user or a relaunch.                                      *)
Older(i, j) == i < j /\ issued[i].doc = issued[j].doc /\ issued[i].by = issued[j].by
NoStaleOverwrite ==
  \A i, j \in 1..Len(issued) :
    outcome[issued[j].id] = "ok" /\ Older(i, j) =>
      docs[issued[j].doc] # Data(issued[i].id)

-----------------------------------------------------------------------------
(* The server and the worker queue go on; the stream does not break for ever *)
(* before an answer is handled.                                              *)
Fairness ==
  /\ WF_clientVars(CredentialChange /\ UNCHANGED outcome)
  /\ WF_clientVars((ServerStores \/ ServerDenies) /\ UNCHANGED outcome)
  /\ SF_clientVars(HandleResponse /\ UNCHANGED outcome)
  /\ WF_clientVars(RunCallback)

FairSpec == Spec /\ Fairness

(* A write leaves the queue of its user, unless Firestore changes its user   *)
(* or the process dies over and over: nothing else holds it back.            *)
QueueDrains ==
  \A w \in WriteIds :
    (w \in Ids(queue[fsUser])) ~> (w \notin Ids(queue[fsUser]))
=============================================================================
