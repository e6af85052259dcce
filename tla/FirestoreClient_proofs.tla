------------------------ MODULE FirestoreClient_proofs ------------------------
(***************************************************************************)
(* Proofs about FirestoreClient for any users, documents, writes and data. *)
(***************************************************************************)
EXTENDS MCFirestoreWrites, FirestoreWrites_proofs

-----------------------------------------------------------------------------
(* What a caller writes is a write.                                          *)
LEMMA DataFacts ==
  ASSUME NEW w \in WriteIds, NEW d \in Users
  PROVE  [id |-> w, doc |-> d, data |-> Data(w), merge |-> TRUE] \in Write
<1>1. Data(w) \in Document
  BY ClientAssumption DEF Data, Document
<1> QED BY <1>1 DEF Write

(* The front of Firestore's queue, when the server has answered it.          *)
LEMMA FrontFacts ==
  ASSUME ClientInv, responses # <<>>
  PROVE  /\ fsUser \in MaybeUser
         /\ queue[fsUser] \in Seq(Write) /\ queue[fsUser] # <<>>
         /\ responses \in Seq({"ok", "denied"})
         /\ Head(queue[fsUser]).id = queue[fsUser][1].id
         /\ Head(queue[fsUser]).id \in WriteIds
<1>1. /\ fsUser \in MaybeUser /\ queue[fsUser] \in Seq(Write)
      /\ responses \in Seq({"ok", "denied"})
  BY DEF ClientInv, FsTypeOK
<1>2. Len(queue[fsUser]) # 0
  BY <1>1, TailFacts DEF ClientInv, ResponsesMatch
<1>3. queue[fsUser] # <<>>
  BY <1>2, EmptyFacts
<1> DEFINE q == queue[fsUser]
<1>4. q \in Seq(Write) /\ q # <<>>
  BY <1>1, <1>3
<1> HIDE DEF q
<1>5. Head(q) = q[1] /\ Head(q) \in Write
  BY <1>4, TailFacts
<1>6. Head(q).id \in WriteIds
  BY <1>5 DEF Write
<1> QED BY <1>1, <1>3, <1>5, <1>6 DEF q

-----------------------------------------------------------------------------
(* Each step keeps the invariant. *)

LEMMA InitInv == ClientInit => ClientInv
<1> SUFFICES ASSUME ClientInit PROVE ClientInv
  OBVIOUS
<1> USE DEF ClientInit, FsInit
<1>1. FsTypeOK
  BY EmptyFacts DEF FsTypeOK, Missing, Document, MaybeUser
<1>2. outcome \in [WriteIds -> {"new", "asked", "ok", "failed", "forgotten"}]
  OBVIOUS
<1>3. \A u \in MaybeUser : queue[u] = <<>> /\ Len(queue[u]) = 0
  BY EmptyFacts
<1>4. QueuedOnce /\ QueuedIsKnown
  BY <1>3 DEF QueuedOnce, QueuedIsKnown
<1>5. ResponsesMatch
  BY <1>3, EmptyFacts DEF ResponsesMatch, MaybeUser
<1>6. AnsweredIsAsked /\ OkMeansLanded /\ CalledBackOnce
  BY EmptyFacts DEF AnsweredIsAsked, OkMeansLanded, CalledBackOnce
<1>7. WaitingIsAsked /\ AwaitedIsQueued
  BY DEF WaitingIsAsked, AwaitedIsQueued
<1> QED BY <1>1, <1>2, <1>4, <1>5, <1>6, <1>7 DEF ClientInv

(* A new write joins the queue of Firestore's user, and so does its callback. *)
LEMMA SubmitInv ==
  ASSUME ClientInv, NEW w \in WriteIds, NEW d \in Users, Submit(w, d)
  PROVE  ClientInv'
<1> DEFINE new == [id |-> w, doc |-> d, data |-> Data(w), merge |-> TRUE]
           q == queue[fsUser]
           a == Append(q, new)
<1>1. new \in Write /\ new.id = w
  BY DataFacts
<1>2. fsUser \in MaybeUser /\ q \in Seq(Write) /\ queue \in [MaybeUser -> Seq(Write)]
  BY DEF ClientInv, FsTypeOK
<1>3. /\ a \in Seq(Write) /\ Len(q) \in Nat /\ Len(a) = Len(q) + 1
      /\ \A i \in 1..Len(q) : a[i] = q[i]
      /\ a[Len(q) + 1].id = w
  BY <1>1, <1>2, AppendFacts
<1>4. /\ outcome[w] = "new" /\ outcome' = [outcome EXCEPT ![w] = "asked"]
      /\ queue' = [queue EXCEPT ![fsUser] = a]
      /\ waiting' = [waiting EXCEPT ![fsUser] = @ \cup {w}]
      /\ UNCHANGED <<docs, landed, fsUser, credQ, responses, callbacks>>
  BY <1>1 DEF Submit, SetData, server
<1> HIDE DEF new, a
<1>5. /\ queue'[fsUser] = a
      /\ \A u \in MaybeUser : u # fsUser => queue'[u] = queue[u]
  BY <1>2, <1>4
<1>6. \A u \in MaybeUser : \A i \in 1..Len(queue[u]) : queue[u][i].id # w
  BY <1>4 DEF ClientInv, QueuedIsKnown, Known
<1>7. \A u \in MaybeUser : \A i \in 1..Len(queue'[u]) :
        \/ i \in 1..Len(queue[u]) /\ queue'[u][i] = queue[u][i]
        \/ u = fsUser /\ i = Len(q) + 1 /\ queue'[u][i].id = w
  BY <1>3, <1>5
<1>8. FsTypeOK'
  BY <1>3, <1>4 DEF ClientInv, FsTypeOK
<1>9. outcome' \in [WriteIds -> {"new", "asked", "ok", "failed", "forgotten"}]
  BY <1>4 DEF ClientInv
<1>10. QueuedOnce'
  <2> SUFFICES ASSUME NEW u \in MaybeUser, NEW v \in MaybeUser,
                      NEW i \in 1..Len(queue'[u]), NEW j \in 1..Len(queue'[v]),
                      queue'[u][i].id = queue'[v][j].id
               PROVE  u = v /\ i = j
    BY DEF QueuedOnce
  <2>1. \A x, y \in MaybeUser : \A m \in 1..Len(queue[x]), n \in 1..Len(queue[y]) :
          queue[x][m].id = queue[y][n].id => x = y /\ m = n
    BY DEF ClientInv, QueuedOnce
  <2>2. CASE queue'[u][i].id = w
    <3>1. u = fsUser /\ i = Len(q) + 1
      BY <1>6, <1>7, <2>2
    <3>2. v = fsUser /\ j = Len(q) + 1
      BY <1>6, <1>7, <2>2
    <3> QED BY <3>1, <3>2
  <2>3. CASE queue'[u][i].id # w
    <3>1. i \in 1..Len(queue[u]) /\ queue'[u][i] = queue[u][i]
      BY <1>7, <2>3
    <3>2. j \in 1..Len(queue[v]) /\ queue'[v][j] = queue[v][j]
      BY <1>7, <2>3
    <3> QED BY <2>1, <3>1, <3>2
  <2> QED BY <2>2, <2>3
<1>11. \A i \in 1..Len(callbacks) : callbacks[i].id \in WriteIds /\ callbacks[i].id # w
  <2>1. \A i \in 1..Len(callbacks) : callbacks[i] \in Callback
    BY DEF ClientInv, FsTypeOK
  <2>2. \A i \in 1..Len(callbacks) : outcome[callbacks[i].id] = "asked"
    BY DEF ClientInv, AnsweredIsAsked
  <2> QED BY <1>4, <2>1, <2>2 DEF Callback
<1>12. QueuedIsKnown'
  <2>1. Answered' = Answered
    BY <1>4 DEF Answered
  <2>2. w \notin Answered
    BY <1>11 DEF Answered
  <2>3. Known' = Known \cup {w} /\ Told' = Told /\ w \notin Told
    BY <1>4 DEF ClientInv, Known, Told
  <2> QED BY <1>7, <2>1, <2>2, <2>3 DEF ClientInv, QueuedIsKnown
<1>13. ResponsesMatch'
  <2>1. Len(responses) <= Len(q) /\ Len(responses) \in Nat
    BY DEF ClientInv, ResponsesMatch, FsTypeOK
  <2>2. \A i \in 1..Len(responses) : i \in 1..Len(q)
    BY <2>1, <1>3
  <2> QED BY <1>3, <1>4, <1>5, <2>1, <2>2 DEF ClientInv, ResponsesMatch
<1>14. AnsweredIsAsked' /\ OkMeansLanded'
  BY <1>4, <1>11 DEF ClientInv, AnsweredIsAsked, OkMeansLanded
<1>15. WaitingIsAsked'
  BY <1>2, <1>4 DEF ClientInv, WaitingIsAsked, FsTypeOK
<1>16. AwaitedIsQueued'
  <2>1. \A u \in MaybeUser : Ids(queue[u]) \subseteq Ids(queue'[u])
    <3>1. \A u \in MaybeUser : \A i \in 1..Len(queue[u]) :
            i \in 1..Len(queue'[u]) /\ queue'[u][i] = queue[u][i]
      BY <1>3, <1>5
    <3> QED BY <3>1 DEF Ids
  <2>2. w \in Ids(queue'[fsUser])
    BY <1>3, <1>5 DEF Ids
  <2> QED BY <1>2, <1>4, <2>1, <2>2 DEF ClientInv, AwaitedIsQueued, FsTypeOK
<1>17. CalledBackOnce'
  BY <1>2, <1>4, <1>11 DEF ClientInv, CalledBackOnce, FsTypeOK
<1> QED
  BY <1>8, <1>9, <1>10, <1>12, <1>13, <1>14, <1>15, <1>16, <1>17 DEF ClientInv

(* A notification is posted: nothing else changes.                           *)
LEMMA ChangeUserInv ==
  ASSUME ClientInv, NEW u \in MaybeUser, ChangeUser(u)
  PROVE  ClientInv'
<1>1. /\ credQ' = Append(credQ, u)
      /\ UNCHANGED <<docs, landed, queue, fsUser, waiting, responses, callbacks, outcome>>
  BY DEF ChangeUser, PostCredential
<1>2. FsTypeOK'
  BY <1>1, AppendFacts DEF ClientInv, FsTypeOK
<1> QED
  BY <1>1, <1>2 DEF ClientInv, QueuedOnce, QueuedIsKnown, Known, Told, Answered,
     ResponsesMatch, AnsweredIsAsked, WaitingIsAsked, AwaitedIsQueued, OkMeansLanded,
     CalledBackOnce

(* A relaunch forgets the callbacks and keeps the queues.                    *)
LEMMA RelaunchInv ==
  ASSUME ClientInv, NEW u \in MaybeUser, ClientRelaunch(u)
  PROVE  ClientInv'
<1>1. /\ fsUser' = u /\ credQ' = <<>> /\ responses' = <<>> /\ callbacks' = <<>>
      /\ waiting' = [v \in MaybeUser |-> {}]
      /\ outcome' = [w \in WriteIds |->
                       IF outcome[w] = "asked" THEN "forgotten" ELSE outcome[w]]
      /\ UNCHANGED <<docs, landed, queue>>
  BY DEF ClientRelaunch, FsRelaunch, server
<1>2. FsTypeOK'
  BY <1>1, EmptyFacts DEF ClientInv, FsTypeOK
<1>3. outcome' \in [WriteIds -> {"new", "asked", "ok", "failed", "forgotten"}]
  BY <1>1 DEF ClientInv
<1>4. Known' = Known /\ Told' = Told /\ Answered' = {}
  BY <1>1, EmptyFacts DEF ClientInv, Known, Told, Answered
<1>5. QueuedOnce' /\ QueuedIsKnown'
  BY <1>1, <1>4 DEF ClientInv, QueuedOnce, QueuedIsKnown
<1>6. ResponsesMatch'
  <2>1. queue[u] \in Seq(Write) /\ Len(queue[u]) \in Nat
    BY DEF ClientInv, FsTypeOK
  <2> QED BY <1>1, <2>1, EmptyFacts DEF ResponsesMatch
<1>7. AnsweredIsAsked' /\ OkMeansLanded' /\ CalledBackOnce'
  BY <1>1, EmptyFacts DEF AnsweredIsAsked, OkMeansLanded, CalledBackOnce
<1>8. WaitingIsAsked' /\ AwaitedIsQueued'
  BY <1>1 DEF WaitingIsAsked, AwaitedIsQueued
<1> QED BY <1>2, <1>3, <1>5, <1>6, <1>7, <1>8 DEF ClientInv

(* The server takes or refuses the next write of the stream.                 *)
LEMMA ServerInv ==
  ASSUME ClientInv, ServerStores \/ ServerDenies, UNCHANGED outcome
  PROVE  ClientInv'
<1> DEFINE q == queue[fsUser]
           n == Len(responses)
<1>1. /\ fsUser \in MaybeUser /\ q \in Seq(Write) /\ responses \in Seq({"ok", "denied"})
      /\ docs \in [Users -> Document] /\ landed \subseteq WriteIds
  BY DEF ClientInv, FsTypeOK
<1>2. /\ Unanswered
      /\ UNCHANGED <<queue, fsUser, credQ, waiting, callbacks, outcome>>
  BY DEF ServerStores, ServerDenies, server
<1>3. /\ n \in Nat /\ Len(q) \in Nat /\ n < Len(q) /\ n + 1 \in 1..Len(q)
      /\ \A i \in 1..n : responses[i] = "ok"
  BY <1>1, <1>2 DEF Unanswered
<1>4. NextWrite \in Write
  BY <1>1, <1>3, AppendFacts DEF NextWrite
<1>5. PICK r \in {"ok", "denied"} : /\ responses' = Append(responses, r)
                                    /\ r = "ok" => landed' = landed \cup {NextWrite.id}
                                    /\ r = "denied" => landed' = landed
  BY DEF ServerStores, ServerDenies, server
<1>6. /\ responses' \in Seq({"ok", "denied"}) /\ Len(responses') = n + 1
      /\ \A i \in 1..n : responses'[i] = responses[i]
      /\ responses'[n + 1] = r
  BY <1>1, <1>5, AppendFacts
<1>7. docs' \in [Users -> Document]
  <2>1. NextWrite.doc \in Users
    BY <1>4 DEF Write
  <2>2. docs[NextWrite.doc] \in Document
    BY <1>1, <2>1
  <2>3. Apply(docs[NextWrite.doc], NextWrite) \in Document
    BY <1>4, <2>2, ApplyFacts
  <2> QED BY <1>1, <2>3 DEF ServerStores, ServerDenies, server
<1>8. landed \subseteq landed' /\ landed' \subseteq WriteIds
  BY <1>1, <1>4, <1>5 DEF Write
<1>9. FsTypeOK'
  BY <1>2, <1>6, <1>7, <1>8 DEF ClientInv, FsTypeOK
<1>10. QueuedOnce' /\ AwaitedIsQueued' /\ WaitingIsAsked' /\ CalledBackOnce' /\ AnsweredIsAsked'
  BY <1>2 DEF ClientInv, QueuedOnce, AwaitedIsQueued, WaitingIsAsked, CalledBackOnce,
     AnsweredIsAsked
<1>11. QueuedIsKnown'
  BY <1>2 DEF ClientInv, QueuedIsKnown, Known, Told, Answered
<1>12. ResponsesMatch'
  <2>1. \A i \in 1..(n + 1) : i \in 1..n \/ i = n + 1
    BY <1>3
  <2>2. \A i \in 1..n : responses[i] = "ok" /\ q[i].id \in landed
    BY <1>3 DEF ClientInv, ResponsesMatch
  <2>3. r = "ok" => q[n + 1].id \in landed'
    BY <1>5 DEF NextWrite
  <2>4. \A i \in 1..(n + 1) : /\ responses'[i] = "ok" => q[i].id \in landed'
                              /\ responses'[i] = "denied" => i = n + 1
    BY <1>6, <1>8, <2>1, <2>2, <2>3
  <2> QED BY <1>2, <1>3, <1>6, <2>4 DEF ResponsesMatch
<1>13. OkMeansLanded'
  BY <1>2, <1>8 DEF ClientInv, OkMeansLanded
<1> QED BY <1>2, <1>9, <1>10, <1>11, <1>12, <1>13 DEF ClientInv

(* Answers are lost, with a broken stream or a change of user.               *)
LEMMA RestartInv ==
  ASSUME ClientInv, StreamBreaks \/ CredentialChange, UNCHANGED outcome
  PROVE  ClientInv'
<1>1. /\ responses' = <<>>
      /\ UNCHANGED <<docs, landed, queue, waiting, callbacks, outcome>>
  BY DEF StreamBreaks, CredentialChange, server
<1>2. fsUser' \in MaybeUser /\ credQ' \in Seq(MaybeUser)
  <2>1. fsUser \in MaybeUser /\ credQ \in Seq(MaybeUser)
    BY DEF ClientInv, FsTypeOK
  <2>2. CASE StreamBreaks
    BY <2>1, <2>2 DEF StreamBreaks
  <2>3. CASE CredentialChange
    BY <2>1, <2>3, TailFacts DEF CredentialChange
  <2> QED BY <2>2, <2>3
<1>3. FsTypeOK'
  BY <1>1, <1>2, EmptyFacts DEF ClientInv, FsTypeOK
<1>4. ResponsesMatch'
  <2>1. queue[fsUser'] \in Seq(Write) /\ Len(queue[fsUser']) \in Nat
    BY <1>2 DEF ClientInv, FsTypeOK
  <2> QED BY <1>1, <2>1, EmptyFacts DEF ResponsesMatch
<1>5. QueuedIsKnown'
  BY <1>1 DEF ClientInv, QueuedIsKnown, Known, Told, Answered
<1> QED
  BY <1>1, <1>3, <1>4, <1>5 DEF ClientInv, QueuedOnce, AnsweredIsAsked, WaitingIsAsked,
     AwaitedIsQueued, OkMeansLanded, CalledBackOnce

(* The front batch leaves the queue, with its callback when it waits for it. *)
LEMMA HandleInv ==
  ASSUME ClientInv, HandleResponse, UNCHANGED outcome
  PROVE  ClientInv'
<1> DEFINE q == queue[fsUser]
           t == Tail(q)
           id == Head(q).id
           ok == Head(responses) = "ok"
           cb == [id |-> id, ok |-> ok]
           more == Append(callbacks, cb)
           rest == Tail(responses)
<1>1. /\ responses # <<>>
      /\ callbacks' = IF id \in waiting[fsUser] THEN more ELSE callbacks
      /\ waiting' = [waiting EXCEPT ![fsUser] = @ \ {id}]
      /\ queue' = [queue EXCEPT ![fsUser] = t]
      /\ responses' = IF ok THEN rest ELSE <<>>
      /\ UNCHANGED <<docs, landed, fsUser, credQ, outcome>>
  BY DEF HandleResponse, NotifyUser, server
<1>2. /\ fsUser \in MaybeUser /\ q \in Seq(Write) /\ q # <<>>
      /\ id = q[1].id /\ id \in WriteIds
  BY <1>1, FrontFacts
<1>3. /\ t \in Seq(Write) /\ Len(q) \in Nat \ {0} /\ Len(t) = Len(q) - 1
      /\ \A i \in 1..Len(t) : t[i] = q[i + 1]
  BY <1>2, TailFacts
<1>4. /\ callbacks \in Seq(Callback) /\ responses \in Seq({"ok", "denied"})
      /\ queue \in [MaybeUser -> Seq(Write)] /\ waiting \in [MaybeUser -> SUBSET WriteIds]
  BY DEF ClientInv, FsTypeOK
<1>5. cb \in Callback /\ cb.id = id /\ cb.ok = ok
  BY <1>2 DEF Callback
<1>6. /\ more \in Seq(Callback) /\ Len(callbacks) \in Nat
      /\ Len(more) = Len(callbacks) + 1
      /\ \A i \in 1..Len(callbacks) : more[i] = callbacks[i]
      /\ more[Len(callbacks) + 1] = cb
  BY <1>4, <1>5, AppendFacts
<1>7. /\ Len(responses) \in Nat \ {0} /\ Head(responses) = responses[1]
      /\ rest \in Seq({"ok", "denied"})
      /\ Len(rest) = Len(responses) - 1
      /\ \A i \in 1..Len(rest) : rest[i] = responses[i + 1]
  BY <1>1, <1>4, TailFacts
<1> HIDE DEF t, id, ok, cb, more, rest
<1>8. /\ queue'[fsUser] = t
      /\ \A u \in MaybeUser : u # fsUser => queue'[u] = queue[u]
  BY <1>1, <1>2, <1>4
<1>9. \A u \in MaybeUser : \A i \in 1..Len(queue'[u]) :
        \/ u # fsUser /\ i \in 1..Len(queue[u]) /\ queue'[u][i] = queue[u][i]
        \/ u = fsUser /\ i + 1 \in 2..Len(q) /\ queue'[u][i] = q[i + 1]
  BY <1>3, <1>8
<1>10. \A u, v \in MaybeUser : \A i \in 1..Len(queue[u]), j \in 1..Len(queue[v]) :
         queue[u][i].id = queue[v][j].id => u = v /\ i = j
  BY DEF ClientInv, QueuedOnce
<1>11. \A u \in MaybeUser : \A i \in 1..Len(queue'[u]) : queue'[u][i].id # id
  <2> SUFFICES ASSUME NEW u \in MaybeUser, NEW i \in 1..Len(queue'[u]), queue'[u][i].id = id
               PROVE  FALSE
    OBVIOUS
  <2>1. 1 \in 1..Len(q) /\ q[1].id = id
    BY <1>2, <1>3
  <2>2. CASE u # fsUser
    BY <1>2, <1>9, <1>10, <2>1, <2>2
  <2>3. CASE u = fsUser
    <3>1. i + 1 \in 1..Len(q) /\ q[i + 1].id = id /\ i + 1 # 1
      BY <1>9, <2>3
    <3> QED BY <1>2, <1>10, <2>1, <3>1
  <2> QED BY <2>2, <2>3
<1>12. /\ waiting'[fsUser] = waiting[fsUser] \ {id}
       /\ \A u \in MaybeUser : waiting'[u] \subseteq waiting[u]
  BY <1>1, <1>2, <1>4
<1>13. \A u \in MaybeUser : id \notin waiting'[u]
  <2> SUFFICES ASSUME NEW u \in MaybeUser, id \in waiting'[u] PROVE FALSE
    OBVIOUS
  <2>1. u # fsUser /\ id \in waiting[u]
    BY <1>12
  <2>2. id \in Ids(queue[u])
    BY <2>1 DEF ClientInv, AwaitedIsQueued
  <2>3. PICK i \in 1..Len(queue[u]) : queue[u][i].id = id
    BY <2>2 DEF Ids
  <2> QED BY <1>2, <1>3, <1>10, <2>1, <2>3
<1>14. /\ callbacks' \in Seq(Callback) /\ Len(callbacks') \in Nat
       /\ \A i \in 1..Len(callbacks') :
            \/ i \in 1..Len(callbacks) /\ callbacks'[i] = callbacks[i]
            \/ /\ i = Len(callbacks) + 1 /\ id \in waiting[fsUser]
               /\ callbacks'[i].id = id /\ callbacks'[i].ok = ok
  BY <1>1, <1>4, <1>5, <1>6
<1>15. responses' \in Seq({"ok", "denied"})
  BY <1>1, <1>7, EmptyFacts
<1>16. FsTypeOK'
  <2>1. queue' \in [MaybeUser -> Seq(Write)]
    BY <1>1, <1>3, <1>4
  <2>2. waiting' \in [MaybeUser -> SUBSET WriteIds]
    BY <1>1, <1>4
  <2> QED BY <1>1, <1>14, <1>15, <2>1, <2>2 DEF ClientInv, FsTypeOK
<1>17. QueuedOnce'
  <2> SUFFICES ASSUME NEW u \in MaybeUser, NEW v \in MaybeUser,
                      NEW i \in 1..Len(queue'[u]), NEW j \in 1..Len(queue'[v]),
                      queue'[u][i].id = queue'[v][j].id
               PROVE  u = v /\ i = j
    BY DEF QueuedOnce
  <2>1. PICK m \in 1..Len(queue[u]) : /\ queue'[u][i] = queue[u][m]
                                      /\ m = IF u = fsUser THEN i + 1 ELSE i
    BY <1>9
  <2>2. PICK n \in 1..Len(queue[v]) : /\ queue'[v][j] = queue[v][n]
                                      /\ n = IF v = fsUser THEN j + 1 ELSE j
    BY <1>9
  <2>3. u = v /\ m = n
    BY <1>10, <2>1, <2>2
  <2>4. i \in Nat /\ j \in Nat
    BY <1>3, <1>4, <1>8
  <2> QED BY <2>1, <2>2, <2>3, <2>4
<1>18. QueuedIsKnown'
  <2>1. \A w \in Answered' : w \in Answered \/ w = id
    BY <1>14 DEF Answered
  <2>2. Known' = Known /\ Told' = Told
    BY <1>1 DEF Known, Told
  <2>3. \A u \in MaybeUser : \A i \in 1..Len(queue'[u]) :
          \E m \in 1..Len(queue[u]) : queue'[u][i] = queue[u][m]
    BY <1>9
  <2> QED BY <1>11, <2>1, <2>2, <2>3 DEF ClientInv, QueuedIsKnown
<1>19. ResponsesMatch'
  <2>1. CASE ~ok
    <3>1. responses' = <<>>
      BY <1>1, <2>1
    <3>2. Len(t) \in Nat
      BY <1>3
    <3> QED BY <1>1, <1>8, <3>1, <3>2, EmptyFacts DEF ResponsesMatch
  <2>2. CASE ok
    <3>1. /\ Len(responses) <= Len(q)
          /\ \A i \in 1..Len(responses) :
               /\ responses[i] = "ok" => q[i].id \in landed
               /\ responses[i] = "denied" => i = Len(responses)
      BY DEF ClientInv, ResponsesMatch
    <3>2. /\ Len(responses') = Len(responses) - 1
          /\ \A i \in 1..Len(responses') : responses'[i] = responses[i + 1]
      BY <1>1, <1>7, <2>2
    <3>3. \A i \in 1..Len(responses') : i + 1 \in 1..Len(responses) /\ i \in 1..Len(t)
      BY <1>3, <1>7, <3>1, <3>2
    <3>4. \A i \in 1..Len(responses') :
            /\ responses'[i] = "ok" => t[i].id \in landed
            /\ responses'[i] = "denied" => i = Len(responses')
      BY <1>3, <1>7, <3>1, <3>2, <3>3
    <3>5. Len(responses') <= Len(t)
      BY <1>3, <1>7, <3>1, <3>2
    <3> QED BY <1>1, <1>8, <3>4, <3>5 DEF ResponsesMatch
  <2> QED BY <2>1, <2>2
<1>20. id \in waiting[fsUser] => outcome[id] = "asked"
  BY <1>2 DEF ClientInv, WaitingIsAsked
<1>21. AnsweredIsAsked'
  BY <1>1, <1>14, <1>20 DEF ClientInv, AnsweredIsAsked
<1>22. WaitingIsAsked'
  BY <1>1, <1>12 DEF ClientInv, WaitingIsAsked
<1>23. AwaitedIsQueued'
  <2> SUFFICES ASSUME NEW u \in MaybeUser, NEW w \in waiting'[u]
               PROVE  w \in Ids(queue'[u])
    BY DEF AwaitedIsQueued
  <2>1. w \in waiting[u] /\ w # id
    BY <1>12, <1>13
  <2>2. w \in Ids(queue[u])
    BY <2>1 DEF ClientInv, AwaitedIsQueued
  <2>3. PICK i \in 1..Len(queue[u]) : queue[u][i].id = w
    BY <2>2 DEF Ids
  <2>4. CASE u # fsUser
    BY <1>8, <2>3, <2>4 DEF Ids
  <2>5. CASE u = fsUser
    <3>1. i # 1
      BY <1>2, <2>1, <2>3, <2>5
    <3>2. i - 1 \in 1..Len(t) /\ t[i - 1] = q[i]
      BY <1>3, <2>5, <3>1
    <3> QED BY <1>8, <2>3, <2>5, <3>2 DEF Ids
  <2> QED BY <2>4, <2>5
<1>24. OkMeansLanded'
  <2>1. ok => id \in landed
    <3>1. 1 \in 1..Len(responses) /\ (ok => responses[1] = "ok")
      BY <1>7 DEF ok
    <3> QED BY <1>2, <3>1 DEF ClientInv, ResponsesMatch
  <2> QED BY <1>1, <1>14, <2>1 DEF ClientInv, OkMeansLanded
<1>25. CalledBackOnce'
  <2>1. id \in waiting[fsUser] => \A i \in 1..Len(callbacks) : callbacks[i].id # id
    BY <1>2 DEF ClientInv, CalledBackOnce
  <2>2. \A i, j \in 1..Len(callbacks) : callbacks[i].id = callbacks[j].id => i = j
    BY DEF ClientInv, CalledBackOnce
  <2>3. \A i \in 1..Len(callbacks) : \A u \in MaybeUser : callbacks[i].id \notin waiting'[u]
    BY <1>12 DEF ClientInv, CalledBackOnce
  <2> QED BY <1>13, <1>14, <2>1, <2>2, <2>3 DEF CalledBackOnce
<1> QED
  BY <1>1, <1>16, <1>17, <1>18, <1>19, <1>21, <1>22, <1>23, <1>24, <1>25 DEF ClientInv

(* The completion that runs leaves the main queue.                           *)
LEMMA CallbackInv ==
  ASSUME ClientInv, RunCallback
  PROVE  ClientInv'
<1> DEFINE cb == Head(callbacks)
           t == Tail(callbacks)
           result == IF cb.ok THEN "ok" ELSE "failed"
<1>1. /\ callbacks # <<>> /\ callbacks' = t
      /\ outcome' = [outcome EXCEPT ![cb.id] = result]
      /\ UNCHANGED <<docs, landed, queue, fsUser, credQ, waiting, responses>>
  BY DEF RunCallback, TakeCallback, server
<1>2. /\ callbacks \in Seq(Callback)
      /\ outcome \in [WriteIds -> {"new", "asked", "ok", "failed", "forgotten"}]
      /\ waiting \in [MaybeUser -> SUBSET WriteIds]
  BY DEF ClientInv, FsTypeOK
<1>3. /\ t \in Seq(Callback) /\ Len(callbacks) \in Nat \ {0}
      /\ Len(t) = Len(callbacks) - 1
      /\ \A i \in 1..Len(t) : t[i] = callbacks[i + 1]
      /\ cb = callbacks[1] /\ cb \in Callback
  BY <1>1, <1>2, TailFacts
<1> HIDE DEF cb, t
<1>4. cb.id \in WriteIds /\ outcome[cb.id] = "asked"
  BY <1>3 DEF ClientInv, AnsweredIsAsked, Callback
<1>5. \A w \in WriteIds : w # cb.id => outcome'[w] = outcome[w]
  BY <1>1
<1>6. outcome'[cb.id] \in {"ok", "failed"}
  BY <1>1, <1>2, <1>4
<1>7. \A i \in 1..Len(t) : /\ i + 1 \in 1..Len(callbacks) /\ t[i] = callbacks[i + 1]
                           /\ t[i].id # cb.id
  BY <1>3 DEF ClientInv, CalledBackOnce
<1>8. \A u \in MaybeUser : cb.id \notin waiting[u]
  BY <1>3 DEF ClientInv, CalledBackOnce
<1>9. FsTypeOK'
  BY <1>1, <1>3 DEF ClientInv, FsTypeOK
<1>10. outcome' \in [WriteIds -> {"new", "asked", "ok", "failed", "forgotten"}]
  BY <1>1, <1>2
<1>11. QueuedOnce' /\ ResponsesMatch' /\ AwaitedIsQueued'
  BY <1>1 DEF ClientInv, QueuedOnce, ResponsesMatch, AwaitedIsQueued
<1>12. QueuedIsKnown'
  <2>1. cb.id \in Answered
    BY <1>3 DEF Answered
  <2>2. Answered' \subseteq Answered
    BY <1>1, <1>7 DEF Answered
  <2>3. Known \subseteq Known' /\ Told' \subseteq Told \cup {cb.id}
    BY <1>4, <1>5, <1>6 DEF Known, Told
  <2> QED BY <1>1, <2>1, <2>2, <2>3 DEF ClientInv, QueuedIsKnown
<1>13. AnsweredIsAsked'
  <2>1. \A i \in 1..Len(t) : t[i].id \in WriteIds
    <3>1. \A i \in 1..Len(callbacks) : callbacks[i] \in Callback
      BY <1>2
    <3> QED BY <1>7, <3>1 DEF Callback
  <2> QED BY <1>1, <1>5, <1>7, <2>1 DEF ClientInv, AnsweredIsAsked
<1>14. WaitingIsAsked'
  BY <1>1, <1>2, <1>5, <1>8 DEF ClientInv, WaitingIsAsked
<1>15. OkMeansLanded'
  BY <1>1, <1>7 DEF ClientInv, OkMeansLanded
<1>16. CalledBackOnce'
  <2>1. \A i, j \in 1..Len(t) : t[i].id = t[j].id => i = j
    BY <1>3, <1>7 DEF ClientInv, CalledBackOnce
  <2>2. \A i \in 1..Len(t) : \A u \in MaybeUser : t[i].id \notin waiting[u]
    BY <1>7 DEF ClientInv, CalledBackOnce
  <2> QED BY <1>1, <2>1, <2>2 DEF CalledBackOnce
<1> QED
  BY <1>9, <1>10, <1>11, <1>12, <1>13, <1>14, <1>15, <1>16 DEF ClientInv

LEMMA NextInv == ClientInv /\ [ClientNext]_clientVars => ClientInv'
<1> SUFFICES ASSUME ClientInv, [ClientNext]_clientVars PROVE ClientInv'
  OBVIOUS
<1>1. CASE \E w \in WriteIds, d \in Users : Submit(w, d)
  BY <1>1, SubmitInv
<1>2. CASE \E u \in MaybeUser : ChangeUser(u) \/ ClientRelaunch(u)
  BY <1>2, ChangeUserInv, RelaunchInv
<1>3. CASE RunCallback
  BY <1>3, CallbackInv
<1>4. CASE Silent
  BY <1>4, ServerInv, RestartInv, HandleInv DEF Silent, FsInternal
<1>5. CASE UNCHANGED clientVars
  BY <1>5 DEF clientVars, fsVars, ClientInv, FsTypeOK, QueuedOnce, QueuedIsKnown, Known,
     Told, Answered, ResponsesMatch, AnsweredIsAsked, WaitingIsAsked, AwaitedIsQueued,
     OkMeansLanded, CalledBackOnce
<1> QED BY <1>1, <1>2, <1>3, <1>4, <1>5 DEF ClientNext

-----------------------------------------------------------------------------
(* The inductive invariant of the Firestore client.                          *)
THEOREM ClientInvariant == ClientSpec => []ClientInv
BY InitInv, NextInv, PTL DEF ClientSpec

(* Its state keeps its types.                                                *)
THEOREM ClientTypes == ClientSpec => []FsTypeOK
<1>1. ClientInv => FsTypeOK
  BY DEF ClientInv
<1> QED BY <1>1, ClientInvariant, PTL

(* The completion handlers in memory always belong to a write in LevelDB.    *)
THEOREM HandlersHaveWrites == ClientSpec => []AwaitedIsQueued
<1>1. ClientInv => AwaitedIsQueued
  BY DEF ClientInv
<1> QED BY <1>1, ClientInvariant, PTL

(* Success is reported of landed writes only, whatever is lost or resent.    *)
THEOREM SuccessHasLanded == ClientSpec => []OkMeansLanded
<1>1. ClientInv => OkMeansLanded
  BY DEF ClientInv
<1> QED BY <1>1, ClientInvariant, PTL

(* A completion handler is dispatched once.                                  *)
THEOREM DispatchedOnce == ClientSpec => []CalledBackOnce
<1>1. ClientInv => CalledBackOnce
  BY DEF ClientInv
<1> QED BY <1>1, ClientInvariant, PTL

-----------------------------------------------------------------------------
(* Refinement: every step of the client is one of the promise or a stutter.  *)

LEMMA StepKeepsPromise ==
  ASSUME ClientInv, [ClientNext]_clientVars
  PROVE  [Promise!Next]_Promise!pvars
<1> USE DEF Promise!pvars
<1>1. ASSUME NEW w \in WriteIds, NEW d \in Users, Submit(w, d)
      PROVE  Promise!Next
  <2>1. Promise!Call(w)
    BY <1>1 DEF Submit, SetData, server, Promise!Call
  <2> QED BY <2>1 DEF Promise!Next
<1>2. ASSUME NEW u \in MaybeUser, ChangeUser(u)
      PROVE  UNCHANGED Promise!pvars
  BY <1>2 DEF ChangeUser
<1>3. ASSUME NEW u \in MaybeUser, ClientRelaunch(u)
      PROVE  Promise!Next
  <2>1. Promise!Forget
    BY <1>3 DEF ClientRelaunch, FsRelaunch, server, Promise!Forget
  <2> QED BY <2>1 DEF Promise!Next
<1>4. ASSUME RunCallback
      PROVE  Promise!Next
  <2> DEFINE cb == Head(callbacks)
  <2>1. /\ callbacks # <<>> /\ callbacks \in Seq(Callback)
        /\ outcome' = [outcome EXCEPT ![cb.id] = IF cb.ok THEN "ok" ELSE "failed"]
        /\ landed' = landed
    BY <1>4 DEF RunCallback, TakeCallback, server, ClientInv, FsTypeOK
  <2>2. 1 \in 1..Len(callbacks) /\ cb = callbacks[1] /\ cb \in Callback
    BY <2>1, TailFacts
  <2> HIDE DEF cb
  <2>3. /\ cb.id \in WriteIds /\ outcome[cb.id] = "asked"
        /\ cb.ok => cb.id \in landed
    BY <2>2 DEF ClientInv, AnsweredIsAsked, OkMeansLanded, Callback
  <2>4. Promise!Tell(cb.id)
    BY <2>1, <2>3 DEF Promise!Tell
  <2> QED BY <2>3, <2>4 DEF Promise!Next
<1>5. ASSUME ServerStores, UNCHANGED outcome
      PROVE  Promise!Next
  <2> DEFINE n == Len(responses)
             w == NextWrite.id
  <2>1. /\ fsUser \in MaybeUser /\ queue[fsUser] \in Seq(Write)
        /\ responses \in Seq({"ok", "denied"})
    BY DEF ClientInv, FsTypeOK
  <2>2. n + 1 \in 1..Len(queue[fsUser])
    BY <1>5, <2>1 DEF ServerStores, Unanswered
  <2>3. w \in Known \ Told
    BY <2>1, <2>2 DEF ClientInv, QueuedIsKnown, NextWrite
  <2>4. w \in WriteIds /\ outcome[w] \in {"asked", "forgotten"}
    BY <2>3 DEF Known, Told, ClientInv
  <2>5. landed' = landed \cup {w} /\ outcome' = outcome
    BY <1>5 DEF ServerStores
  <2>6. Promise!Land(w)
    BY <2>4, <2>5 DEF Promise!Land
  <2> QED BY <2>4, <2>6 DEF Promise!Next
<1>6. ASSUME ServerDenies \/ StreamBreaks \/ HandleResponse \/ CredentialChange,
             UNCHANGED outcome
      PROVE  UNCHANGED Promise!pvars
  BY <1>6 DEF ServerDenies, StreamBreaks, HandleResponse, CredentialChange, server
<1>7. CASE UNCHANGED clientVars
  BY <1>7 DEF clientVars, fsVars
<1> QED
  BY <1>1, <1>2, <1>3, <1>4, <1>5, <1>6, <1>7 DEF ClientNext, Silent, FsInternal

(* The Firestore client implements the promise of setData.                   *)
THEOREM ClientKeepsPromise == ClientSpec => KeepsPromise
<1>1. ClientInit => Promise!Init
  BY DEF ClientInit, FsInit, Promise!Init
<1> QED
  BY <1>1, ClientInvariant, StepKeepsPromise, PTL
  DEF ClientSpec, KeepsPromise, Promise!Spec

-----------------------------------------------------------------------------
(* No write that succeeded is overwritten by an older one: the argument is   *)
(* the order of the calls (MCFirestoreWrites!issued), which every queue      *)
(* keeps.                                                                    *)
(* The j-th call was not overwritten by an older one.                        *)
Fresh(j) ==
  \A i \in 1..Len(issued) :
    Older(i, j) => docs[issued[j].doc] # Data(issued[i].id)

(* The server has answered write w well: the answer is on its way, or with   *)
(* the completion, or with the caller.                                       *)
Granted(w) ==
  \/ outcome[w] = "ok"
  \/ \E k \in 1..Len(callbacks) : callbacks[k].ok /\ callbacks[k].id = w
  \/ \E k \in 1..Len(responses) : responses[k] = "ok" /\ queue[fsUser][k].id = w

(* Every call is known; what is queued was issued, by the user whose queue   *)
(* it is in.                                                                 *)
IssuedOnce ==
  /\ issued \in Seq([id : WriteIds, doc : Users, by : MaybeUser])
  /\ \A i \in 1..Len(issued) : issued[i].id \in Known
  /\ \A i, j \in 1..Len(issued) : issued[i].id = issued[j].id => i = j

QueuedWasIssued ==
  \A u \in MaybeUser : \A k \in 1..Len(queue[u]) :
    /\ queue[u][k].merge /\ queue[u][k].data = Data(queue[u][k].id)
    /\ \E j \in 1..Len(issued) :
         issued[j] = [id |-> queue[u][k].id, doc |-> queue[u][k].doc, by |-> u]

(* A queue holds the last of its user's calls, in their order.               *)
QueueInOrder ==
  \A u \in MaybeUser : \A k, l \in 1..Len(queue[u]) : \A i, j \in 1..Len(issued) :
    /\ k < l
    /\ issued[i].id = queue[u][k].id
    /\ issued[j].id = queue[u][l].id
    => i < j

QueueIsSuffix ==
  \A i, j \in 1..Len(issued) :
    /\ i < j
    /\ issued[i].by = issued[j].by
    /\ issued[i].id \in Ids(queue[issued[i].by])
    => issued[j].id \in Ids(queue[issued[i].by])

GrantedIsFresh ==
  \A j \in 1..Len(issued) : Granted(issued[j].id) => Fresh(j)

OrderInv ==
  IssuedOnce /\ QueuedWasIssued /\ QueueInOrder /\ QueueIsSuffix /\ GrantedIsFresh

(* Documents that differ in their writer differ.                             *)
LEMMA DataTells ==
  ASSUME NEW v, NEW w, v # w
  PROVE  Data(v) # Data(w)
BY ClientAssumption DEF Data

(* What is issued twice is the same call.                                    *)
LEMMA IssuedFacts ==
  ASSUME OrderInv, NEW i \in 1..Len(issued)
  PROVE  /\ issued[i].id \in WriteIds /\ issued[i].doc \in Users
         /\ issued[i].by \in MaybeUser
         /\ outcome[issued[i].id] # "new"
         /\ \A j \in 1..Len(issued) : issued[j].id = issued[i].id => j = i
<1> DEFINE Calls == [id : WriteIds, doc : Users, by : MaybeUser]
<1>1. issued \in Seq(Calls)
  BY DEF OrderInv, IssuedOnce
<1>2. issued[i] \in Calls
  <2> HIDE DEF Calls
  <2> QED BY <1>1
<1>3. issued[i].id \in Known /\ \A j \in 1..Len(issued) : issued[j].id = issued[i].id => j = i
  BY DEF OrderInv, IssuedOnce
<1> QED BY <1>2, <1>3 DEF Known

(* A step that applies and queues nothing.                                   *)
LEMMA OrderSame ==
  ASSUME OrderInv, UNCHANGED <<docs, queue, issued>>,
         \A w \in WriteIds : /\ outcome[w] # "new" => outcome'[w] # "new"
                             /\ Granted(w)' => Granted(w)
  PROVE  OrderInv'
<1>1. IssuedOnce'
  BY DEF OrderInv, IssuedOnce, Known
<1>2. QueuedWasIssued'
  BY DEF OrderInv, QueuedWasIssued
<1>3. QueueInOrder'
  BY DEF OrderInv, QueueInOrder
<1>4. QueueIsSuffix'
  BY DEF OrderInv, QueueIsSuffix, Ids
<1>5. GrantedIsFresh'
  <2> SUFFICES ASSUME NEW j \in 1..Len(issued), Granted(issued[j].id)'
               PROVE  Fresh(j)'
    BY DEF GrantedIsFresh
  <2>1. Fresh(j)
    BY IssuedFacts DEF OrderInv, GrantedIsFresh
  <2> QED BY <2>1 DEF Fresh, Older
<1> QED BY <1>1, <1>2, <1>3, <1>4, <1>5 DEF OrderInv

LEMMA SubmitOrder ==
  ASSUME ClientInv, OrderInv, NEW w \in WriteIds, NEW d \in Users, Submit(w, d),
         issued' = Append(issued, [id |-> w, doc |-> d, by |-> fsUser])
  PROVE  OrderInv'
<1> DEFINE new == [id |-> w, doc |-> d, data |-> Data(w), merge |-> TRUE]
           call == [id |-> w, doc |-> d, by |-> fsUser]
           Calls == [id : WriteIds, doc : Users, by : MaybeUser]
           n == Len(issued) + 1
           q == queue[fsUser]
           m == Len(q) + 1
<1>1. /\ outcome[w] = "new" /\ outcome' = [outcome EXCEPT ![w] = "asked"]
      /\ queue' = [queue EXCEPT ![fsUser] = Append(q, new)]
      /\ UNCHANGED <<docs, landed, fsUser, responses, callbacks>>
  BY DEF Submit, SetData, server
<1>2. /\ outcome \in [WriteIds -> {"new", "asked", "ok", "failed", "forgotten"}]
      /\ fsUser \in MaybeUser /\ queue \in [MaybeUser -> Seq(Write)]
      /\ issued \in Seq(Calls) /\ call \in Calls
  BY DEF ClientInv, FsTypeOK, OrderInv, IssuedOnce
<1>3. q \in Seq(Write) /\ new \in Write
  BY <1>2, DataFacts
<1> HIDE DEF new, call, q
<1>4. /\ issued' \in Seq(Calls) /\ Len(issued) \in Nat /\ Len(issued') = n
      /\ \A i \in 1..Len(issued) : issued'[i] = issued[i]
      /\ issued'[n] = call
  BY <1>2, AppendFacts DEF call
<1>5. /\ queue'[fsUser] = Append(q, new) /\ queue[fsUser] = q
      /\ Len(q) \in Nat /\ Len(queue'[fsUser]) = m
      /\ \A k \in 1..Len(q) : queue'[fsUser][k] = q[k]
      /\ queue'[fsUser][m] = new
      /\ \A u \in MaybeUser : u # fsUser => queue'[u] = queue[u]
  <2>1. queue'[fsUser] = Append(q, new) /\ queue[fsUser] = q
    BY <1>1, <1>2 DEF q
  <2> QED BY <1>1, <1>2, <1>3, <2>1, AppendFacts
<1>6. \A i \in 1..n : i \in 1..Len(issued) \/ i = n
  BY <1>4
<1>a. ASSUME NEW u \in MaybeUser, NEW k \in 1..Len(queue'[u])
      PROVE  \/ k \in 1..Len(queue[u]) /\ queue'[u][k] = queue[u][k]
             \/ u = fsUser /\ k = m
  BY <1>5
<1>b. ASSUME NEW u \in MaybeUser, NEW k \in 1..Len(queue'[u]),
             NEW l \in 1..Len(queue'[u]), k < l
      PROVE  k \in 1..Len(queue[u]) /\ queue'[u][k] = queue[u][k]
  <2>1. CASE u = fsUser
    <3>1. Len(queue'[u]) = Len(q) + 1 /\ Len(q) \in Nat /\ queue[u] = q
      BY <1>5, <2>1
    <3>2. k \in 1..Len(q)
      BY <1>b, <3>1
    <3>3. queue'[u][k] = q[k]
      BY <1>5, <2>1, <3>2
    <3> QED BY <3>1, <3>2, <3>3
  <2>2. CASE u # fsUser
    BY <1>5, <2>2
  <2> QED BY <2>1, <2>2
<1>7. call.id = w /\ call.doc = d /\ call.by = fsUser /\ n \in 1..n
  BY <1>4 DEF call
<1>8. \A i \in 1..Len(issued) : issued[i].id # w /\ issued[i].id \in WriteIds
  BY <1>1, IssuedFacts
<1>9. \A u \in MaybeUser : \A k \in 1..Len(queue[u]) :
        queue[u][k].id \in WriteIds /\ queue[u][k].id # w
  BY <1>1 DEF ClientInv, QueuedIsKnown, Known
<1>10. IssuedOnce'
  <2>1. \A i \in 1..n : issued'[i].id \in Known'
    BY <1>1, <1>2, <1>4, <1>6, <1>7, IssuedFacts DEF Known
  <2>2. \A i, j \in 1..n : issued'[i].id = issued'[j].id => i = j
    BY <1>4, <1>6, <1>7, <1>8, IssuedFacts
  <2> QED BY <1>4, <2>1, <2>2 DEF IssuedOnce
<1>11. QueuedWasIssued'
  <2> SUFFICES ASSUME NEW u \in MaybeUser, NEW k \in 1..Len(queue'[u])
               PROVE  /\ queue'[u][k].merge /\ queue'[u][k].data = Data(queue'[u][k].id)
                      /\ \E j \in 1..Len(issued') :
                           issued'[j] = [id |-> queue'[u][k].id,
                                         doc |-> queue'[u][k].doc, by |-> u]
    BY DEF QueuedWasIssued
  <2>1. CASE k \in 1..Len(queue[u]) /\ queue'[u][k] = queue[u][k]
    <3>1. /\ queue[u][k].merge /\ queue[u][k].data = Data(queue[u][k].id)
          /\ \E j \in 1..Len(issued) :
               issued[j] = [id |-> queue[u][k].id, doc |-> queue[u][k].doc, by |-> u]
      BY <2>1 DEF OrderInv, QueuedWasIssued
    <3>2. 1..Len(issued) \subseteq 1..n
      BY <1>4
    <3> QED BY <1>4, <2>1, <3>1, <3>2
  <2>2. CASE u = fsUser /\ k = m
    BY <1>4, <1>5, <1>7, <2>2 DEF new, call
  <2> QED BY <1>a, <2>1, <2>2
<1>12. QueueInOrder'
  <2> SUFFICES ASSUME NEW u \in MaybeUser, NEW k \in 1..Len(queue'[u]),
                      NEW l \in 1..Len(queue'[u]), NEW i \in 1..n, NEW j \in 1..n,
                      k < l, issued'[i].id = queue'[u][k].id,
                      issued'[j].id = queue'[u][l].id
               PROVE  i < j
    BY <1>4 DEF QueueInOrder
  <2>1. k \in 1..Len(queue[u]) /\ queue'[u][k] = queue[u][k]
    BY <1>b
  <2>2. i \in 1..Len(issued)
    BY <1>4, <1>6, <1>7, <1>9, <2>1
  <2>3. CASE l \in 1..Len(queue[u]) /\ queue'[u][l] = queue[u][l]
    <3>1. j \in 1..Len(issued)
      BY <1>4, <1>6, <1>7, <1>9, <2>3
    <3>2. issued[i].id = queue[u][k].id /\ issued[j].id = queue[u][l].id
      BY <1>4, <2>1, <2>2, <2>3, <3>1
    <3>3. QueueInOrder
      BY DEF OrderInv
    <3> QED BY <2>1, <2>2, <2>3, <3>1, <3>2, <3>3 DEF QueueInOrder
  <2>4. CASE u = fsUser /\ l = m
    <3>1. issued'[j].id = w
      BY <1>5, <2>4 DEF new
    <3>2. j = n
      BY <1>4, <1>6, <1>8, <3>1
    <3> QED BY <1>4, <2>2, <3>2
  <2> QED BY <1>a, <2>3, <2>4
<1>13. QueueIsSuffix'
  <2>1. \A u \in MaybeUser :
          Ids(queue'[u]) = Ids(queue[u]) \cup IF u = fsUser THEN {w} ELSE {}
    <3>1. 1..m = 1..Len(q) \cup {m} /\ new.id = w
      BY <1>5 DEF new
    <3>2. Ids(queue'[fsUser]) = Ids(queue[fsUser]) \cup {w}
      BY <1>5, <3>1 DEF Ids
    <3> QED BY <1>5, <3>2
  <2> SUFFICES ASSUME NEW i \in 1..n, NEW j \in 1..n, i < j,
                      issued'[i].by = issued'[j].by,
                      issued'[i].id \in Ids(queue'[issued'[i].by])
               PROVE  issued'[j].id \in Ids(queue'[issued'[i].by])
    BY <1>4 DEF QueueIsSuffix
  <2>2. i \in 1..Len(issued)
    BY <1>4
  <2>3. issued[i].by \in MaybeUser /\ issued[i].id # w
    BY <1>8, <2>2, IssuedFacts
  <2>4. CASE j \in 1..Len(issued)
    BY <1>4, <2>1, <2>2, <2>3, <2>4 DEF OrderInv, QueueIsSuffix
  <2>5. CASE j = n
    BY <1>4, <1>7, <2>1, <2>2, <2>3, <2>5
  <2> QED BY <1>6, <2>4, <2>5
<1>14. ASSUME NEW v \in WriteIds, Granted(v)'
       PROVE  v # w /\ Granted(v)
  <2>1. CASE outcome'[v] = "ok"
    BY <1>1, <1>2, <2>1 DEF Granted
  <2>2. CASE \E k \in 1..Len(callbacks) : callbacks[k].ok /\ callbacks[k].id = v
    BY <1>1, <2>2 DEF Granted, ClientInv, AnsweredIsAsked
  <2>3. CASE \E k \in 1..Len(responses) : responses[k] = "ok" /\ queue'[fsUser][k].id = v
    <3>1. Len(responses) <= Len(q) /\ Len(responses) \in Nat
      BY <1>5 DEF ClientInv, ResponsesMatch, FsTypeOK
    <3>2. PICK k \in 1..Len(responses) : responses[k] = "ok" /\ queue'[fsUser][k].id = v
      BY <2>3
    <3>3. k \in 1..Len(q) /\ queue'[fsUser][k] = queue[fsUser][k]
      BY <1>5, <3>1
    <3>4. k \in 1..Len(queue[fsUser])
      BY <1>5, <3>3
    <3> QED BY <1>2, <1>9, <3>2, <3>3, <3>4 DEF Granted
  <2>4. \/ outcome'[v] = "ok"
        \/ \E k \in 1..Len(callbacks) : callbacks[k].ok /\ callbacks[k].id = v
        \/ \E k \in 1..Len(responses) : responses[k] = "ok" /\ queue'[fsUser][k].id = v
    BY <1>1, <1>14 DEF Granted
  <2> QED BY <2>1, <2>2, <2>3, <2>4
<1>15. GrantedIsFresh'
  <2> SUFFICES ASSUME NEW j \in 1..n, Granted(issued[j].id)'
               PROVE  Fresh(j)'
    BY <1>4 DEF GrantedIsFresh
  <2>1. issued'[j].id \in WriteIds
    BY <1>4, <1>6, <1>7, <1>8
  <2>2. \A v \in WriteIds : issued'[j].id = v => Granted(v)'
    BY DEF Granted
  <2>3. issued'[j].id # w /\ \A v \in WriteIds : issued'[j].id = v => Granted(v)
    BY <1>14, <2>1, <2>2
  <2>4. j \in 1..Len(issued) /\ issued'[j] = issued[j]
    BY <1>4, <1>6, <1>7, <2>3
  <2>5. Fresh(j)
    BY <2>1, <2>3, <2>4 DEF OrderInv, GrantedIsFresh
  <2> SUFFICES ASSUME NEW i \in 1..n, Older(i, j)'
               PROVE  docs[issued[j].doc] # Data(issued'[i].id)
    BY <1>1, <1>4, <2>4 DEF Fresh
  <2>6. i \in 1..Len(issued) /\ issued'[i] = issued[i]
    BY <1>4, <2>4 DEF Older
  <2> QED BY <2>4, <2>5, <2>6 DEF Fresh, Older
<1> QED BY <1>10, <1>11, <1>12, <1>13, <1>15 DEF OrderInv

(* Within a queue, and after it left, a write is newer than those applied    *)
(* before: what the server applies is never older than what it granted.      *)
LEMMA NextIsNewer ==
  ASSUME ClientInv, OrderInv, Unanswered,
         NEW p \in 1..Len(issued), NEW j \in 1..Len(issued),
         issued[p].id = NextWrite.id, issued[p].by = fsUser,
         Older(p, j), Granted(issued[j].id)
  PROVE  FALSE
<1> DEFINE n == Len(responses)
           w == issued[j].id
<1>1. /\ fsUser \in MaybeUser /\ queue[fsUser] \in Seq(Write)
      /\ responses \in Seq({"ok", "denied"}) /\ n \in Nat
      /\ w \in WriteIds /\ issued[j].by = fsUser /\ p < j
  BY IssuedFacts DEF ClientInv, FsTypeOK, Older
<1>2. n + 1 \in 1..Len(queue[fsUser]) /\ NextWrite = queue[fsUser][n + 1]
  BY <1>1 DEF Unanswered, NextWrite
<1>3. w \in Ids(queue[fsUser])
  <2>1. issued[p].id \in Ids(queue[fsUser])
    BY <1>2 DEF Ids
  <2> QED BY <1>1, <2>1 DEF OrderInv, QueueIsSuffix
<1>4. PICK l \in 1..Len(queue[fsUser]) : queue[fsUser][l].id = w
  BY <1>3 DEF Ids
<1>5. CASE \E k \in 1..n : responses[k] = "ok" /\ queue[fsUser][k].id = w
  <2>1. PICK k \in 1..n : queue[fsUser][k].id = w
    BY <1>5
  <2>2. k \in 1..Len(queue[fsUser]) /\ k < n + 1
    BY <1>1, <1>2
  <2>3. j < p
    BY <1>1, <1>2, <2>1, <2>2 DEF OrderInv, QueueInOrder
  <2>4. p \in Nat /\ j \in Nat
    OBVIOUS
  <2> QED BY <1>1, <2>3, <2>4
<1>6. CASE outcome[w] = "ok" \/ \E k \in 1..Len(callbacks) : callbacks[k].ok /\ callbacks[k].id = w
  <2>1. w \in Told \cup Answered
    BY <1>1, <1>6 DEF Told, Answered
  <2>2. w \notin Told \cup Answered
    BY <1>1, <1>4 DEF ClientInv, QueuedIsKnown
  <2> QED BY <2>1, <2>2
<1> QED BY <1>5, <1>6 DEF Granted

(* The server applies a write: its document says so.                         *)
LEMMA StoreOrder ==
  ASSUME ClientInv, OrderInv, ServerStores, UNCHANGED <<outcome, issued>>
  PROVE  OrderInv'
<1> DEFINE n == Len(responses)
           w == NextWrite
<1>1. /\ Unanswered
      /\ docs' = [docs EXCEPT ![w.doc] = Apply(@, w)]
      /\ responses' = Append(responses, "ok")
      /\ UNCHANGED <<queue, fsUser, callbacks>>
  BY DEF ServerStores
<1>2. /\ fsUser \in MaybeUser /\ queue[fsUser] \in Seq(Write)
      /\ responses \in Seq({"ok", "denied"}) /\ n \in Nat
      /\ docs \in [Users -> Document]
  BY DEF ClientInv, FsTypeOK
<1>3. n + 1 \in 1..Len(queue[fsUser]) /\ w = queue[fsUser][n + 1] /\ w \in Write
  BY <1>1, <1>2 DEF Unanswered, NextWrite
<1> HIDE DEF w
<1>4. w.merge /\ w.data = Data(w.id) /\ w.id \in WriteIds /\ w.doc \in Users
  <2>1. w.id \in WriteIds /\ w.doc \in Users
    BY <1>3 DEF Write
  <2> QED BY <1>2, <1>3, <2>1 DEF OrderInv, QueuedWasIssued
<1>5. PICK p \in 1..Len(issued) : issued[p] = [id |-> w.id, doc |-> w.doc, by |-> fsUser]
  BY <1>2, <1>3 DEF OrderInv, QueuedWasIssued
<1>6. Apply(docs[w.doc], w) = Data(w.id)
  <2>1. \A f \in Fields : w.data[f] # Absent /\ w.data[f] = w.id
    BY <1>4, FirestoreAssumption, ClientAssumption DEF Data
  <2> QED BY <1>4, <2>1 DEF Apply, Data
<1>7. /\ docs'[w.doc] = Data(w.id)
      /\ \A d \in Users : d # w.doc => docs'[d] = docs[d]
  BY <1>1, <1>2, <1>4, <1>6
<1>8. IssuedOnce' /\ QueuedWasIssued' /\ QueueInOrder' /\ QueueIsSuffix'
  BY <1>1 DEF OrderInv, IssuedOnce, QueuedWasIssued, QueueInOrder, QueueIsSuffix, Known, Ids
<1>9. ASSUME NEW v \in WriteIds, Granted(v)'
      PROVE  v = w.id \/ Granted(v)
  <2>1. \A k \in 1..Len(responses') : (k \in 1..n /\ responses'[k] = responses[k]) \/ k = n + 1
    BY <1>1, <1>2
  <2> QED BY <1>1, <1>3, <1>9, <2>1 DEF Granted
<1>10. GrantedIsFresh'
  <2> SUFFICES ASSUME NEW j \in 1..Len(issued), Granted(issued[j].id)',
                      NEW i \in 1..Len(issued), Older(i, j)
               PROVE  docs'[issued[j].doc] # Data(issued[i].id)
    BY DEF GrantedIsFresh, Fresh, Older
  <2>1. issued[j].id \in WriteIds /\ issued[j].doc \in Users
    BY IssuedFacts
  <2>2. issued[j].id = w.id \/ Granted(issued[j].id)
    BY <1>9, <2>1
  <2>3. i # j /\ issued[i].id # issued[j].id
    <3>1. i # j
      BY DEF Older
    <3> QED BY <3>1, IssuedFacts
  <2>4. CASE issued[j].id = w.id
    <3>1. j = p
      BY <1>5, <2>4, IssuedFacts
    <3> QED BY <1>5, <1>7, <2>3, <2>4, <3>1, DataTells
  <2>5. CASE issued[j].id # w.id /\ Granted(issued[j].id)
    <3>1. docs[issued[j].doc] # Data(issued[i].id)
      BY <2>5 DEF OrderInv, GrantedIsFresh, Fresh
    <3>2. CASE issued[j].doc # w.doc
      BY <1>7, <2>1, <3>1, <3>2
    <3>3. CASE issued[j].doc = w.doc
      <4>1. issued[i].id # w.id
        <5>1. SUFFICES ASSUME issued[i].id = w.id PROVE FALSE
          OBVIOUS
        <5>2. i = p
          BY <1>5, <5>1, IssuedFacts
        <5>3. issued[i].by = fsUser /\ issued[i].id = NextWrite.id
          BY <1>5, <5>2 DEF w
        <5> QED BY <1>1, <2>5, <5>3, NextIsNewer
      <4> QED BY <1>7, <3>3, <4>1, DataTells
    <3> QED BY <3>2, <3>3
  <2> QED BY <2>2, <2>4, <2>5
<1> QED BY <1>8, <1>10 DEF OrderInv

(* An answer takes the front of a queue, the oldest write it holds.          *)
LEMMA HandleOrder ==
  ASSUME ClientInv, OrderInv, HandleResponse, UNCHANGED <<outcome, issued>>
  PROVE  OrderInv'
<1> DEFINE q == queue[fsUser]
           h == Head(q).id
<1>1. /\ responses # <<>>
      /\ queue' = [queue EXCEPT ![fsUser] = Tail(q)]
      /\ responses' = IF Head(responses) = "ok" THEN Tail(responses) ELSE <<>>
      /\ callbacks' = IF h \in waiting[fsUser]
                        THEN Append(callbacks, [id |-> h, ok |-> Head(responses) = "ok"])
                        ELSE callbacks
      /\ UNCHANGED <<docs, fsUser>>
  BY DEF HandleResponse, NotifyUser, server
<1>2. /\ fsUser \in MaybeUser /\ q \in Seq(Write) /\ q # <<>>
      /\ responses \in Seq({"ok", "denied"})
      /\ h = q[1].id /\ h \in WriteIds /\ queue \in [MaybeUser -> Seq(Write)]
      /\ callbacks \in Seq(Callback)
  BY <1>1, FrontFacts DEF ClientInv, FsTypeOK
<1> HIDE DEF h
<1>3. /\ queue'[fsUser] = Tail(q)
      /\ \A u \in MaybeUser : u # fsUser => queue'[u] = queue[u]
      /\ Len(Tail(q)) = Len(q) - 1 /\ Len(q) \in Nat \ {0}
      /\ \A k \in 1..Len(Tail(q)) : Tail(q)[k] = q[k + 1] /\ k + 1 \in 1..Len(q)
  BY <1>1, <1>2, TailFacts, TailElements
<1>a. ASSUME NEW u \in MaybeUser
      PROVE  /\ \A k \in 1..Len(queue'[u]) : \E m \in 1..Len(queue[u]) :
                  /\ queue'[u][k] = queue[u][m]
                  /\ m = IF u = fsUser THEN k + 1 ELSE k
             /\ Ids(queue'[u]) \subseteq Ids(queue[u])
  <2>1. \A k \in 1..Len(queue'[u]) : \E m \in 1..Len(queue[u]) :
          /\ queue'[u][k] = queue[u][m]
          /\ m = IF u = fsUser THEN k + 1 ELSE k
    BY <1>3
  <2> QED BY <2>1 DEF Ids
<1>4. IssuedOnce'
  BY DEF OrderInv, IssuedOnce, Known
<1>5. QueuedWasIssued'
  <2> SUFFICES ASSUME NEW u \in MaybeUser, NEW k \in 1..Len(queue'[u])
               PROVE  /\ queue'[u][k].merge /\ queue'[u][k].data = Data(queue'[u][k].id)
                      /\ \E j \in 1..Len(issued) :
                           issued[j] = [id |-> queue'[u][k].id,
                                        doc |-> queue'[u][k].doc, by |-> u]
    BY DEF QueuedWasIssued
  <2>1. PICK m \in 1..Len(queue[u]) : queue'[u][k] = queue[u][m]
    BY <1>a
  <2> QED BY <2>1 DEF OrderInv, QueuedWasIssued
<1>6. QueueInOrder'
  <2> SUFFICES ASSUME NEW u \in MaybeUser, NEW k \in 1..Len(queue'[u]),
                      NEW l \in 1..Len(queue'[u]), NEW i \in 1..Len(issued),
                      NEW j \in 1..Len(issued), k < l,
                      issued[i].id = queue'[u][k].id, issued[j].id = queue'[u][l].id
               PROVE  i < j
    BY DEF QueueInOrder
  <2>1. PICK m \in 1..Len(queue[u]) :
          queue'[u][k] = queue[u][m] /\ m = IF u = fsUser THEN k + 1 ELSE k
    BY <1>a
  <2>2. PICK o \in 1..Len(queue[u]) :
          queue'[u][l] = queue[u][o] /\ o = IF u = fsUser THEN l + 1 ELSE l
    BY <1>a
  <2>3. m < o
    BY <2>1, <2>2
  <2> QED BY <2>1, <2>2, <2>3 DEF OrderInv, QueueInOrder
<1>7. QueueIsSuffix'
  <2> SUFFICES ASSUME NEW i \in 1..Len(issued), NEW j \in 1..Len(issued), i < j,
                      issued[i].by = issued[j].by,
                      issued[i].id \in Ids(queue'[issued[i].by])
               PROVE  issued[j].id \in Ids(queue'[issued[i].by])
    BY DEF QueueIsSuffix
  <2> DEFINE u == issued[i].by
  <2>1. u \in MaybeUser /\ i \in Nat /\ j \in Nat
    BY IssuedFacts
  <2>2. issued[j].id \in Ids(queue[u])
    BY <1>a, <2>1 DEF OrderInv, QueueIsSuffix
  <2>3. CASE u # fsUser
    BY <1>3, <2>1, <2>2, <2>3
  <2>4. CASE u = fsUser
    <3>1. PICK l \in 1..Len(q) : q[l].id = issued[j].id
      BY <2>2, <2>4 DEF Ids
    <3>2. PICK k \in 1..Len(Tail(q)) : Tail(q)[k].id = issued[i].id
      BY <1>3, <2>4 DEF Ids
    <3>3. k + 1 \in 1..Len(q) /\ q[k + 1].id = issued[i].id /\ 1 \in 1..Len(q)
      BY <1>3, <3>2
    <3>4. l # 1
      <4>1. SUFFICES ASSUME l = 1 PROVE FALSE
        OBVIOUS
      <4>2. 1 < k + 1
        OBVIOUS
      <4>3. j < i
        BY <1>2, <3>1, <3>3, <4>1, <4>2 DEF OrderInv, QueueInOrder
      <4> QED BY <2>1, <4>3
    <3>5. l - 1 \in 1..Len(Tail(q)) /\ l - 1 + 1 = l
      BY <1>3, <3>4
    <3>6. Tail(q)[l - 1].id = issued[j].id
      BY <1>3, <3>1, <3>5
    <3> QED BY <1>3, <2>4, <3>5, <3>6 DEF Ids
  <2> QED BY <2>3, <2>4
<1>8. ASSUME NEW v \in WriteIds, Granted(v)'
      PROVE  Granted(v)
  <2>1. /\ responses[1] = Head(responses) /\ Len(responses) \in Nat \ {0}
        /\ \A k \in 1..Len(Tail(responses)) :
             k + 1 \in 1..Len(responses) /\ Tail(responses)[k] = responses[k + 1]
    BY <1>1, <1>2, TailFacts, TailElements
  <2>2. Head(responses) = "ok" => Granted(h)
    BY <1>2, <2>1 DEF Granted
  <2>3. CASE outcome[v] = "ok"
    BY <2>3 DEF Granted
  <2>4. CASE \E k \in 1..Len(callbacks') : callbacks'[k].ok /\ callbacks'[k].id = v
    <3>1. PICK k \in 1..Len(callbacks') : callbacks'[k].ok /\ callbacks'[k].id = v
      BY <2>4
    <3> DEFINE cb == [id |-> h, ok |-> Head(responses) = "ok"]
    <3>2. cb \in Callback /\ cb.id = h /\ (cb.ok => Head(responses) = "ok")
      BY <1>2 DEF Callback
    <3>3. callbacks' = Append(callbacks, cb) \/ callbacks' = callbacks
      BY <1>1
    <3> HIDE DEF cb
    <3>4. (k \in 1..Len(callbacks) /\ callbacks'[k] = callbacks[k]) \/ callbacks'[k] = cb
      BY <1>2, <3>2, <3>3, AppendElements
    <3>5. CASE callbacks'[k] = cb
      BY <2>2, <3>1, <3>2, <3>5
    <3>6. CASE k \in 1..Len(callbacks) /\ callbacks'[k] = callbacks[k]
      BY <3>1, <3>6 DEF Granted
    <3> QED BY <3>4, <3>5, <3>6
  <2>5. CASE \E k \in 1..Len(responses') : responses'[k] = "ok" /\ queue'[fsUser][k].id = v
    <3>1. PICK k \in 1..Len(responses') : responses'[k] = "ok" /\ queue'[fsUser][k].id = v
      BY <2>5
    <3>2. responses' = Tail(responses)
      BY <1>1, <3>1, EmptyFacts
    <3>3. k + 1 \in 1..Len(responses) /\ responses[k + 1] = "ok"
      BY <2>1, <3>1, <3>2
    <3>4. k \in 1..Len(Tail(q))
      <4>1. Len(responses) <= Len(q)
        BY DEF ClientInv, ResponsesMatch
      <4> QED BY <1>3, <2>1, <3>3, <4>1
    <3>5. queue[fsUser][k + 1].id = v
      BY <1>3, <3>1, <3>4
    <3> QED BY <3>3, <3>5 DEF Granted
  <2>6. \/ outcome[v] = "ok"
        \/ \E k \in 1..Len(callbacks') : callbacks'[k].ok /\ callbacks'[k].id = v
        \/ \E k \in 1..Len(responses') : responses'[k] = "ok" /\ queue'[fsUser][k].id = v
    BY <1>1, <1>8 DEF Granted
  <2> QED BY <2>3, <2>4, <2>5, <2>6
<1>9. GrantedIsFresh'
  <2> SUFFICES ASSUME NEW j \in 1..Len(issued), Granted(issued[j].id)'
               PROVE  Fresh(j)'
    BY DEF GrantedIsFresh
  <2>1. Granted(issued[j].id)
    BY <1>8, IssuedFacts
  <2> QED BY <1>1, <2>1 DEF OrderInv, GrantedIsFresh, Fresh, Older
<1> QED BY <1>4, <1>5, <1>6, <1>7, <1>9 DEF OrderInv

(* Steps that lose answers, or tell the caller.                              *)
LEMMA RestOrder ==
  ASSUME ClientInv, ClientInv', OrderInv, UNCHANGED issued,
         \/ /\ ServerDenies \/ StreamBreaks \/ CredentialChange
            /\ UNCHANGED outcome
         \/ \E u \in MaybeUser : ChangeUser(u) \/ ClientRelaunch(u)
         \/ UNCHANGED clientVars
  PROVE  OrderInv'
<1>1. /\ UNCHANGED <<docs, queue>>
      /\ callbacks' = callbacks \/ callbacks' = <<>>
      /\ \/ responses' = responses /\ fsUser' = fsUser
         \/ responses' = <<>>
         \/ responses' = Append(responses, "denied") /\ fsUser' = fsUser
  BY DEF ServerDenies, StreamBreaks, CredentialChange, ChangeUser, ClientRelaunch,
         FsRelaunch, server, clientVars, fsVars
<1>2. \A w \in WriteIds : /\ outcome[w] # "new" => outcome'[w] # "new"
                          /\ outcome'[w] = "ok" => outcome[w] = "ok"
  BY DEF ChangeUser, ClientRelaunch, clientVars
<1>3. responses \in Seq({"ok", "denied"}) /\ Len(<<>>) = 0
  BY DEF ClientInv, FsTypeOK
<1>4. \A k \in 1..Len(responses') : responses'[k] = "ok" =>
        k \in 1..Len(responses) /\ responses[k] = "ok" /\ fsUser' = fsUser
  <2>1. CASE responses' = Append(responses, "denied") /\ fsUser' = fsUser
    <3>1. \A k \in 1..Len(responses') :
            (k \in 1..Len(responses) /\ responses'[k] = responses[k]) \/ responses'[k] = "denied"
      BY <1>3, <2>1, AppendElements
    <3> QED BY <2>1, <3>1
  <2> QED BY <1>1, <1>3, <2>1
<1>5. \A w \in WriteIds : Granted(w)' => Granted(w)
  BY <1>1, <1>2, <1>3, <1>4 DEF Granted
<1> QED BY <1>1, <1>2, <1>5, OrderSame

LEMMA CallbackOrder ==
  ASSUME ClientInv, OrderInv, RunCallback, UNCHANGED issued
  PROVE  OrderInv'
<1> DEFINE cb == Head(callbacks)
<1>1. /\ callbacks # <<>> /\ callbacks' = Tail(callbacks)
      /\ outcome' = [outcome EXCEPT ![cb.id] = IF cb.ok THEN "ok" ELSE "failed"]
      /\ UNCHANGED <<docs, queue, fsUser, responses>>
  BY DEF RunCallback, TakeCallback, server
<1>2. /\ callbacks \in Seq(Callback)
      /\ outcome \in [WriteIds -> {"new", "asked", "ok", "failed", "forgotten"}]
  BY DEF ClientInv, FsTypeOK
<1>3. /\ Len(callbacks) \in Nat \ {0} /\ cb = callbacks[1] /\ cb \in Callback
      /\ \A k \in 1..Len(Tail(callbacks)) :
           k + 1 \in 1..Len(callbacks) /\ Tail(callbacks)[k] = callbacks[k + 1]
  BY <1>1, <1>2, TailFacts, TailElements
<1> HIDE DEF cb
<1>4. \A w \in WriteIds :
        outcome'[w] = IF w = cb.id THEN IF cb.ok THEN "ok" ELSE "failed" ELSE outcome[w]
  BY <1>1, <1>2
<1>5. cb.ok => Granted(cb.id)
  BY <1>3 DEF Granted
<1>6. ASSUME NEW w \in WriteIds, Granted(w)' PROVE Granted(w)
  <2>1. CASE outcome'[w] = "ok"
    BY <1>4, <1>5, <2>1 DEF Granted
  <2>2. CASE \E k \in 1..Len(callbacks') : callbacks'[k].ok /\ callbacks'[k].id = w
    BY <1>1, <1>3, <2>2 DEF Granted
  <2>3. CASE \E k \in 1..Len(responses) : responses[k] = "ok" /\ queue[fsUser][k].id = w
    BY <2>3 DEF Granted
  <2> QED BY <1>1, <1>6, <2>1, <2>2, <2>3 DEF Granted
<1>7. \A w \in WriteIds : outcome[w] # "new" => outcome'[w] # "new"
  BY <1>4
<1> QED BY <1>1, <1>6, <1>7, OrderSame

LEMMA OrderInit == Init => OrderInv
<1> SUFFICES ASSUME Init PROVE OrderInv
  OBVIOUS
<1>1. /\ issued = <<>> /\ Len(issued) = 0
      /\ \A u \in MaybeUser : queue[u] = <<>> /\ Len(queue[u]) = 0
  BY EmptyFacts DEF Init, ClientInit, FsInit
<1> QED BY <1>1 DEF OrderInv, IssuedOnce, QueuedWasIssued, QueueInOrder,
           QueueIsSuffix, GrantedIsFresh

LEMMA OrderStep == ClientInv /\ OrderInv /\ [Next]_vars => OrderInv'
<1> SUFFICES ASSUME ClientInv, OrderInv, [Next]_vars PROVE OrderInv'
  OBVIOUS
<1>1. ClientInv'
  BY NextInv DEF Next, ClientNext, vars
<1>2. CASE \E w \in WriteIds, d \in Users :
             Submit(w, d) /\ issued' = Append(issued, [id |-> w, doc |-> d, by |-> fsUser])
  BY <1>2, SubmitOrder
<1>3. CASE (\E u \in MaybeUser : ChangeUser(u) \/ ClientRelaunch(u)) /\ UNCHANGED issued
  BY <1>1, <1>3, RestOrder
<1>4. CASE RunCallback /\ UNCHANGED issued
  BY <1>4, CallbackOrder
<1>5. CASE Silent /\ UNCHANGED issued
  BY <1>1, <1>5, StoreOrder, HandleOrder, RestOrder DEF Silent, FsInternal
<1>6. CASE UNCHANGED vars
  BY <1>1, <1>6, RestOrder DEF vars
<1> QED BY <1>2, <1>3, <1>4, <1>5, <1>6 DEF Next

(* The server never goes back on a write that it acknowledged to the caller: *)
(* no resend, change of user or relaunch lets an older write of the same     *)
(* user overwrite it.                                                        *)
THEOREM SuccessStays == Spec => []NoStaleOverwrite
<1>1. Spec => ClientSpec
  <2>1. Init => ClientInit
    BY DEF Init
  <2>2. [Next]_vars => [ClientNext]_clientVars
    BY DEF Next, ClientNext, vars
  <2> QED BY <2>1, <2>2, PTL DEF Spec, ClientSpec
<1>2. Spec => []OrderInv
  BY <1>1, ClientInvariant, OrderInit, OrderStep, PTL DEF Spec
<1>3. OrderInv => NoStaleOverwrite
  BY DEF OrderInv, GrantedIsFresh, Granted, Fresh, NoStaleOverwrite
<1> QED BY <1>2, <1>3, PTL
=============================================================================
