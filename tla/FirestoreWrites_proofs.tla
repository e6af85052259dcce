------------------------ MODULE FirestoreWrites_proofs ------------------------
(***************************************************************************)
(* What each step of FirestoreWrites preserves and changes, for any users, *)
(* documents and writes: the part that the proofs about its callers share. *)
(***************************************************************************)
EXTENDS FirestoreWrites, TLAPS

-----------------------------------------------------------------------------
(* Facts about sequences, by position. *)

LEMMA AppendFacts ==
  ASSUME NEW S, NEW q \in Seq(S), NEW e \in S
  PROVE  /\ Append(q, e) \in Seq(S)
         /\ Len(q) \in Nat
         /\ Len(Append(q, e)) = Len(q) + 1
         /\ \A i \in 1..Len(q) : Append(q, e)[i] = q[i] /\ q[i] \in S
         /\ Append(q, e)[Len(q) + 1] = e
OBVIOUS

LEMMA TailFacts ==
  ASSUME NEW S, NEW q \in Seq(S), q # <<>>
  PROVE  /\ Tail(q) \in Seq(S)
         /\ Len(q) \in Nat \ {0}
         /\ Len(Tail(q)) = Len(q) - 1
         /\ \A i \in 1..Len(Tail(q)) : Tail(q)[i] = q[i + 1]
         /\ \A i \in 1..Len(q) : q[i] \in S
         /\ Head(q) = q[1] /\ Head(q) \in S
OBVIOUS

LEMMA EmptyFacts ==
  ASSUME NEW S
  PROVE  <<>> \in Seq(S) /\ Len(<<>>) = 0
OBVIOUS

(* The elements of a longer, and of a shorter sequence.                      *)
LEMMA AppendElements ==
  ASSUME NEW S, NEW q \in Seq(S), NEW e \in S, NEW i \in 1..Len(Append(q, e))
  PROVE  (i \in 1..Len(q) /\ Append(q, e)[i] = q[i]) \/ Append(q, e)[i] = e
<1>1. Len(q) \in Nat /\ Len(Append(q, e)) = Len(q) + 1
  BY AppendFacts
<1>2. i \in 1..Len(q) \/ i = Len(q) + 1
  BY <1>1
<1> QED BY <1>2, AppendFacts

LEMMA TailElements ==
  ASSUME NEW S, NEW q \in Seq(S), q # <<>>, NEW i \in 1..Len(Tail(q))
  PROVE  i + 1 \in 1..Len(q) /\ Tail(q)[i] = q[i + 1]
<1>1. Len(q) \in Nat \ {0} /\ Len(Tail(q)) = Len(q) - 1
  BY TailFacts
<1>2. i + 1 \in 1..Len(q)
  BY <1>1
<1> QED BY <1>2, TailFacts

(* A write stays a document's data.                                          *)
LEMMA ApplyFacts ==
  ASSUME NEW d \in Document, NEW w \in Write
  PROVE  Apply(d, w) \in Document
BY DEF Apply, Document, Write

-----------------------------------------------------------------------------
(* Answers on their way belong to the front of Firestore's queue, and good   *)
(* ones to writes the server has applied.                                    *)
AnswersMatch ==
  /\ Len(responses) <= Len(queue[fsUser])
  /\ \A i \in 1..Len(responses) : responses[i] = "ok" => queue[fsUser][i].id \in landed

FsInv == FsTypeOK /\ AnswersMatch /\ OkMeansLanded

(* w waits in somebody's queue.                                              *)
Queued(w) == \E u \in MaybeUser : \E i \in 1..Len(queue[u]) : queue[u][i] = w

(* What is queued is a write.                                                *)
LEMMA QueuedIsWrite ==
  ASSUME FsTypeOK, NEW w, Queued(w)
  PROVE  w \in Write
<1>1. PICK u \in MaybeUser : \E i \in 1..Len(queue[u]) : queue[u][i] = w
  BY DEF Queued
<1>2. queue[u] \in Seq(Write)
  BY DEF FsTypeOK
<1> QED BY <1>1, <1>2

(* Nothing is queued or dispatched at first.                                 *)
LEMMA FsInitFacts ==
  ASSUME NEW u \in MaybeUser, NEW c \in [Users -> Document], FsInit(u, c)
  PROVE  FsInv /\ \A w : ~Queued(w)
<1> USE DEF FsInit
<1>1. FsTypeOK
  BY EmptyFacts DEF FsTypeOK
<1>2. \A v \in MaybeUser : queue[v] = <<>> /\ Len(queue[v]) = 0
  BY EmptyFacts
<1>3. AnswersMatch /\ OkMeansLanded
  BY <1>2, EmptyFacts DEF AnswersMatch, OkMeansLanded
<1>4. \A w : ~Queued(w)
  BY <1>2 DEF Queued
<1> QED BY <1>1, <1>3, <1>4 DEF FsInv

(* setData queues the write for Firestore's user, and nothing else.          *)
LEMMA SetDataFacts ==
  ASSUME FsInv, NEW new \in Write, SetData(new)
  PROVE  /\ FsInv'
         /\ \A w : Queued(w)' => Queued(w) \/ w = new
         /\ UNCHANGED <<docs, landed, fsUser, credQ, callbacks>>
<1> DEFINE q == queue[fsUser]
           a == Append(q, new)
<1>1. fsUser \in MaybeUser /\ q \in Seq(Write) /\ queue \in [MaybeUser -> Seq(Write)]
  BY DEF FsInv, FsTypeOK
<1>2. /\ a \in Seq(Write) /\ Len(q) \in Nat /\ Len(a) = Len(q) + 1
      /\ \A i \in 1..Len(q) : a[i] = q[i]
  BY <1>1, AppendFacts
<1>3. \A i \in 1..Len(a) : (i \in 1..Len(q) /\ a[i] = q[i]) \/ a[i] = new
  BY <1>1, AppendElements
<1>4. /\ queue' = [queue EXCEPT ![fsUser] = a]
      /\ waiting' = [waiting EXCEPT ![fsUser] = @ \cup {new.id}]
      /\ UNCHANGED <<docs, landed, fsUser, credQ, responses, callbacks>>
  BY DEF SetData, server
<1> HIDE DEF a
<1>5. queue'[fsUser] = a /\ \A u \in MaybeUser : u # fsUser => queue'[u] = queue[u]
  BY <1>1, <1>4
<1>6. new.id \in WriteIds
  BY DEF Write
<1>7. FsTypeOK'
  BY <1>2, <1>4, <1>6 DEF FsInv, FsTypeOK
<1>8. AnswersMatch'
  <2>1. Len(responses) \in Nat /\ Len(responses) <= Len(q)
    BY DEF FsInv, FsTypeOK, AnswersMatch
  <2>2. \A i \in 1..Len(responses) : a[i] = q[i]
    BY <1>2, <2>1
  <2> QED BY <1>2, <1>4, <1>5, <2>1, <2>2 DEF FsInv, AnswersMatch
<1>9. OkMeansLanded'
  BY <1>4 DEF FsInv, OkMeansLanded
<1>10. \A w : Queued(w)' => Queued(w) \/ w = new
  BY <1>1, <1>3, <1>4, <1>5 DEF Queued
<1> QED BY <1>4, <1>7, <1>8, <1>9, <1>10 DEF FsInv

(* The server applies a write that is queued.                                *)
LEMMA StoresFacts ==
  ASSUME FsInv, ServerStores
  PROVE  /\ FsInv'
         /\ UNCHANGED <<queue, fsUser, credQ, callbacks>>
         /\ \E w \in Write :
              /\ Queued(w)
              /\ docs' = [docs EXCEPT ![w.doc] = Apply(docs[w.doc], w)]
              /\ landed' = landed \cup {w.id}
<1> DEFINE q == queue[fsUser]
           n == Len(responses)
<1>1. /\ fsUser \in MaybeUser /\ q \in Seq(Write) /\ responses \in Seq({"ok", "denied"})
      /\ docs \in [Users -> Document] /\ landed \subseteq WriteIds
  BY DEF FsInv, FsTypeOK
<1>2. /\ docs' = [docs EXCEPT ![NextWrite.doc] = Apply(docs[NextWrite.doc], NextWrite)]
      /\ landed' = landed \cup {NextWrite.id}
      /\ responses' = Append(responses, "ok")
      /\ UNCHANGED <<queue, fsUser, credQ, waiting, callbacks>>
  BY DEF ServerStores
<1>3. n \in Nat /\ Len(q) \in Nat /\ n < Len(q) /\ n + 1 \in 1..Len(q)
  BY <1>1 DEF ServerStores, Unanswered
<1>4. NextWrite \in Write /\ NextWrite = q[n + 1]
  BY <1>1, <1>3, AppendFacts DEF NextWrite
<1>5. /\ responses' \in Seq({"ok", "denied"}) /\ Len(responses') = n + 1
      /\ \A i \in 1..n : responses'[i] = responses[i]
  BY <1>1, <1>2, AppendFacts
<1>6. NextWrite.doc \in Users /\ NextWrite.id \in WriteIds
  BY <1>4 DEF Write
<1>7. docs' \in [Users -> Document]
  <2>1. Apply(docs[NextWrite.doc], NextWrite) \in Document
    BY <1>1, <1>4, <1>6, ApplyFacts
  <2> QED BY <1>1, <1>2, <2>1
<1>8. FsTypeOK'
  BY <1>1, <1>2, <1>5, <1>6, <1>7 DEF FsInv, FsTypeOK
<1>9. AnswersMatch'
  <2>1. \A i \in 1..n : responses[i] = "ok" => q[i].id \in landed
    BY DEF FsInv, AnswersMatch
  <2>2. \A i \in 1..(n + 1) : i \in 1..n \/ i = n + 1
    BY <1>3
  <2>3. \A i \in 1..(n + 1) : responses'[i] = "ok" => q[i].id \in landed'
    BY <1>2, <1>4, <1>5, <2>1, <2>2
  <2> QED BY <1>2, <1>3, <1>5, <2>3 DEF AnswersMatch
<1>10. OkMeansLanded'
  BY <1>2 DEF FsInv, OkMeansLanded
<1>11. Queued(NextWrite)
  BY <1>1, <1>3, <1>4 DEF Queued
<1> QED BY <1>2, <1>4, <1>8, <1>9, <1>10, <1>11 DEF FsInv

(* The server refuses a write, or answers are lost.                          *)
LEMMA DeniesFacts ==
  ASSUME FsInv, ServerDenies \/ StreamBreaks
  PROVE  FsInv' /\ UNCHANGED <<docs, landed, queue, fsUser, credQ, callbacks>>
<1>1. fsUser \in MaybeUser /\ responses \in Seq({"ok", "denied"}) /\ queue[fsUser] \in Seq(Write)
  BY DEF FsInv, FsTypeOK
<1>2. UNCHANGED <<docs, landed, queue, fsUser, credQ, waiting, callbacks>>
  BY DEF ServerDenies, StreamBreaks, server
<1>3. /\ responses' \in Seq({"ok", "denied"})
      /\ Len(responses') <= Len(queue[fsUser])
      /\ \A i \in 1..Len(responses') : responses'[i] = "ok" => queue[fsUser][i].id \in landed
  <2>1. CASE ServerDenies
    <3>1. Len(responses) < Len(queue[fsUser]) /\ responses' = Append(responses, "denied")
      BY <2>1 DEF ServerDenies, Unanswered
    <3>2. /\ responses' \in Seq({"ok", "denied"})
          /\ Len(responses) \in Nat /\ Len(responses') = Len(responses) + 1
      BY <1>1, <3>1, AppendFacts
    <3>3. \A i \in 1..Len(responses') :
            (i \in 1..Len(responses) /\ responses'[i] = responses[i]) \/ responses'[i] = "denied"
      BY <1>1, <3>1, AppendElements
    <3>4. Len(queue[fsUser]) \in Nat
      BY <1>1
    <3> QED BY <3>1, <3>2, <3>3, <3>4 DEF FsInv, AnswersMatch
  <2>2. CASE StreamBreaks
    <3>1. responses' = <<>>
      BY <2>2 DEF StreamBreaks
    <3> QED BY <1>1, <3>1, EmptyFacts
  <2> QED BY <2>1, <2>2
<1>4. FsTypeOK'
  BY <1>2, <1>3 DEF FsInv, FsTypeOK
<1>5. AnswersMatch' /\ OkMeansLanded'
  BY <1>2, <1>3 DEF FsInv, AnswersMatch, OkMeansLanded
<1> QED BY <1>2, <1>4, <1>5 DEF FsInv

(* A handled answer takes a write out of the queue and may dispatch its      *)
(* completion, without error only if the server has the write.               *)
LEMMA HandleFacts ==
  ASSUME FsInv, HandleResponse
  PROVE  /\ FsInv'
         /\ UNCHANGED <<docs, landed, fsUser, credQ>>
         /\ \A w : Queued(w)' => Queued(w)
<1> DEFINE q == queue[fsUser]
           t == Tail(q)
           id == Head(q).id
           ok == Head(responses) = "ok"
           cb == [id |-> id, ok |-> ok]
           more == Append(callbacks, cb)
           rest == Tail(responses)
<1>1. /\ responses # <<>>
      /\ callbacks' = IF id \in waiting[fsUser] THEN more ELSE callbacks
      /\ waiting' = [waiting EXCEPT ![fsUser] = @ \ {id}]
      /\ queue' = [queue EXCEPT ![fsUser] = t]
      /\ responses' = IF ok THEN rest ELSE <<>>
      /\ UNCHANGED <<docs, landed, fsUser, credQ>>
  BY DEF HandleResponse, NotifyUser, server
<1>2. /\ fsUser \in MaybeUser /\ q \in Seq(Write) /\ queue \in [MaybeUser -> Seq(Write)]
      /\ responses \in Seq({"ok", "denied"}) /\ callbacks \in Seq(Callback)
      /\ waiting \in [MaybeUser -> SUBSET WriteIds]
  BY DEF FsInv, FsTypeOK
<1>3. Len(responses) \in Nat \ {0} /\ Len(responses) <= Len(q)
  BY <1>1, <1>2, TailFacts DEF FsInv, AnswersMatch
<1>4. q # <<>>
  BY <1>3, EmptyFacts
<1>5. /\ t \in Seq(Write) /\ Len(q) \in Nat \ {0} /\ Len(t) = Len(q) - 1
      /\ \A i \in 1..Len(t) : i + 1 \in 1..Len(q) /\ t[i] = q[i + 1]
      /\ Head(q) = q[1] /\ Head(q) \in Write
  BY <1>2, <1>4, TailFacts, TailElements
<1>6. id \in WriteIds /\ ok \in BOOLEAN
  BY <1>5 DEF Write
<1>7. cb \in Callback
  BY <1>6 DEF Callback
<1>8. /\ rest \in Seq({"ok", "denied"}) /\ Len(rest) = Len(responses) - 1
      /\ \A i \in 1..Len(rest) : i + 1 \in 1..Len(responses) /\ rest[i] = responses[i + 1]
      /\ Head(responses) = responses[1] /\ 1 \in 1..Len(responses)
  BY <1>1, <1>2, <1>3, TailFacts, TailElements
<1>9. ok => id \in landed
  BY <1>5, <1>8 DEF FsInv, AnswersMatch
<1>10. more \in Seq(Callback)
  BY <1>2, <1>7, AppendFacts
<1>11. \A i \in 1..Len(more) : (i \in 1..Len(callbacks) /\ more[i] = callbacks[i]) \/ more[i] = cb
  BY <1>2, <1>7, AppendElements
<1>12. cb.id = id /\ cb.ok = ok
  OBVIOUS
<1> HIDE DEF t, id, cb, more, rest
<1>13. queue'[fsUser] = t /\ \A u \in MaybeUser : u # fsUser => queue'[u] = queue[u]
  BY <1>1, <1>2
<1>14. callbacks' \in Seq(Callback) /\ responses' \in Seq({"ok", "denied"})
  BY <1>1, <1>2, <1>8, <1>10, EmptyFacts
<1>15. FsTypeOK'
  <2>1. queue' \in [MaybeUser -> Seq(Write)] /\ waiting' \in [MaybeUser -> SUBSET WriteIds]
    BY <1>1, <1>2, <1>5
  <2> QED BY <1>1, <1>14, <2>1 DEF FsInv, FsTypeOK
<1>16. AnswersMatch'
  <2>1. CASE ~ok
    <3>1. responses' = <<>>
      BY <1>1, <2>1
    <3> QED BY <1>1, <1>5, <1>13, <3>1, EmptyFacts DEF AnswersMatch
  <2>2. CASE ok
    <3>1. responses' = rest
      BY <1>1, <2>2
    <3>2. Len(rest) <= Len(t)
      BY <1>3, <1>5, <1>8
    <3>3. \A i \in 1..Len(rest) : rest[i] = "ok" => t[i].id \in landed
      <4> SUFFICES ASSUME NEW i \in 1..Len(rest), rest[i] = "ok" PROVE t[i].id \in landed
        OBVIOUS
      <4>1. i \in 1..Len(t)
        BY <1>3, <1>5, <1>8
      <4>2. i + 1 \in 1..Len(responses) /\ responses[i + 1] = "ok" /\ t[i] = q[i + 1]
        BY <1>5, <1>8, <4>1
      <4> QED BY <4>2 DEF FsInv, AnswersMatch
    <3> QED BY <1>1, <1>13, <3>1, <3>2, <3>3 DEF AnswersMatch
  <2> QED BY <2>1, <2>2
<1>17. OkMeansLanded'
  BY <1>1, <1>9, <1>11, <1>12 DEF FsInv, OkMeansLanded
<1>18. \A w : Queued(w)' => Queued(w)
  <2> SUFFICES ASSUME NEW w, Queued(w)' PROVE Queued(w)
    OBVIOUS
  <2>1. PICK u \in MaybeUser : \E i \in 1..Len(queue'[u]) : queue'[u][i] = w
    BY DEF Queued
  <2>2. CASE u = fsUser
    <3>1. PICK i \in 1..Len(t) : t[i] = w
      BY <1>13, <2>1, <2>2
    <3>2. i + 1 \in 1..Len(q) /\ q[i + 1] = w
      BY <1>5, <3>1
    <3> QED BY <1>2, <3>2 DEF Queued
  <2>3. CASE u # fsUser
    BY <1>13, <2>1, <2>3 DEF Queued
  <2> QED BY <2>2, <2>3
<1> QED BY <1>1, <1>15, <1>16, <1>17, <1>18 DEF FsInv

(* Firestore changes its user.                                               *)
LEMMA CredentialFacts ==
  ASSUME FsInv, CredentialChange
  PROVE  FsInv' /\ UNCHANGED <<docs, landed, queue, callbacks>>
<1>1. /\ credQ # <<>> /\ fsUser' = Head(credQ) /\ credQ' = Tail(credQ) /\ responses' = <<>>
      /\ UNCHANGED <<docs, landed, queue, waiting, callbacks>>
  BY DEF CredentialChange, server
<1>2. fsUser' \in MaybeUser /\ credQ' \in Seq(MaybeUser)
  <2>1. credQ \in Seq(MaybeUser)
    BY DEF FsInv, FsTypeOK
  <2> QED BY <1>1, <2>1, TailFacts
<1>3. FsTypeOK'
  BY <1>1, <1>2, EmptyFacts DEF FsInv, FsTypeOK
<1>4. AnswersMatch'
  <2>1. Len(queue[fsUser']) \in Nat
    BY <1>2 DEF FsInv, FsTypeOK
  <2> QED BY <1>1, <2>1, EmptyFacts DEF AnswersMatch
<1> QED BY <1>1, <1>3, <1>4 DEF FsInv, OkMeansLanded

(* A completion runs: without error only if the server has its write.        *)
LEMMA TakeFacts ==
  ASSUME FsInv, TakeCallback
  PROVE  /\ FsInv'
         /\ UNCHANGED <<docs, landed, queue, fsUser, credQ>>
         /\ Head(callbacks) \in Callback
         /\ Head(callbacks).ok => Head(callbacks).id \in landed
<1> DEFINE rest == Tail(callbacks)
<1>1. /\ callbacks # <<>> /\ callbacks' = rest
      /\ UNCHANGED <<docs, landed, queue, fsUser, credQ, waiting, responses>>
  BY DEF TakeCallback, server
<1>2. callbacks \in Seq(Callback)
  BY DEF FsInv, FsTypeOK
<1>3. /\ rest \in Seq(Callback) /\ Len(callbacks) \in Nat \ {0}
      /\ \A i \in 1..Len(rest) : i + 1 \in 1..Len(callbacks) /\ rest[i] = callbacks[i + 1]
      /\ Head(callbacks) = callbacks[1] /\ Head(callbacks) \in Callback
  BY <1>1, <1>2, TailFacts, TailElements
<1> HIDE DEF rest
<1>4. FsTypeOK'
  BY <1>1, <1>3 DEF FsInv, FsTypeOK
<1>5. AnswersMatch' /\ OkMeansLanded'
  BY <1>1, <1>3 DEF FsInv, AnswersMatch, OkMeansLanded
<1>6. Head(callbacks).ok => Head(callbacks).id \in landed
  BY <1>3 DEF FsInv, OkMeansLanded
<1> QED BY <1>1, <1>3, <1>4, <1>5, <1>6 DEF FsInv

(* The process dies: what is in memory is gone.                              *)
LEMMA RelaunchFacts ==
  ASSUME FsInv, NEW u \in MaybeUser, FsRelaunch(u)
  PROVE  FsInv' /\ UNCHANGED <<docs, landed, queue>>
<1>1. /\ fsUser' = u /\ credQ' = <<>> /\ waiting' = [v \in MaybeUser |-> {}]
      /\ responses' = <<>> /\ callbacks' = <<>>
      /\ UNCHANGED <<docs, landed, queue>>
  BY DEF FsRelaunch, server
<1>2. FsTypeOK'
  BY <1>1, EmptyFacts DEF FsInv, FsTypeOK
<1>3. AnswersMatch' /\ OkMeansLanded'
  <2>1. Len(queue[u]) \in Nat
    BY DEF FsInv, FsTypeOK
  <2> QED BY <1>1, <2>1, EmptyFacts DEF AnswersMatch, OkMeansLanded
<1> QED BY <1>1, <1>2, <1>3 DEF FsInv

(* FIRAuth posts a user, or nothing happens to Firestore.                    *)
LEMMA PostFacts ==
  ASSUME FsInv, NEW u \in MaybeUser, PostCredential(u),
         UNCHANGED <<docs, landed, queue, fsUser, waiting, responses, callbacks>>
  PROVE  FsInv'
<1>1. credQ' \in Seq(MaybeUser)
  BY AppendFacts DEF FsInv, FsTypeOK, PostCredential
<1> QED BY <1>1 DEF FsInv, FsTypeOK, AnswersMatch, OkMeansLanded

LEMMA StillFacts ==
  ASSUME FsInv, UNCHANGED fsVars
  PROVE  FsInv'
BY DEF FsInv, FsTypeOK, AnswersMatch, OkMeansLanded, fsVars
=============================================================================
