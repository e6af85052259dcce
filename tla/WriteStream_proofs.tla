-------------------------- MODULE WriteStream_proofs --------------------------
(***************************************************************************)
(* No write is sent as another user, for any users, pipeline and number of *)
(* changes.  The argument follows the queues: whoever is told of a change  *)
(* is told before anything that was done after it.                         *)
(***************************************************************************)
EXTENDS WriteStream, FiniteSetTheorems, TLAPS

(* Before position i of q, which says who the user is in tasks of one kind,  *)
(* u is the user, if base was before q.                                      *)
UserAt(q, kind, i, base, u) ==
  \/ \E j \in 1..(i - 1) :
       /\ q[j].kind = kind
       /\ q[j].user = u
       /\ \A k \in (j + 1)..(i - 1) : q[k].kind # kind
  \/ /\ u = base
     /\ \A k \in 1..(i - 1) : q[k].kind # kind

(* At the head of the queue the user is the base.                            *)
LEMMA UserAtHead ==
  ASSUME NEW q, NEW kind, NEW base, NEW u, UserAt(q, kind, 1, base, u)
  PROVE  u = base
BY DEF UserAt

(* What joins the queue changes nothing before it.                           *)
LEMMA UserAtAppend ==
  ASSUME NEW S, NEW q \in Seq(S), NEW e \in S, NEW kind, NEW base, NEW u,
         NEW i \in 1..(Len(q) + 1), UserAt(q, kind, i, base, u)
  PROVE  UserAt(Append(q, e), kind, i, base, u)
<1>1. \A j \in 1..(i - 1) : Append(q, e)[j] = q[j]
  OBVIOUS
<1>2. CASE u = base /\ \A k \in 1..(i - 1) : q[k].kind # kind
  BY <1>1, <1>2 DEF UserAt
<1>3. CASE \E j \in 1..(i - 1) : /\ q[j].kind = kind
                                 /\ q[j].user = u
                                 /\ \A k \in (j + 1)..(i - 1) : q[k].kind # kind
  <2>1. PICK j \in 1..(i - 1) : /\ q[j].kind = kind
                                /\ q[j].user = u
                                /\ \A k \in (j + 1)..(i - 1) : q[k].kind # kind
    BY <1>3
  <2>2. \A k \in (j + 1)..(i - 1) : k \in 1..(i - 1)
    OBVIOUS
  <2> QED BY <1>1, <2>1, <2>2 DEF UserAt
<1> QED BY <1>2, <1>3 DEF UserAt

(* Behind a task of the kind its user is the user, behind another the same.  *)
LEMMA UserAtEnd ==
  ASSUME NEW S, NEW q \in Seq(S), NEW e \in S, NEW kind, NEW base
  PROVE  /\ e.kind = kind => UserAt(Append(q, e), kind, Len(q) + 2, base, e.user)
         /\ \A u : e.kind # kind /\ UserAt(q, kind, Len(q) + 1, base, u)
                     => UserAt(Append(q, e), kind, Len(q) + 2, base, u)
<1>1. /\ Append(q, e)[Len(q) + 1] = e
      /\ \A j \in 1..Len(q) : Append(q, e)[j] = q[j]
      /\ Len(q) \in Nat
  OBVIOUS
<1>2. ASSUME e.kind = kind
      PROVE  UserAt(Append(q, e), kind, Len(q) + 2, base, e.user)
  <2>1. Len(q) + 1 \in 1..(Len(q) + 2 - 1)
    BY <1>1
  <2>2. \A k \in (Len(q) + 1 + 1)..(Len(q) + 2 - 1) : FALSE
    BY <1>1
  <2> QED BY <1>1, <1>2, <2>1, <2>2 DEF UserAt
<1>3. ASSUME NEW u, e.kind # kind, UserAt(q, kind, Len(q) + 1, base, u)
      PROVE  UserAt(Append(q, e), kind, Len(q) + 2, base, u)
  <2>1. CASE u = base /\ \A k \in 1..Len(q) : q[k].kind # kind
    BY <1>1, <1>3, <2>1 DEF UserAt
  <2>2. CASE \E j \in 1..Len(q) : /\ q[j].kind = kind
                                  /\ q[j].user = u
                                  /\ \A k \in (j + 1)..Len(q) : q[k].kind # kind
    <3>1. PICK j \in 1..Len(q) : /\ q[j].kind = kind
                                 /\ q[j].user = u
                                 /\ \A k \in (j + 1)..Len(q) : q[k].kind # kind
      BY <2>2
    <3>2. \A k \in (j + 1)..(Len(q) + 1) : k = Len(q) + 1 \/ k \in (j + 1)..Len(q)
      BY <1>1
    <3>3. \A k \in (j + 1)..(Len(q) + 1) : Append(q, e)[k].kind # kind
      BY <1>1, <1>3, <3>1, <3>2
    <3>4. j \in 1..(Len(q) + 2 - 1) /\ Len(q) + 2 - 1 = Len(q) + 1
      BY <1>1, <3>1
    <3>5. Append(q, e)[j].kind = kind /\ Append(q, e)[j].user = u
      BY <1>1, <3>1
    <3> QED BY <3>3, <3>4, <3>5 DEF UserAt
  <2> QED BY <1>1, <1>3, <2>1, <2>2 DEF UserAt
<1> QED BY <1>2, <1>3

(* Taking the head: if it is of the kind, its user is the new base.          *)
LEMMA UserAtTail ==
  ASSUME NEW S, NEW q \in Seq(S), q # <<>>, NEW kind, NEW base, NEW u,
         NEW i \in 2..(Len(q) + 1), UserAt(q, kind, i, base, u)
  PROVE  UserAt(Tail(q), kind, i - 1,
                IF Head(q).kind = kind THEN Head(q).user ELSE base, u)
<1>1. /\ Len(q) \in Nat /\ Head(q) = q[1]
      /\ \A j \in 1..(i - 2) : Tail(q)[j] = q[j + 1]
  OBVIOUS
<1>2. CASE u = base /\ \A k \in 1..(i - 1) : q[k].kind # kind
  BY <1>1, <1>2 DEF UserAt
<1>3. CASE \E j \in 1..(i - 1) : /\ q[j].kind = kind
                                 /\ q[j].user = u
                                 /\ \A k \in (j + 1)..(i - 1) : q[k].kind # kind
  <2>1. PICK j \in 1..(i - 1) : /\ q[j].kind = kind
                                /\ q[j].user = u
                                /\ \A k \in (j + 1)..(i - 1) : q[k].kind # kind
    BY <1>3
  <2>2. CASE j = 1
    <3>1. \A k \in 1..(i - 2) : Tail(q)[k].kind # kind
      BY <1>1, <2>1, <2>2
    <3> QED BY <1>1, <2>1, <2>2, <3>1 DEF UserAt
  <2>3. CASE j > 1
    <3>1. j - 1 \in 1..(i - 2) /\ Tail(q)[j - 1] = q[j]
      BY <1>1, <2>3
    <3>2. \A k \in j..(i - 2) : Tail(q)[k].kind # kind
      BY <1>1, <2>1, <2>3
    <3> QED BY <2>1, <2>3, <3>1, <3>2 DEF UserAt
  <2> QED BY <2>2, <2>3
<1> QED BY <1>2, <1>3 DEF UserAt
-----------------------------------------------------------------------------
LEMMA StartSound ==
  ASSUME NEW s \in Streams, NEW p
  PROVE  LET f == StartIfNeeded([s |-> s, p |-> p])
         IN /\ f.s \in Streams
            /\ f.p = p
            /\ f.s.token = s.token
            /\ f.s.sent = s.sent
            /\ f.s.handshake = s.handshake
            /\ f.s.state = "Open" <=> s.state = "Open"
<1> DEFINE r == [s |-> s, p |-> p]
<1>1. CASE ~ShouldStart(r)
  BY <1>1 DEF StartIfNeeded
<1>2. CASE ShouldStart(r)
  <2>1. s.state # "Open"
    BY <1>2 DEF ShouldStart, Started
  <2>2. Start(r) = [s |-> [s EXCEPT !.state = IF @ = "Error" THEN "Backoff"
                                                             ELSE "Starting"],
                    p |-> p]
    BY DEF Start
  <2> HIDE DEF r
  <2> QED BY <1>2, <2>1, <2>2 DEF StartIfNeeded, Streams, r
<1> QED BY <1>1, <1>2

(* Filling a pipeline that is the front of u's queue keeps it so, and sends  *)
(* what joins it if the stream can.                                          *)
LEMMA FillSound ==
  ASSUME NEW s \in Streams, NEW p \in Seq(People), NEW n \in Nat, NEW u \in People,
         Len(p) <= Smaller(n, MaxPipeline),
         \A i \in 1..Len(p) : p[i] = u,
         s.sent = IF s.handshake /\ s.state = "Open" THEN Len(p) ELSE 0
  PROVE  LET f == Fill([s |-> s, p |-> p], n, u)
         IN /\ f.s \in Streams
            /\ f.p \in Seq(People)
            /\ \A i \in 1..Len(f.p) : f.p[i] = u
            /\ Len(f.p) = Smaller(n, MaxPipeline)
            /\ f.s.token = s.token
            /\ f.s.handshake = s.handshake
            /\ f.s.state = "Open" <=> s.state = "Open"
            /\ f.s.sent = IF s.handshake /\ s.state = "Open" THEN Len(f.p) ELSE 0
<1> DEFINE size == Larger(Len(p), Smaller(n, MaxPipeline))
           sends == IF s.state = "Open" /\ s.handshake THEN size - Len(p) ELSE 0
           fp == [i \in 1..size |-> IF i <= Len(p) THEN p[i] ELSE u]
           fs == [s EXCEPT !.sent = @ + sends,
                           !.idle = \/ @ /\ sends = 0
                                    \/ s.state = "Open" /\ size = 0]
<1>1. Fill([s |-> s, p |-> p], n, u) = StartIfNeeded([s |-> fs, p |-> fp])
  BY DEF Fill
<1>2. size = Smaller(n, MaxPipeline) /\ size \in Nat /\ size >= Len(p)
  BY StreamAssumption DEF Larger, Smaller
<1>3. fp \in Seq(People) /\ Len(fp) = size /\ \A i \in 1..size : fp[i] = u
  <2>1. \A i \in 1..size : fp[i] = u
    BY <1>2
  <2>2. fp \in [1..size -> People]
    BY <1>2, <2>1
  <2> QED BY <1>2, <2>1, <2>2
<1>4. /\ fs.token = s.token /\ fs.handshake = s.handshake /\ fs.state = s.state
      /\ fs.sent = s.sent + sends
  BY DEF Streams
<1>5. sends \in Nat /\ fs.sent \in Nat
  BY <1>2, <1>4 DEF Streams
<1>6. fs \in Streams
  <2>1. fs.idle \in BOOLEAN
    BY DEF Streams
  <2> QED BY <1>4, <1>5, <2>1 DEF Streams
<1>7. fs.sent = IF s.handshake /\ s.state = "Open" THEN Len(fp) ELSE 0
  BY <1>2, <1>3, <1>4 DEF Streams
<1> HIDE DEF fs, fp, size, sends
<1> QED BY <1>1, <1>2, <1>3, <1>4, <1>6, <1>7, StartSound
-----------------------------------------------------------------------------
(* The last notice sent is FIRAuth's user, the last credential change the    *)
(* provider's.  A token on the worker queue is its user's there, and so is a *)
(* write.                                                                    *)
MainHears == UserAt(main, "notice", Len(main) + 1, provider, authUser)

WorkerHears == UserAt(worker, "credential", Len(worker) + 1, user, provider)

TokensFollow ==
  \A i \in 1..Len(worker) : worker[i].kind = "token" /\ worker[i].owner # Failed
    => UserAt(worker, "credential", i, user, worker[i].owner)

WritesFollow ==
  \A i \in 1..Len(worker) : worker[i].kind = "write"
    => UserAt(worker, "credential", i, user, worker[i].user)

(* A token that was asked for since the last change is the provider's user's *)
(* unless FIRAuth's next notice is ahead of its answer.                      *)
NoNotice(i) == \A j \in 1..i : main[j].kind # "notice"

RequestsFollow ==
  \A r \in requests :
    /\ r.counter <= counter
    /\ r.counter = counter /\ r.owner # Unread /\ NoNotice(Len(main))
         => r.owner = provider

RepliesFollow ==
  \A i \in 1..Len(main) : main[i].kind = "reply" =>
    /\ main[i].counter <= counter
    /\ main[i].counter = counter /\ main[i].owner # Failed /\ NoNotice(i - 1)
         => main[i].owner = provider

Queues ==
  /\ MainHears /\ WorkerHears
  /\ TokensFollow /\ WritesFollow
  /\ RequestsFollow /\ RepliesFollow

(* The stream: only an open one has a token and its handshake.               *)
Sound ==
  /\ TokenIsUsers
  /\ AnswersMatchPipeline
  /\ stream.token # NoToken => stream.state = "Open"
  /\ stream.handshake => stream.state = "Open"

Inv == TypeOK /\ Queues /\ Sound

LEMMA InvInit == Init => Inv
<1> SUFFICES ASSUME Init PROVE Inv
  OBVIOUS
<1> USE StreamAssumption, NamesAssumption DEF Init
<1>1. TypeOK
  BY DEF TypeOK, Streams
<1>2. Queues
  BY DEF Queues, MainHears, WorkerHears, TokensFollow, WritesFollow,
         RequestsFollow, RepliesFollow, UserAt
<1>3. Sound
  BY DEF Sound, TokenIsUsers, AnswersMatchPipeline, Smaller
<1> QED BY <1>1, <1>2, <1>3 DEF Inv

(* What a handler leaves behind asks for at most one token more.             *)
LEMMA LeavesAsks ==
  ASSUME TypeOK, NEW r, r.s \in Streams, Leaves(r)
  PROVE  /\ requests' \subseteq Requests
         /\ \A q \in requests' : q \in requests \/ (q.counter = counter /\ q.owner = Unread)
BY DEF TypeOK, Leaves, Requests, Streams

(* An event between two operations leaves the queues alone.                  *)
Asks ==
  \A q \in requests' : q \in requests \/ (q.counter = counter /\ q.owner = Unread)

LEMMA EventQueues ==
  ASSUME TypeOK, Queues, Event, Asks
  PROVE  Queues'
<1> USE DEF Event, Queues
<1>1. MainHears' /\ WorkerHears'
  BY DEF MainHears, WorkerHears
<1>2. TokensFollow' /\ WritesFollow'
  BY DEF TokensFollow, WritesFollow
<1>3. RequestsFollow'
  BY DEF RequestsFollow, TypeOK, Asks, NoNotice
<1>4. RepliesFollow'
  BY DEF RepliesFollow, NoNotice
<1> QED BY <1>1, <1>2, <1>3, <1>4

(* An operation leaves the worker queue; a credential change makes its user  *)
(* the client's.                                                             *)
LEMMA RunQueues ==
  ASSUME TypeOK, Queues, NEW kind, Runs(kind), Asks,
         user' = IF Head(worker).kind = "credential" THEN Head(worker).user ELSE user
  PROVE  Queues'
<1> USE DEF Runs, Queues
<1>1. /\ worker \in Seq(Operations) /\ worker # <<>>
      /\ Len(worker') = Len(worker) - 1 /\ Len(worker) \in Nat \ {0}
      /\ \A i \in 1..Len(worker') : worker'[i] = worker[i + 1] /\ i + 1 \in 1..Len(worker)
  BY DEF TypeOK
<1>2. ASSUME NEW u, NEW i \in 2..(Len(worker) + 1),
             UserAt(worker, "credential", i, user, u)
      PROVE  UserAt(worker', "credential", i - 1, user', u)
  BY <1>1, <1>2, UserAtTail
<1>3. MainHears'
  BY DEF MainHears
<1>4. WorkerHears'
  BY <1>1, <1>2 DEF WorkerHears
<1>5. TokensFollow'
  <2> SUFFICES ASSUME NEW i \in 1..Len(worker'),
                      worker'[i].kind = "token", worker'[i].owner # Failed
               PROVE  UserAt(worker', "credential", i, user', worker'[i].owner)
    BY DEF TokensFollow
  <2>1. UserAt(worker, "credential", i + 1, user, worker[i + 1].owner)
    BY <1>1 DEF TokensFollow
  <2>2. i + 1 \in 2..(Len(worker) + 1) /\ i + 1 - 1 = i
    BY <1>1
  <2> QED BY <1>1, <1>2, <2>1, <2>2
<1>6. WritesFollow'
  <2> SUFFICES ASSUME NEW i \in 1..Len(worker'), worker'[i].kind = "write"
               PROVE  UserAt(worker', "credential", i, user', worker'[i].user)
    BY DEF WritesFollow
  <2>1. UserAt(worker, "credential", i + 1, user, worker[i + 1].user)
    BY <1>1 DEF WritesFollow
  <2>2. i + 1 \in 2..(Len(worker) + 1) /\ i + 1 - 1 = i
    BY <1>1
  <2> QED BY <1>1, <1>2, <2>1, <2>2
<1>7. RequestsFollow'
  BY DEF RequestsFollow, TypeOK, Asks, NoNotice
<1>8. RepliesFollow'
  BY DEF RepliesFollow, NoNotice
<1> QED BY <1>3, <1>4, <1>5, <1>6, <1>7, <1>8

-----------------------------------------------------------------------------
(* A handler that leaves a sound stream and a pipeline that is the front of  *)
(* the queue of the user it leaves keeps the client sound.                   *)
SoundFor(r, u, n) ==
  /\ r.s \in Streams /\ r.p \in Seq(People)
  /\ r.s.token \in {u, NoToken}
  /\ \A i \in 1..Len(r.p) : r.p[i] = u
  /\ Len(r.p) = Smaller(n, MaxPipeline)
  /\ r.s.sent = IF r.s.handshake THEN Len(r.p) ELSE 0
  /\ r.s.token # NoToken => r.s.state = "Open"
  /\ r.s.handshake => r.s.state = "Open"

LEMMA NothingToFill ==
  ASSUME NEW d \in Streams, ~d.handshake, d.token = NoToken, d.sent = 0,
         d.state # "Open", NEW n \in Nat, NEW u \in People
  PROVE  SoundFor(Fill([s |-> d, p |-> <<>>], n, u), u, n)
<1> DEFINE f == Fill([s |-> d, p |-> <<>>], n, u)
<1>1. <<>> \in Seq(People) /\ Len(<<>>) = 0 /\ \A i \in 1..0 : FALSE
  OBVIOUS
<1>2. Len(<<>>) <= Smaller(n, MaxPipeline)
  BY <1>1, StreamAssumption DEF Smaller
<1>3. /\ f.s \in Streams
      /\ f.p \in Seq(People)
      /\ \A i \in 1..Len(f.p) : f.p[i] = u
      /\ Len(f.p) = Smaller(n, MaxPipeline)
      /\ f.s.token = d.token
      /\ f.s.handshake = d.handshake
      /\ f.s.state = "Open" <=> d.state = "Open"
      /\ f.s.sent = IF d.handshake /\ d.state = "Open" THEN Len(f.p) ELSE 0
  BY <1>1, <1>2, FillSound
<1> HIDE DEF f
<1>4. SoundFor(f, u, n)
  BY <1>3 DEF SoundFor
<1> QED BY <1>4 DEF f

LEMMA FillOpenStream ==
  ASSUME NEW s \in Streams, NEW p \in Seq(People), NEW n \in Nat, NEW u \in People,
         Len(p) <= Smaller(n, MaxPipeline),
         \A i \in 1..Len(p) : p[i] = u,
         s.state = "Open", s.handshake, s.sent = Len(p), s.token \in {u, NoToken}
  PROVE  SoundFor(Fill([s |-> s, p |-> p], n, u), u, n)
<1> DEFINE f == Fill([s |-> s, p |-> p], n, u)
<1>1. s.sent = IF s.handshake /\ s.state = "Open" THEN Len(p) ELSE 0
  OBVIOUS
<1>2. /\ f.s \in Streams
      /\ f.p \in Seq(People)
      /\ \A i \in 1..Len(f.p) : f.p[i] = u
      /\ Len(f.p) = Smaller(n, MaxPipeline)
      /\ f.s.token = s.token
      /\ f.s.handshake = s.handshake
      /\ f.s.state = "Open" <=> s.state = "Open"
      /\ f.s.sent = IF s.handshake /\ s.state = "Open" THEN Len(f.p) ELSE 0
  <2>1. \A t \in Streams : \A q \in Seq(People) :
          /\ Len(q) <= Smaller(n, MaxPipeline)
          /\ \A i \in 1..Len(q) : q[i] = u
          /\ t.sent = IF t.handshake /\ t.state = "Open" THEN Len(q) ELSE 0
          => LET g == Fill([s |-> t, p |-> q], n, u)
             IN /\ g.s \in Streams
                /\ g.p \in Seq(People)
                /\ \A i \in 1..Len(g.p) : g.p[i] = u
                /\ Len(g.p) = Smaller(n, MaxPipeline)
                /\ g.s.token = t.token
                /\ g.s.handshake = t.handshake
                /\ g.s.state = "Open" <=> t.state = "Open"
                /\ g.s.sent = IF t.handshake /\ t.state = "Open" THEN Len(g.p) ELSE 0
    BY FillSound
  <2> QED BY <1>1, <2>1
<1> HIDE DEF f
<1>3. SoundFor(f, u, n)
  BY <1>2 DEF SoundFor
<1> QED BY <1>3 DEF f

LEMMA LeavesSound ==
  ASSUME TypeOK, NEW r, Leaves(r), SoundFor(r, user', queue'[user']),
         queue' \in [People -> Nat], user' \in People, Event \/ \E kind : Runs(kind)
  PROVE  TypeOK' /\ Sound' /\ Asks
<1>1. /\ requests' \subseteq Requests
      /\ Asks
  BY LeavesAsks DEF SoundFor, Asks
<1>2. stream' = r.s /\ pipeline' = r.p
  BY DEF Leaves
<1>3. TypeOK'
  <2>1. CASE Event
    BY <1>1, <1>2, <2>1 DEF TypeOK, SoundFor, Event
  <2>2. ASSUME NEW kind, Runs(kind) PROVE TypeOK'
    <3>1. worker' \in Seq(Operations)
      BY <2>2 DEF TypeOK, Runs
    <3> QED BY <1>1, <1>2, <2>2, <3>1 DEF TypeOK, SoundFor, Runs
  <2> QED BY <2>1, <2>2
<1>4. Sound'
  BY <1>2 DEF SoundFor, Sound, TokenIsUsers, AnswersMatchPipeline
<1> QED BY <1>1, <1>3, <1>4

(* A closed stream, whose handshake is forgotten at the end, with a pipeline *)
(* that fits; filled or not, started or not.                                 *)
LEMMA ClosedSound ==
  ASSUME NEW s \in Streams, NEW state \in {"Initial", "Error"}
  PROVE  /\ Closed(s, state) \in Streams
         /\ Closed(s, state).state = state
         /\ Closed(s, state).token = NoToken
         /\ Closed(s, state).sent = 0
BY DEF Closed, Streams

LEMMA Reset ==
  ASSUME NEW s \in Streams
  PROVE  LET f == [s EXCEPT !.handshake = FALSE]
         IN /\ f \in Streams /\ ~f.handshake
            /\ f.token = s.token /\ f.state = s.state /\ f.sent = s.sent
BY DEF Streams

LEMMA WriteKeeps == Inv /\ WriteMutations => Inv'
<1> SUFFICES ASSUME Inv, WriteMutations PROVE Inv'
  OBVIOUS
<1> USE DEF Inv
<1> DEFINE n == queue[user] + 1
           f == Fill([s |-> stream, p |-> pipeline], n, user)
<1>1. /\ queue' = [queue EXCEPT ![user] = n] /\ user' = user
      /\ Runs("write") /\ Leaves(f)
  BY DEF WriteMutations, Here
<1>2. /\ queue' \in [People -> Nat] /\ user' \in People /\ queue'[user'] = n
      /\ n \in Nat
  BY <1>1 DEF TypeOK
<1>3. SoundFor(f, user, n)
  <2>1. stream \in Streams /\ pipeline \in Seq(People) /\ user \in People
    BY DEF TypeOK
  <2>2. Len(pipeline) <= Smaller(n, MaxPipeline)
    BY StreamAssumption DEF TypeOK, Sound, AnswersMatchPipeline, Smaller
  <2>3. \A i \in 1..Len(pipeline) : pipeline[i] = user
    BY <2>1 DEF Sound, TokenIsUsers
  <2>4. stream.sent = IF stream.handshake /\ stream.state = "Open"
                        THEN Len(pipeline) ELSE 0
    BY DEF Sound, AnswersMatchPipeline
  <2> HIDE DEF f, n
  <2>5. f = Fill([s |-> stream, p |-> pipeline], n, user)
    BY DEF f
  <2> QED BY <1>2, <2>1, <2>2, <2>3, <2>4, <2>5, FillSound DEF SoundFor, Sound, TokenIsUsers
<1> HIDE DEF f, n
<1>4. TypeOK' /\ Sound' /\ Asks
  BY <1>1, <1>2, <1>3, LeavesSound
<1>5. Queues'
  BY <1>1, <1>4, RunQueues DEF Runs
<1> QED BY <1>4, <1>5

LEMMA ChangeKeeps == Inv /\ HandleCredentialChange => Inv'
<1> SUFFICES ASSUME Inv, HandleCredentialChange PROVE Inv'
  OBVIOUS
<1> USE DEF Inv
<1> DEFINE u == Head(worker).user
           n == queue[u]
           c == IF Started(stream) THEN Closed(stream, "Initial") ELSE stream
           d == [c EXCEPT !.handshake = FALSE]
           f == Fill([s |-> d, p |-> <<>>], n, u)
<1>1. /\ Runs("credential") /\ user' = u /\ queue' = queue /\ Leaves(f)
  BY DEF HandleCredentialChange, Disabled, Here
<1>2. /\ u \in People /\ n \in Nat /\ queue' \in [People -> Nat]
      /\ Head(worker).kind = "credential"
  <2>1. Head(worker) \in Operations /\ Head(worker).kind = "credential"
    BY <1>1 DEF TypeOK, Runs
  <2>2. u \in People
    BY <2>1 DEF Operations
  <2> QED BY <1>1, <2>1, <2>2 DEF TypeOK
<1>3. SoundFor(f, u, n)
  <2>1. c \in Streams /\ c.token = NoToken /\ c.sent = 0 /\ c.state # "Open"
    <3>1. CASE Started(stream)
      BY <3>1, ClosedSound DEF TypeOK
    <3>2. CASE ~Started(stream)
      BY <3>2 DEF TypeOK, Started, Sound, AnswersMatchPipeline
    <3> QED BY <3>1, <3>2
  <2> HIDE DEF c
  <2>2. /\ d \in Streams /\ ~d.handshake
        /\ d.token = NoToken /\ d.sent = 0 /\ d.state # "Open"
    BY <2>1, Reset
  <2> HIDE DEF d, n, u
  <2> QED BY <1>2, <2>2, NothingToFill
<1> HIDE DEF f, d, c
<1>4. TypeOK' /\ Sound' /\ Asks
  BY <1>1, <1>2, <1>3, LeavesSound
<1>5. Queues'
  BY <1>1, <1>2, <1>4, RunQueues
<1> QED BY <1>4, <1>5

(* A stream that is lost with its pipeline, less the write that is refused.  *)
LEMMA ErrorSound ==
  ASSUME TypeOK, Sound, NEW permanent \in BOOLEAN
  PROVE  /\ Refuses(permanent) =>
              /\ queue[user] - 1 \in Nat
              /\ SoundFor(AfterError(permanent), user, queue[user] - 1)
         /\ ~Refuses(permanent) => SoundFor(AfterError(permanent), user, queue[user])
<1> DEFINE n == queue[user] - 1
<1> USE StreamAssumption
<1>1. /\ stream \in Streams /\ pipeline \in Seq(People) /\ user \in People
      /\ queue[user] \in Nat /\ Len(pipeline) = Smaller(queue[user], MaxPipeline)
      /\ \A i \in 1..Len(pipeline) : pipeline[i] = user
  <2>1. /\ stream \in Streams /\ pipeline \in Seq(People) /\ user \in People
        /\ queue[user] \in Nat
    BY DEF TypeOK
  <2>2. Len(pipeline) = Smaller(queue[user], MaxPipeline)
    BY DEF Sound, AnswersMatchPipeline
  <2>3. \A i \in 1..Len(pipeline) : pipeline[i] = user
    BY <2>1 DEF Sound, TokenIsUsers
  <2> QED BY <2>1, <2>2, <2>3
<1>2. ASSUME Refuses(permanent)
      PROVE  n \in Nat /\ SoundFor(AfterError(permanent), user, n)
  <2> DEFINE s == Closed(stream, "Initial")
             p == Tail(pipeline)
             f == Fill([s |-> s, p |-> p], n, user)
             g == StartIfNeeded(f)
  <2>1. pipeline # <<>> /\ Len(pipeline) > 0 /\ n \in Nat
    BY <1>1, <1>2 DEF Refuses, Smaller
  <2>2. p \in Seq(People) /\ Len(p) = Len(pipeline) - 1
        /\ \A i \in 1..Len(p) : p[i] = user
    BY <1>1, <2>1
  <2>3. Len(p) <= Smaller(n, MaxPipeline)
    BY <1>1, <2>1, <2>2 DEF Smaller
  <2>4. /\ s \in Streams /\ s.state = "Initial" /\ s.token = NoToken /\ s.sent = 0
    BY <1>1, ClosedSound
  <2>5. AfterError(permanent) = [s |-> [g.s EXCEPT !.handshake = FALSE], p |-> g.p]
    BY <1>2 DEF AfterError
  <2>6. f = [s |-> f.s, p |-> f.p]
    BY DEF Fill, StartIfNeeded, Start
  <2> HIDE DEF s, p, n
  <2>7. /\ f.s \in Streams /\ f.p \in Seq(People)
        /\ \A i \in 1..Len(f.p) : f.p[i] = user
        /\ Len(f.p) = Smaller(n, MaxPipeline)
        /\ f.s.token = NoToken /\ f.s.state # "Open" /\ f.s.sent = 0
    BY <1>1, <2>1, <2>2, <2>3, <2>4, FillSound
  <2> HIDE DEF f
  <2>8. /\ g.s \in Streams /\ g.p = f.p
        /\ g.s.token = NoToken /\ g.s.state # "Open" /\ g.s.sent = 0
    BY <2>6, <2>7, StartSound
  <2> HIDE DEF g
  <2> DEFINE h == [g.s EXCEPT !.handshake = FALSE]
  <2>9. /\ h \in Streams /\ ~h.handshake /\ h.token = NoToken /\ h.sent = 0
    BY <2>8, Reset
  <2>10. AfterError(permanent) = [s |-> h, p |-> f.p]
    BY <2>5, <2>8
  <2> HIDE DEF h
  <2>11. SoundFor([s |-> h, p |-> f.p], user, n)
    BY <2>7, <2>9 DEF SoundFor
  <2> QED BY <2>1, <2>10, <2>11
<1>3. ASSUME ~Refuses(permanent)
      PROVE  SoundFor(AfterError(permanent), user, queue[user])
  <2> DEFINE s == Closed(stream, "Error")
             g == StartIfNeeded([s |-> s, p |-> pipeline])
  <2>1. /\ s \in Streams /\ s.state = "Error" /\ s.token = NoToken /\ s.sent = 0
    BY <1>1, ClosedSound
  <2>2. AfterError(permanent) = [s |-> [g.s EXCEPT !.handshake = FALSE], p |-> g.p]
    BY <1>3 DEF AfterError
  <2> HIDE DEF s
  <2>3. /\ g.s \in Streams /\ g.p = pipeline
        /\ g.s.token = NoToken /\ g.s.state # "Open" /\ g.s.sent = 0
    BY <2>1, StartSound
  <2> HIDE DEF g
  <2> DEFINE h == [g.s EXCEPT !.handshake = FALSE]
  <2>4. /\ h \in Streams /\ ~h.handshake /\ h.token = NoToken /\ h.sent = 0
    BY <2>3, Reset
  <2>5. AfterError(permanent) = [s |-> h, p |-> pipeline]
    BY <2>2, <2>3
  <2> HIDE DEF h
  <2>6. SoundFor([s |-> h, p |-> pipeline], user, queue[user])
    BY <1>1, <2>4 DEF SoundFor
  <2> QED BY <2>5, <2>6
<1> QED BY <1>2, <1>3

LEMMA CloseKeeps ==
  ASSUME TypeOK, Sound, NEW permanent \in BOOLEAN, CloseOnError(permanent),
         user' = user, Event \/ \E kind : Runs(kind)
  PROVE  TypeOK' /\ Sound' /\ Asks
<1> USE DEF CloseOnError
<1>1. queue \in [People -> Nat] /\ user \in People
  BY DEF TypeOK
<1>2. CASE Refuses(permanent)
  <2>1. /\ queue' \in [People -> Nat] /\ queue'[user'] = queue[user] - 1
    BY <1>1, <1>2, ErrorSound
  <2> QED BY <1>1, <1>2, <2>1, ErrorSound, LeavesSound
<1>3. CASE ~Refuses(permanent)
  BY <1>1, <1>3, ErrorSound, LeavesSound
<1> QED BY <1>2, <1>3

LEMMA FinishKeeps ==
  ASSUME NEW permanent \in BOOLEAN, Inv, OnStreamFinish(permanent)
  PROVE  Inv'
<1>1. TypeOK' /\ Sound' /\ Asks
  BY CloseKeeps DEF Inv, OnStreamFinish, Event
<1> QED BY <1>1, EventQueues DEF Inv, OnStreamFinish

LEMMA ResumeKeeps == Inv /\ ResumeStartWithCredentials => Inv'
<1> SUFFICES ASSUME Inv, ResumeStartWithCredentials PROVE Inv'
  OBVIOUS
<1> USE DEF Inv
<1> DEFINE token == Head(worker)
<1>1. Runs("token") /\ user' = user
  BY DEF ResumeStartWithCredentials
<1>2. /\ worker \in Seq(Operations) /\ worker # <<>> /\ token = worker[1]
      /\ token.kind = "token" /\ token.owner \in People \cup {Failed}
  <2>1. /\ worker \in Seq(Operations) /\ worker # <<>> /\ token = worker[1]
        /\ token.kind = "token" /\ token \in Operations
    BY <1>1 DEF TypeOK, Runs
  <2> QED BY <2>1 DEF Operations
<1>3. token.owner # Failed => token.owner = user
  <2>1. 1 \in 1..Len(worker)
    BY <1>2
  <2>2. token.owner # Failed => UserAt(worker, "credential", 1, user, token.owner)
    BY <1>2, <2>1 DEF Queues, TokensFollow
  <2> QED BY <2>2, UserAtHead
<1>4. TypeOK' /\ Sound' /\ Asks
  <2>1. CASE IsStale(token)
    <3>1. UNCHANGED <<queue, pipeline, stream, requests>>
      BY <2>1 DEF ResumeStartWithCredentials
    <3>2. worker' \in Seq(Operations)
      BY <1>1, <1>2 DEF Runs
    <3> QED BY <1>1, <3>1, <3>2
            DEF TypeOK, Runs, Asks, Sound, TokenIsUsers, AnswersMatchPipeline
  <2>2. CASE ~IsStale(token) /\ token.owner = Failed
    <3>1. CloseOnError(FALSE)
      BY <2>2 DEF ResumeStartWithCredentials
    <3> QED BY <1>1, <3>1, CloseKeeps
  <2>3. CASE ~IsStale(token) /\ token.owner # Failed
    <3>1. /\ stream' = [stream EXCEPT !.state = "Open", !.token = token.owner]
          /\ UNCHANGED <<queue, pipeline, requests>>
      BY <2>3 DEF ResumeStartWithCredentials
    <3>2. worker' \in Seq(Operations)
      BY <1>1, <1>2 DEF Runs
    <3>3. /\ stream' \in Streams /\ stream'.token = user /\ stream'.state = "Open"
          /\ stream'.sent = stream.sent /\ stream'.handshake = stream.handshake
      BY <1>2, <1>3, <2>3, <3>1 DEF TypeOK, Streams
    <3>4. TypeOK'
      BY <1>1, <3>1, <3>2, <3>3 DEF TypeOK, Runs
    <3>5. Sound'
      BY <1>1, <3>1, <3>3 DEF Sound, TokenIsUsers, AnswersMatchPipeline
    <3> QED BY <3>1, <3>4, <3>5 DEF Asks
  <2> QED BY <2>1, <2>2, <2>3
<1>5. Queues'
  <2>1. user' = IF Head(worker).kind = "credential" THEN Head(worker).user ELSE user
    BY <1>1, <1>2
  <2> QED BY <1>1, <1>4, <2>1, RunQueues
<1> QED BY <1>4, <1>5

LEMMA HandshakeKeeps == Inv /\ OnWriteStreamHandshakeComplete => Inv'
<1> SUFFICES ASSUME Inv, OnWriteStreamHandshakeComplete PROVE Inv'
  OBVIOUS
<1> USE DEF Inv, OnWriteStreamHandshakeComplete
<1>1. /\ stream' \in Streams /\ stream'.handshake /\ stream'.sent = Len(pipeline)
      /\ stream'.state = "Open" /\ stream'.token = stream.token
  <2> DEFINE still == stream.idle /\ pipeline = <<>>
  <2>1. /\ still \in BOOLEAN /\ Len(pipeline) \in Nat /\ stream \in Streams
    BY DEF TypeOK
  <2>2. stream' = [stream EXCEPT !.handshake = TRUE, !.sent = Len(pipeline),
                                 !.idle = still]
    OBVIOUS
  <2> HIDE DEF still
  <2> QED BY <2>1, <2>2 DEF Streams
<1>2. TypeOK'
  BY <1>1 DEF TypeOK, Event
<1>3. Sound'
  BY <1>1 DEF Sound, TokenIsUsers, AnswersMatchPipeline, Event
<1>4. Queues'
  BY EventQueues DEF Asks
<1> QED BY <1>2, <1>3, <1>4

LEMMA ResultKeeps == Inv /\ OnWriteStreamMutationResult => Inv'
<1> SUFFICES ASSUME Inv, OnWriteStreamMutationResult PROVE Inv'
  OBVIOUS
<1> USE StreamAssumption DEF Inv
<1> DEFINE n == queue[user] - 1
           s == [stream EXCEPT !.sent = @ - 1]
           p == Tail(pipeline)
           f == Fill([s |-> s, p |-> p], n, user)
<1>1. /\ Event /\ stream.state = "Open" /\ stream.handshake /\ stream.sent > 0
      /\ queue' = [queue EXCEPT ![user] = n] /\ Leaves(f)
  BY DEF OnWriteStreamMutationResult
<1>2. /\ stream \in Streams /\ pipeline \in Seq(People) /\ user \in People
      /\ queue \in [People -> Nat]
      /\ Len(pipeline) = Smaller(queue[user], MaxPipeline)
      /\ stream.sent = Len(pipeline)
  BY <1>1 DEF TypeOK, Sound, AnswersMatchPipeline
<1>3. /\ pipeline # <<>> /\ Len(pipeline) > 0 /\ n \in Nat
      /\ queue' \in [People -> Nat] /\ queue'[user] = n
  BY <1>1, <1>2 DEF Smaller
<1>4. /\ p \in Seq(People) /\ Len(p) = Len(pipeline) - 1
      /\ Len(p) <= Smaller(n, MaxPipeline)
      /\ \A i \in 1..Len(p) : p[i] = user
  <2>1. \A i \in 1..Len(pipeline) : pipeline[i] = user
    BY <1>2 DEF Sound, TokenIsUsers
  <2>2. p \in Seq(People) /\ Len(p) = Len(pipeline) - 1
    <3>1. pipeline \in Seq(People) /\ pipeline # <<>>
      BY <1>2, <1>3
    <3> QED BY <3>1
  <2>3. Len(p) <= Smaller(n, MaxPipeline)
    BY <1>2, <1>3, <2>2 DEF Smaller
  <2>4. \A i \in 1..Len(p) : p[i] = pipeline[i + 1] /\ i + 1 \in 1..Len(pipeline)
    BY <1>2, <1>3
  <2> QED BY <2>1, <2>2, <2>3, <2>4
<1>5. /\ s \in Streams /\ s.sent = Len(p) /\ s.state = "Open" /\ s.handshake
      /\ s.token = stream.token
  <2>1. stream.sent - 1 \in Nat
    BY <1>1, <1>2
  <2> QED BY <1>1, <1>2, <1>4, <2>1 DEF Streams
<1>6. SoundFor(f, user, n)
  <2>1. s.token \in {user, NoToken}
    BY <1>5 DEF Sound, TokenIsUsers
  <2> HIDE DEF s, p, n
  <2> QED BY <1>2, <1>3, <1>4, <1>5, <2>1, FillOpenStream
<1> HIDE DEF f
<1>7. user' = user
  BY <1>1 DEF Event
<1>8. TypeOK' /\ Sound' /\ Asks
  BY <1>1, <1>2, <1>3, <1>6, <1>7, LeavesSound
<1>9. Queues'
  BY <1>1, <1>8, EventQueues
<1> QED BY <1>8, <1>9

LEMMA TimersKeep == Inv /\ (IdleTimeout \/ BackoffElapsed) => Inv'
<1> SUFFICES ASSUME Inv, IdleTimeout \/ BackoffElapsed PROVE Inv'
  OBVIOUS
<1> USE DEF Inv
<1> DEFINE closed == [Closed(stream, "Initial") EXCEPT !.handshake = FALSE]
           again == [stream EXCEPT !.state = "Starting"]
<1>1. /\ stream \in Streams /\ pipeline \in Seq(People) /\ user \in People
      /\ queue \in [People -> Nat]
      /\ Len(pipeline) = Smaller(queue[user], MaxPipeline)
      /\ \A i \in 1..Len(pipeline) : pipeline[i] = user
  <2>1. stream \in Streams /\ pipeline \in Seq(People) /\ user \in People
        /\ queue \in [People -> Nat]
    BY DEF TypeOK
  <2> QED BY <2>1 DEF Sound, AnswersMatchPipeline, TokenIsUsers
<1>2. Event /\ queue' = queue /\ user' = user
  BY DEF IdleTimeout, BackoffElapsed, Event
<1>3. CASE IdleTimeout
  <2>1. /\ closed \in Streams /\ ~closed.handshake
        /\ closed.token = NoToken /\ closed.sent = 0
    <3>1. /\ Closed(stream, "Initial") \in Streams
          /\ Closed(stream, "Initial").token = NoToken
          /\ Closed(stream, "Initial").sent = 0
      BY <1>1, ClosedSound
    <3> QED BY <3>1, Reset
  <2>2. Leaves([s |-> closed, p |-> pipeline])
    BY <1>3 DEF IdleTimeout
  <2> HIDE DEF closed
  <2>3. SoundFor([s |-> closed, p |-> pipeline], user, queue[user])
    BY <1>1, <2>1 DEF SoundFor
  <2>4. TypeOK' /\ Sound' /\ Asks
    BY <1>1, <1>2, <2>2, <2>3, LeavesSound
  <2> QED BY <1>2, <2>4, EventQueues
<1>4. CASE BackoffElapsed
  <2>1. stream.state = "Backoff" /\ Leaves([s |-> again, p |-> pipeline])
    BY <1>4 DEF BackoffElapsed
  <2>2. stream.token = NoToken /\ ~stream.handshake /\ stream.sent = 0
    BY <1>1, <2>1 DEF Sound, AnswersMatchPipeline
  <2>3. /\ again \in Streams /\ again.handshake = stream.handshake
        /\ again.token = stream.token /\ again.sent = stream.sent
    BY <1>1 DEF Streams
  <2> HIDE DEF again
  <2>4. SoundFor([s |-> again, p |-> pipeline], user, queue[user])
    BY <1>1, <2>2, <2>3 DEF SoundFor
  <2>5. TypeOK' /\ Sound' /\ Asks
    BY <1>1, <1>2, <2>1, <2>4, LeavesSound
  <2> QED BY <1>2, <2>5, EventQueues
<1> QED BY <1>3, <1>4

-----------------------------------------------------------------------------
(* FIRAuth, the main queue and the app leave the stream alone.               *)
LEMMA SoundUnchanged ==
  ASSUME Sound, UNCHANGED <<user, queue, pipeline, stream>>
  PROVE  Sound'
BY DEF Sound, TokenIsUsers, AnswersMatchPipeline

LEMMA AuthChangesKeeps ==
  ASSUME NEW u \in People, Inv, AuthChanges(u)
  PROVE  Inv'
<1> USE DEF Inv, AuthChanges
<1> DEFINE notice == [kind |-> "notice", user |-> u]
<1>1. /\ notice \in Notices \cup Replies /\ main \in Seq(Notices \cup Replies)
      /\ main' = Append(main, notice)
  BY DEF TypeOK, Notices
<1>2. /\ main' \in Seq(Notices \cup Replies) /\ Len(main') = Len(main) + 1
      /\ main'[Len(main) + 1] = notice
      /\ \A i \in 1..Len(main) : main'[i] = main[i]
      /\ Len(main) \in Nat
  BY <1>1
<1>3. TypeOK'
  BY <1>2 DEF TypeOK
<1>4. MainHears'
  <2>1. UserAt(Append(main, notice), "notice", Len(main) + 2, provider, notice.user)
    BY <1>1, UserAtEnd
  <2>2. Len(main') + 1 = Len(main) + 2
    BY <1>2
  <2> QED BY <1>1, <2>1, <2>2 DEF MainHears
<1>5. WorkerHears' /\ TokensFollow' /\ WritesFollow'
  BY DEF Queues, WorkerHears, TokensFollow, WritesFollow
<1>6. RequestsFollow'
  <2>1. ~NoNotice(Len(main))'
    BY <1>2 DEF NoNotice
  <2> QED BY <2>1 DEF Queues, RequestsFollow
<1>7. RepliesFollow'
  <2> SUFFICES ASSUME NEW i \in 1..Len(main'), main'[i].kind = "reply"
               PROVE  /\ main'[i].counter <= counter
                      /\ main'[i].counter = counter /\ main'[i].owner # Failed
                           /\ NoNotice(i - 1)' => main'[i].owner = provider
    BY DEF RepliesFollow
  <2>1. i \in 1..Len(main) /\ main'[i] = main[i]
    BY <1>2
  <2>2. \A j \in 1..(i - 1) : main'[j] = main[j]
    BY <1>2, <2>1
  <2> QED BY <2>1, <2>2 DEF Queues, RepliesFollow, NoNotice
<1>8. Sound'
  BY SoundUnchanged
<1> QED BY <1>3, <1>4, <1>5, <1>6, <1>7, <1>8 DEF Queues

(* An answer that joins the main queue behind FIRAuth's notices.             *)
LEMMA ReplyKeeps ==
  ASSUME Inv, NEW r \in requests, NEW owner \in People \cup {Failed},
         r.counter = counter /\ owner # Failed /\ NoNotice(Len(main))
           => owner = provider,
         requests' = requests \ {r},
         main' = Append(main, Reply(r, owner)),
         UNCHANGED <<authUser, counter, provider, worker, user, queue, pipeline,
                     stream>>
  PROVE  Inv'
<1> USE DEF Inv
<1> DEFINE reply == Reply(r, owner)
<1>1. /\ reply \in Notices \cup Replies /\ main \in Seq(Notices \cup Replies)
      /\ reply.kind = "reply" /\ reply.counter = r.counter /\ reply.owner = owner
      /\ main' = Append(main, reply)
  BY DEF TypeOK, Replies, Requests, Reply
<1> HIDE DEF reply
<1>2. /\ main' \in Seq(Notices \cup Replies) /\ Len(main') = Len(main) + 1
      /\ main'[Len(main) + 1] = reply
      /\ \A i \in 1..Len(main) : main'[i] = main[i]
      /\ Len(main) \in Nat
  BY <1>1
<1>3. TypeOK'
  BY <1>2 DEF TypeOK
<1>4. MainHears'
  <2>1. UserAt(Append(main, reply), "notice", Len(main) + 2, provider, authUser)
    BY <1>1, UserAtEnd DEF Queues, MainHears
  <2>2. Len(main') + 1 = Len(main) + 2
    BY <1>2
  <2> QED BY <1>1, <2>1, <2>2 DEF MainHears
<1>5. WorkerHears' /\ TokensFollow' /\ WritesFollow'
  BY DEF Queues, WorkerHears, TokensFollow, WritesFollow
<1>6. RequestsFollow'
  <2>1. NoNotice(Len(main))' => NoNotice(Len(main))
    BY <1>2 DEF NoNotice
  <2> QED BY <2>1 DEF Queues, RequestsFollow, NoNotice
<1>7. RepliesFollow'
  <2> SUFFICES ASSUME NEW i \in 1..Len(main'), main'[i].kind = "reply"
               PROVE  /\ main'[i].counter <= counter
                      /\ main'[i].counter = counter /\ main'[i].owner # Failed
                           /\ NoNotice(i - 1)' => main'[i].owner = provider
    BY DEF RepliesFollow
  <2>1. CASE i = Len(main) + 1
    <3>1. NoNotice(i - 1)' => NoNotice(Len(main))
      BY <1>2, <2>1 DEF NoNotice
    <3>2. r.counter <= counter
      BY DEF Queues, RequestsFollow
    <3> QED BY <1>1, <1>2, <2>1, <3>1, <3>2
  <2>2. CASE i \in 1..Len(main)
    <3>1. \A j \in 1..(i - 1) : main'[j] = main[j]
      BY <1>2, <2>2
    <3> QED BY <1>2, <2>2, <3>1 DEF Queues, RepliesFollow, NoNotice
  <2> QED BY <1>2, <2>1, <2>2
<1>8. Sound'
  BY SoundUnchanged
<1> QED BY <1>3, <1>4, <1>5, <1>6, <1>7, <1>8 DEF Queues

LEMMA AuthKeeps ==
  ASSUME NEW r \in requests, Inv,
         AuthReads(r) \/ \E owner \in People \cup {Failed} : AuthReplies(r, owner)
  PROVE  Inv'
<1> USE DEF Inv
<1>1. NoNotice(Len(main)) => authUser = provider
  BY DEF Queues, MainHears, UserAt, NoNotice, TypeOK
<1>2. r \in Requests /\ authUser \in People
  BY DEF TypeOK
<1>3. ASSUME AuthReads(r), authUser = Nobody PROVE Inv'
  <2>1. Nobody \in People \cup {Failed}
    BY DEF People
  <2> QED BY <1>1, <1>3, <2>1, ReplyKeeps DEF AuthReads
<1>4. ASSUME AuthReads(r), authUser # Nobody PROVE Inv'
  <2> DEFINE q == [r EXCEPT !.owner = authUser]
  <2>1. /\ q \in Requests /\ q.counter = r.counter /\ q.owner = authUser
        /\ requests' = (requests \ {r}) \cup {q}
        /\ UNCHANGED <<authUser, main, counter, provider, worker, user, queue,
                       pipeline, stream>>
    BY <1>2, <1>4 DEF AuthReads, Requests
  <2> HIDE DEF q
  <2>2. TypeOK'
    BY <2>1 DEF TypeOK
  <2>3. RequestsFollow'
    BY <1>1, <2>1 DEF Queues, RequestsFollow, NoNotice
  <2>4. /\ MainHears' /\ WorkerHears' /\ TokensFollow' /\ WritesFollow'
        /\ RepliesFollow'
    BY <2>1 DEF Queues, MainHears, WorkerHears, TokensFollow, WritesFollow,
                RepliesFollow, NoNotice
  <2>5. Sound'
    BY <2>1, SoundUnchanged
  <2> QED BY <2>2, <2>3, <2>4, <2>5 DEF Queues
<1>5. ASSUME NEW owner \in People \cup {Failed}, AuthReplies(r, owner) PROVE Inv'
  <2>1. r.counter = counter /\ owner # Failed /\ NoNotice(Len(main))
          => owner = provider
    BY <1>5 DEF Queues, RequestsFollow, AuthReplies
  <2> QED BY <1>5, <2>1, ReplyKeeps DEF AuthReplies
<1> QED BY <1>3, <1>4, <1>5

(* What joins the worker queue follows what is there.                        *)
LEMMA AppendKeeps ==
  ASSUME TypeOK, Queues, NEW e \in Operations, worker' = Append(worker, e),
         UNCHANGED user,
         IF e.kind = "credential"
           THEN provider' = e.user
           ELSE /\ provider' = provider
                /\ e.kind = "token" /\ e.owner # Failed => e.owner = provider
                /\ e.kind = "write" => e.user = provider
  PROVE  WorkerHears' /\ TokensFollow' /\ WritesFollow' /\ worker' \in Seq(Operations)
<1>1. /\ worker \in Seq(Operations) /\ worker' \in Seq(Operations)
      /\ Len(worker') = Len(worker) + 1 /\ Len(worker) \in Nat
      /\ worker'[Len(worker) + 1] = e
      /\ \A i \in 1..Len(worker) : worker'[i] = worker[i]
  BY DEF TypeOK
<1>2. UserAt(worker, "credential", Len(worker) + 1, user, provider)
  BY DEF Queues, WorkerHears
<1>3. ASSUME NEW i \in 1..(Len(worker) + 1), NEW u,
             UserAt(worker, "credential", i, user, u)
      PROVE  UserAt(worker', "credential", i, user', u)
  BY <1>1, <1>3, UserAtAppend
<1>4. WorkerHears'
  <2>1. UserAt(Append(worker, e), "credential", Len(worker) + 2, user, provider')
    BY <1>1, <1>2, UserAtEnd
  <2>2. Len(worker') + 1 = Len(worker) + 2
    BY <1>1
  <2> QED BY <2>1, <2>2 DEF WorkerHears
<1>5. TokensFollow'
  <2> SUFFICES ASSUME NEW i \in 1..Len(worker'),
                      worker'[i].kind = "token", worker'[i].owner # Failed
               PROVE  UserAt(worker', "credential", i, user', worker'[i].owner)
    BY DEF TokensFollow
  <2>1. CASE i = Len(worker) + 1
    BY <1>1, <1>2, <1>3, <2>1
  <2>2. CASE i \in 1..Len(worker)
    <3>1. UserAt(worker, "credential", i, user, worker[i].owner)
      BY <1>1, <2>2 DEF Queues, TokensFollow
    <3> QED BY <1>1, <1>3, <2>2, <3>1
  <2> QED BY <1>1, <2>1, <2>2
<1>6. WritesFollow'
  <2> SUFFICES ASSUME NEW i \in 1..Len(worker'), worker'[i].kind = "write"
               PROVE  UserAt(worker', "credential", i, user', worker'[i].user)
    BY DEF WritesFollow
  <2>1. CASE i = Len(worker) + 1
    BY <1>1, <1>2, <1>3, <2>1
  <2>2. CASE i \in 1..Len(worker)
    <3>1. UserAt(worker, "credential", i, user, worker[i].user)
      BY <1>1, <2>2 DEF Queues, WritesFollow
    <3> QED BY <1>1, <1>3, <2>2, <3>1
  <2> QED BY <1>1, <2>1, <2>2
<1> QED BY <1>1, <1>4, <1>5, <1>6

(* What leaves the main queue.                                               *)
LEMMA MainTail ==
  ASSUME TypeOK, main # <<>>, main' = Tail(main)
  PROVE  /\ main' \in Seq(Notices \cup Replies)
         /\ Len(main') = Len(main) - 1 /\ Len(main) \in Nat \ {0}
         /\ \A i \in 1..Len(main') : main'[i] = main[i + 1] /\ i + 1 \in 1..Len(main)
         /\ Head(main) = main[1] /\ Head(main) \in Notices \cup Replies
BY DEF TypeOK

LEMMA HearNoticeKeeps == Inv /\ HearNotice => Inv'
<1> SUFFICES ASSUME Inv, HearNotice PROVE Inv'
  OBVIOUS
<1> USE DEF Inv, HearNotice
<1> DEFINE e == [kind |-> "credential", user |-> Head(main).user]
<1>1. /\ main' \in Seq(Notices \cup Replies) /\ main \in Seq(Notices \cup Replies)
      /\ Len(main') = Len(main) - 1 /\ Len(main) \in Nat \ {0}
      /\ \A i \in 1..Len(main') : main'[i] = main[i + 1] /\ i + 1 \in 1..Len(main)
      /\ Head(main) = main[1] /\ Head(main) \in Notices \cup Replies
  BY MainTail DEF TypeOK
<1>2. Head(main).user \in People
  BY <1>1 DEF Notices, Replies
<1>3. e \in Operations
  BY <1>2 DEF Operations
<1>4. WorkerHears' /\ TokensFollow' /\ WritesFollow' /\ worker' \in Seq(Operations)
  BY <1>3, AppendKeeps
<1>5. TypeOK'
  <2>1. counter' \in Nat /\ provider' \in People
    BY <1>2 DEF TypeOK
  <2> QED BY <1>1, <1>4, <2>1 DEF TypeOK
<1>6. MainHears'
  <2>1. UserAt(main, "notice", Len(main) + 1, provider, authUser)
    BY DEF Queues, MainHears
  <2>2. Len(main) + 1 \in 2..(Len(main) + 1) /\ Len(main) + 1 - 1 = Len(main') + 1
    BY <1>1
  <2>3. main # <<>>
    OBVIOUS
  <2>4. UserAt(Tail(main), "notice", Len(main) + 1 - 1, Head(main).user, authUser)
    BY <1>1, <2>1, <2>2, <2>3, UserAtTail
  <2> QED BY <2>2, <2>4 DEF MainHears
<1>7. RequestsFollow'
  BY DEF Queues, RequestsFollow, TypeOK, Requests
<1>8. RepliesFollow'
  <2> SUFFICES ASSUME NEW i \in 1..Len(main'), main'[i].kind = "reply"
               PROVE  main'[i].counter <= counter' /\ main'[i].counter # counter'
    BY DEF RepliesFollow
  <2>1. main'[i] = main[i + 1] /\ i + 1 \in 1..Len(main)
    BY <1>1
  <2>2. main[i + 1].counter <= counter
    BY <2>1 DEF Queues, RepliesFollow
  <2>3. main[i + 1].counter \in Nat
    <3>1. main[i + 1] \in Notices \cup Replies /\ main[i + 1].kind = "reply"
      BY <1>1, <2>1
    <3> QED BY <3>1 DEF Notices, Replies
  <2> QED BY <2>1, <2>2, <2>3 DEF TypeOK
<1>9. Sound'
  BY SoundUnchanged
<1> QED BY <1>4, <1>5, <1>6, <1>7, <1>8, <1>9 DEF Queues

LEMMA HearReplyKeeps == Inv /\ HearReply => Inv'
<1> SUFFICES ASSUME Inv, HearReply PROVE Inv'
  OBVIOUS
<1> USE DEF Inv, HearReply
<1> DEFINE e == [kind |-> "token", closes |-> Head(main).closes,
                 owner |-> TokenOf(Head(main))]
<1>1. /\ main' \in Seq(Notices \cup Replies) /\ main \in Seq(Notices \cup Replies)
      /\ Len(main') = Len(main) - 1 /\ Len(main) \in Nat \ {0}
      /\ \A i \in 1..Len(main') : main'[i] = main[i + 1] /\ i + 1 \in 1..Len(main)
      /\ Head(main) = main[1] /\ Head(main) \in Notices \cup Replies
  BY MainTail DEF TypeOK
<1>2. Head(main) \in Replies
  BY <1>1 DEF Notices, Replies
<1>3. e \in Operations
  BY <1>2 DEF Operations, Replies, TokenOf
<1>4. TokenOf(Head(main)) # Failed => TokenOf(Head(main)) = provider
  <2>1. 1 \in 1..Len(main) /\ main[1].kind = "reply" /\ NoNotice(1 - 1)
    BY <1>1 DEF NoNotice
  <2> QED BY <1>1, <2>1 DEF Queues, RepliesFollow, TokenOf
<1>5. WorkerHears' /\ TokensFollow' /\ WritesFollow' /\ worker' \in Seq(Operations)
  <2>1. e.kind = "token" /\ e.owner = TokenOf(Head(main))
    OBVIOUS
  <2>2. worker' = Append(worker, e) /\ UNCHANGED <<user, provider>>
    OBVIOUS
  <2> HIDE DEF e
  <2> QED BY <1>3, <1>4, <2>1, <2>2, AppendKeeps
<1>6. TypeOK'
  BY <1>1, <1>5 DEF TypeOK
<1>7. MainHears'
  <2>1. UserAt(main, "notice", Len(main) + 1, provider, authUser)
    BY DEF Queues, MainHears
  <2>2. Len(main) + 1 \in 2..(Len(main) + 1) /\ Len(main) + 1 - 1 = Len(main') + 1
    BY <1>1
  <2>3. main # <<>> /\ Head(main).kind # "notice"
    OBVIOUS
  <2>4. UserAt(Tail(main), "notice", Len(main) + 1 - 1, provider, authUser)
    BY <1>1, <2>1, <2>2, <2>3, UserAtTail
  <2> QED BY <2>2, <2>4 DEF MainHears
<1>8. ASSUME NEW i \in 0..Len(main'), NoNotice(i)'
      PROVE  NoNotice(i + 1)
  <2> SUFFICES ASSUME NEW j \in 1..(i + 1) PROVE main[j].kind # "notice"
    BY DEF NoNotice
  <2>1. CASE j = 1
    BY <1>1, <2>1
  <2>2. CASE j > 1
    <3>1. j - 1 \in 1..i /\ j - 1 \in 1..Len(main') /\ main'[j - 1] = main[j - 1 + 1]
      BY <1>1, <2>2
    <3>2. j - 1 + 1 = j
      OBVIOUS
    <3> QED BY <1>8, <3>1, <3>2 DEF NoNotice
  <2> QED BY <2>1, <2>2
<1>9. RequestsFollow'
  <2>1. NoNotice(Len(main))' => NoNotice(Len(main))
    <3>1. PICK i \in 0..Len(main') : i = Len(main') /\ i + 1 = Len(main)
      <4>1. Len(main') \in 0..Len(main') /\ Len(main') + 1 = Len(main)
        BY <1>1
      <4> QED BY <4>1
    <3>2. NoNotice(Len(main))' => NoNotice(i)'
      BY <3>1 DEF NoNotice
    <3> QED BY <1>8, <3>1, <3>2
  <2> QED BY <2>1 DEF Queues, RequestsFollow, NoNotice
<1>10. RepliesFollow'
  <2> SUFFICES ASSUME NEW i \in 1..Len(main'), main'[i].kind = "reply"
               PROVE  /\ main'[i].counter <= counter
                      /\ main'[i].counter = counter /\ main'[i].owner # Failed
                           /\ NoNotice(i - 1)' => main'[i].owner = provider
    BY DEF RepliesFollow
  <2>1. main'[i] = main[i + 1] /\ i + 1 \in 1..Len(main) /\ i - 1 \in 0..Len(main')
        /\ i - 1 + 1 = i /\ i + 1 - 1 = i
    BY <1>1
  <2>2. NoNotice(i - 1)' => NoNotice(i + 1 - 1)
    BY <1>8, <2>1
  <2> QED BY <2>1, <2>2 DEF Queues, RepliesFollow
<1>11. Sound'
  BY SoundUnchanged
<1> QED BY <1>5, <1>6, <1>7, <1>9, <1>10, <1>11 DEF Queues

LEMMA AppWritesKeeps == Inv /\ AppWrites => Inv'
<1> SUFFICES ASSUME Inv, AppWrites PROVE Inv'
  OBVIOUS
<1> USE DEF Inv, AppWrites
<1> DEFINE e == [kind |-> "write", user |-> provider]
<1>1. e \in Operations /\ e.kind = "write" /\ e.user = provider
  BY DEF Operations, TypeOK
<1>2. worker' = Append(worker, e) /\ UNCHANGED <<user, provider>>
  OBVIOUS
<1> HIDE DEF e
<1>3. WorkerHears' /\ TokensFollow' /\ WritesFollow' /\ worker' \in Seq(Operations)
  BY <1>1, <1>2, AppendKeeps
<1>4. TypeOK'
  BY <1>3 DEF TypeOK
<1>5. MainHears' /\ RequestsFollow' /\ RepliesFollow'
  BY DEF Queues, MainHears, RequestsFollow, RepliesFollow, NoNotice
<1>6. Sound'
  BY SoundUnchanged
<1> QED BY <1>3, <1>4, <1>5, <1>6 DEF Queues

LEMMA InvStep == Inv /\ [Next]_streamVars => Inv'
<1> SUFFICES ASSUME Inv, [Next]_streamVars PROVE Inv'
  OBVIOUS
<1>1. CASE Client
  BY <1>1, HearNoticeKeeps, HearReplyKeeps, WriteKeeps, ChangeKeeps, ResumeKeeps,
     TimersKeep DEF Client
<1>2. CASE Server
  BY <1>2, HandshakeKeeps, ResultKeeps DEF Server
<1>3. CASE Environment
  BY <1>3, AuthChangesKeeps, AppWritesKeeps, FinishKeeps, TimersKeep DEF Environment
<1>4. CASE Auth
  BY <1>4, AuthKeeps DEF Auth
<1>5. CASE UNCHANGED streamVars
  BY <1>5 DEF streamVars, Inv, TypeOK, Queues, MainHears, WorkerHears, TokensFollow,
     WritesFollow, RequestsFollow, RepliesFollow, NoNotice, Sound, TokenIsUsers,
     AnswersMatchPipeline
<1> QED BY <1>1, <1>2, <1>3, <1>4, <1>5 DEF Next

(* The streams, tokens and queues keep the inductive invariant.              *)
THEOREM StreamInvariant == Spec => []Inv
BY InvInit, InvStep, PTL DEF Spec

(* The variables keep their types.                                           *)
THEOREM StreamTypes == Spec => []TypeOK
<1>1. Inv => TypeOK
  BY DEF Inv
<1> QED BY <1>1, StreamInvariant, PTL

(* An open stream is the client's user's, and so is all it may send.         *)
THEOREM NoForeignToken == Spec => []TokenIsUsers
<1>1. Inv => TokenIsUsers
  BY DEF Inv, Sound
<1> QED BY <1>1, StreamInvariant, PTL

(* Answers arrive in the order of the pipeline, which is all on the wire     *)
(* once the handshake is done.                                               *)
THEOREM AnswersFindTheirWrite == Spec => []AnswersMatchPipeline
<1>1. Inv => AnswersMatchPipeline
  BY DEF Inv, Sound
<1> QED BY <1>1, StreamInvariant, PTL

(* A write runs under the user it was made for.                              *)
THEOREM WritesStayWithUser == Spec => []WritesKeepTheirUser
<1>1. Inv => WritesKeepTheirUser
  <2> SUFFICES ASSUME Inv, worker # <<>>, Head(worker).kind = "write"
               PROVE  Head(worker).user = user
    BY DEF WritesKeepTheirUser
  <2>1. 1 \in 1..Len(worker) /\ Head(worker) = worker[1]
    BY DEF Inv, TypeOK
  <2>2. UserAt(worker, "credential", 1, user, worker[1].user)
    BY <2>1 DEF Inv, Queues, WritesFollow
  <2> QED BY <2>1, <2>2, UserAtHead
<1> QED BY <1>1, StreamInvariant, PTL
-----------------------------------------------------------------------------
(* The token a starting stream waits for, its ticket, is with FIRAuth, on    *)
(* the main queue or on the worker queue.                                    *)
Places(q, kind, c) == {i \in 1..Len(q) : q[i].kind = kind /\ q[i].closes = c}

Requested(c) == {r \in requests : r.closes = c}
Replied(c) == Places(main, "reply", c)
Arrived(c) == Places(worker, "token", c)

NoPost(c) == Replied(c) = {} /\ Arrived(c) = {}
OnePost(c) ==
  \/ Arrived(c) = {} /\ \E i : Replied(c) = {i}
  \/ Replied(c) = {} /\ \E i : Arrived(c) = {i}

NoTicket(c) == Requested(c) = {} /\ NoPost(c)
OneTicket(c) ==
  \/ NoPost(c) /\ \E r : Requested(c) = {r}
  \/ Requested(c) = {} /\ OnePost(c)

(* A starting stream has one ticket, and there is none for a later stream.   *)
Tickets ==
  \A c \in Nat :
    IF c = stream.closes /\ stream.state = "Starting"
      THEN OneTicket(c)
      ELSE c >= stream.closes => NoTicket(c)

(* What waits keeps the stream going, and only an open stream that had its   *)
(* handshake and has nothing to send is idle.                                *)
GoesOn(r) ==
  /\ r.p # <<>> => Started(r.s)
  /\ r.s.idle => r.s.state = "Open" /\ r.s.handshake /\ r.p = <<>>

Going == Tickets /\ GoesOn(Here)

(* A task joins a queue behind the others.                                   *)
LEMMA PlacesAppend ==
  ASSUME NEW S, NEW q \in Seq(S), NEW e \in S, NEW kind, NEW c
  PROVE  Places(Append(q, e), kind, c) =
           Places(q, kind, c) \cup
             IF e.kind = kind /\ e.closes = c THEN {Len(q) + 1} ELSE {}
<1>1. /\ Len(Append(q, e)) = Len(q) + 1 /\ Len(q) \in Nat
      /\ Append(q, e)[Len(q) + 1] = e
      /\ \A i \in 1..Len(q) : Append(q, e)[i] = q[i]
  OBVIOUS
<1>2. 1..(Len(q) + 1) = 1..Len(q) \cup {Len(q) + 1}
  BY <1>1
<1> QED BY <1>1, <1>2 DEF Places

(* The head leaves, the others move up.                                      *)
LEMMA PlacesTail ==
  ASSUME NEW S, NEW q \in Seq(S), q # <<>>, NEW kind, NEW c
  PROVE  /\ Places(q, kind, c) = {} => Places(Tail(q), kind, c) = {}
         /\ \A i : Places(q, kind, c) = {i} =>
              IF Head(q).kind = kind /\ Head(q).closes = c
                THEN i = 1 /\ Places(Tail(q), kind, c) = {}
                ELSE Places(Tail(q), kind, c) = {i - 1}
<1>1. /\ Len(q) \in Nat \ {0} /\ Len(Tail(q)) = Len(q) - 1 /\ Head(q) = q[1]
      /\ \A i \in 1..Len(Tail(q)) : Tail(q)[i] = q[i + 1]
  OBVIOUS
<1>2. \A i \in Places(Tail(q), kind, c) : i + 1 \in Places(q, kind, c) /\ i \in Nat \ {0}
  BY <1>1 DEF Places
<1>3. \A i \in Places(q, kind, c) : i # 1 => i - 1 \in Places(Tail(q), kind, c)
  <2> SUFFICES ASSUME NEW i \in Places(q, kind, c), i # 1
               PROVE  i - 1 \in Places(Tail(q), kind, c)
    OBVIOUS
  <2>1. i - 1 \in 1..Len(Tail(q)) /\ i - 1 + 1 = i
    BY <1>1 DEF Places
  <2>2. Tail(q)[i - 1] = q[i]
    BY <1>1, <2>1
  <2> QED BY <2>1, <2>2 DEF Places
<1>4. 1 \in Places(q, kind, c) <=> Head(q).kind = kind /\ Head(q).closes = c
  BY <1>1 DEF Places
<1>5. ASSUME NEW i, Places(q, kind, c) = {i}
      PROVE  IF Head(q).kind = kind /\ Head(q).closes = c
               THEN i = 1 /\ Places(Tail(q), kind, c) = {}
               ELSE Places(Tail(q), kind, c) = {i - 1}
  <2>1. i \in Nat \ {0}
    BY <1>1, <1>5 DEF Places
  <2>2. \A j \in Places(Tail(q), kind, c) : j + 1 = i /\ j \in Nat \ {0}
    BY <1>2, <1>5
  <2>3. CASE i = 1
    <3>1. Places(Tail(q), kind, c) = {}
      BY <2>2, <2>3
    <3> QED BY <1>4, <1>5, <2>3, <3>1
  <2>4. CASE i # 1
    <3>1. i - 1 \in Places(Tail(q), kind, c)
      BY <1>3, <1>5, <2>4
    <3>2. \A j \in Places(Tail(q), kind, c) : j = i - 1
      BY <2>1, <2>2
    <3>3. Places(Tail(q), kind, c) = {i - 1}
      BY <3>1, <3>2
    <3> QED BY <1>4, <1>5, <2>4, <3>3
  <2> QED BY <2>3, <2>4
<1> QED BY <1>2, <1>5

-----------------------------------------------------------------------------
(* What StartIfNeeded and Fill do to the state of the stream.                *)
LEMMA StartGoesOn ==
  ASSUME NEW s \in Streams, NEW p
  PROVE  LET f == StartIfNeeded([s |-> s, p |-> p])
         IN /\ f.p = p /\ f.s.closes = s.closes
            /\ f.s.handshake = s.handshake /\ f.s.idle = s.idle
            /\ Started(s) => f.s.state = s.state
            /\ f.s.state = "Open" <=> s.state = "Open"
            /\ p # <<>> => Started(f.s)
<1> DEFINE r == [s |-> s, p |-> p]
<1>1. CASE ~ShouldStart(r)
  BY <1>1 DEF StartIfNeeded, ShouldStart
<1>2. CASE ShouldStart(r)
  <2>1. ~Started(s)
    BY <1>2 DEF ShouldStart
  <2>2. Start(r) = [s |-> [s EXCEPT !.state = IF @ = "Error" THEN "Backoff"
                                                             ELSE "Starting"],
                    p |-> p]
    BY DEF Start
  <2> HIDE DEF r
  <2> QED BY <1>2, <2>1, <2>2 DEF StartIfNeeded, Streams, Started, r
<1> QED BY <1>1, <1>2

LEMMA FillGoesOn ==
  ASSUME NEW s \in Streams, NEW p \in Seq(People), NEW n \in Nat, NEW u \in People,
         s.idle => s.state = "Open" /\ s.handshake /\ p = <<>>,
         s.state = "Open" /\ n = 0 => s.handshake
  PROVE  LET f == Fill([s |-> s, p |-> p], n, u)
         IN /\ f.s \in Streams /\ f.s.closes = s.closes
            /\ Started(s) => f.s.state = s.state
            /\ f.s.state = "Open" <=> s.state = "Open"
            /\ GoesOn(f)
<1> DEFINE size == Larger(Len(p), Smaller(n, MaxPipeline))
           sends == IF s.state = "Open" /\ s.handshake THEN size - Len(p) ELSE 0
           still == \/ s.idle /\ sends = 0
                    \/ s.state = "Open" /\ size = 0
           fp == [i \in 1..size |-> IF i <= Len(p) THEN p[i] ELSE u]
           fs == [s EXCEPT !.sent = @ + sends, !.idle = still]
           f == StartIfNeeded([s |-> fs, p |-> fp])
<1>1. Fill([s |-> s, p |-> p], n, u) = f
  BY DEF Fill
<1>2. /\ size \in Nat /\ size >= Len(p) /\ Len(p) \in Nat
      /\ size = 0 => n = 0 /\ Len(p) = 0
  BY StreamAssumption DEF Larger, Smaller
<1>3. sends \in Nat
  BY <1>2
<1>4. fp = <<>> <=> size = 0
  BY <1>2
<1>5. /\ still \in BOOLEAN
      /\ still => s.state = "Open" /\ s.handshake /\ size = 0
  BY <1>2
<1> HIDE DEF fp, size, sends, still
<1>6. /\ fs \in Streams /\ fs.state = s.state /\ fs.closes = s.closes
      /\ fs.handshake = s.handshake /\ fs.idle = still
  <2>1. s.sent + sends \in Nat
    BY <1>3 DEF Streams
  <2> QED BY <1>5, <2>1 DEF Streams
<1> HIDE DEF fs
<1>7. /\ f.s \in Streams /\ f.p = fp /\ f.s.closes = fs.closes
      /\ f.s.handshake = fs.handshake /\ f.s.idle = fs.idle
      /\ Started(fs) => f.s.state = fs.state
      /\ f.s.state = "Open" <=> fs.state = "Open"
      /\ fp # <<>> => Started(f.s)
  BY <1>6, StartSound, StartGoesOn
<1> HIDE DEF f
<1> QED BY <1>1, <1>4, <1>5, <1>6, <1>7 DEF GoesOn, Started

(* A closed stream is another one, and not idle.                             *)
LEMMA ClosedGoesOn ==
  ASSUME NEW s \in Streams, NEW state \in {"Initial", "Error"}
  PROVE  /\ Closed(s, state).closes = s.closes + 1
         /\ Closed(s, state).closes > s.closes
         /\ ~Closed(s, state).idle
BY DEF Closed, Streams

-----------------------------------------------------------------------------
(* What is left alone, by any step.                                          *)
LEMMA GoesOnSame ==
  GoesOn(Here) /\ UNCHANGED <<pipeline, stream>> => GoesOn(Here)'
BY DEF GoesOn, Here, Started

(* A handler that keeps the stream it found starting, or leaves a later one, *)
(* keeps the tickets if those on the queues stay.                            *)
LEMMA LeavesTickets ==
  ASSUME TypeOK, Tickets, NEW r, r.s \in Streams, Leaves(r),
         \/ /\ r.s.closes = stream.closes
            /\ stream.state = "Starting" => r.s.state = "Starting"
         \/ r.s.closes > stream.closes,
         \A c \in Nat : c >= r.s.closes =>
           (NoPost(c) => NoPost(c)') /\ (OnePost(c) => OnePost(c)')
  PROVE  Tickets'
<1>1. stream' = r.s /\ stream.closes \in Nat /\ r.s.closes \in Nat
  BY DEF Leaves, TypeOK, Streams
<1> SUFFICES ASSUME NEW c \in Nat, c >= r.s.closes
             PROVE  IF c = r.s.closes /\ r.s.state = "Starting"
                      THEN OneTicket(c)' ELSE NoTicket(c)'
  BY <1>1 DEF Tickets
<1>2. (NoPost(c) => NoPost(c)') /\ (OnePost(c) => OnePost(c)')
  OBVIOUS
<1>3. CASE c = r.s.closes /\ r.s.state = "Starting"
  <2>1. CASE stream.state = "Starting" /\ stream.closes = r.s.closes
    <3>1. OneTicket(c)
      BY <1>3, <2>1 DEF Tickets
    <3>2. Requested(c)' = Requested(c)
      BY <1>3, <2>1 DEF Leaves, Requested
    <3> QED BY <1>2, <1>3, <3>1, <3>2 DEF OneTicket
  <2>2. CASE stream.state # "Starting" \/ stream.closes # r.s.closes
    <3> DEFINE q == [counter |-> counter, closes |-> r.s.closes, owner |-> Unread]
    <3>1. NoTicket(c)
      BY <1>1, <1>3, <2>2 DEF Tickets
    <3>2. requests' = requests \cup {q} /\ q.closes = c
      BY <1>3, <2>2 DEF Leaves
    <3> HIDE DEF q
    <3>3. Requested(c)' = {q}
      BY <3>1, <3>2 DEF Requested, NoTicket
    <3> QED BY <1>2, <1>3, <3>1, <3>3 DEF OneTicket, NoTicket
  <2> QED BY <2>1, <2>2
<1>4. CASE ~(c = r.s.closes /\ r.s.state = "Starting")
  <2>1. NoTicket(c)
    BY <1>1, <1>4 DEF Tickets
  <2>2. \A q \in requests' : q \in requests \/ q.closes # c
    BY <1>4 DEF Leaves
  <2>3. Requested(c)' = {}
    BY <2>1, <2>2 DEF Requested, NoTicket
  <2> QED BY <1>2, <1>4, <2>1, <2>3 DEF NoTicket
<1> QED BY <1>3, <1>4

(* A step that leaves the state of the stream keeps the tickets if it takes  *)
(* none away and adds none.                                                  *)
LEMMA SameTickets ==
  ASSUME Tickets, stream'.closes = stream.closes, stream'.state = stream.state,
         \A c \in Nat : (NoTicket(c) => NoTicket(c)') /\ (OneTicket(c) => OneTicket(c)')
  PROVE  Tickets'
BY DEF Tickets

(* An event between two operations moves nothing on the queues.              *)
LEMMA EventPosts ==
  ASSUME Event, NEW c
  PROVE  (NoPost(c) => NoPost(c)') /\ (OnePost(c) => OnePost(c)')
BY DEF Event, NoPost, OnePost, Replied, Arrived, Places

(* An operation takes itself from the worker queue.                          *)
LEMMA RunPosts ==
  ASSUME TypeOK, NEW kind, Runs(kind), NEW c,
         kind # "token" \/ Head(worker).closes # c
  PROVE  (NoPost(c) => NoPost(c)') /\ (OnePost(c) => OnePost(c)')
<1>1. /\ worker \in Seq(Operations) /\ worker # <<>> /\ worker' = Tail(worker)
      /\ ~(Head(worker).kind = "token" /\ Head(worker).closes = c)
      /\ Replied(c)' = Replied(c)
  BY DEF TypeOK, Runs, Replied, Places
<1>2. /\ Arrived(c) = {} => Arrived(c)' = {}
      /\ \A i : Arrived(c) = {i} => Arrived(c)' = {i - 1}
  BY <1>1, PlacesTail DEF Arrived
<1> QED BY <1>1, <1>2 DEF NoPost, OnePost

(* The ticket of a starting stream at the head of the worker queue is its    *)
(* only one, so no other stream than a starting one finds a token.           *)
LEMMA TokenIsTicket ==
  ASSUME TypeOK, Tickets, worker # <<>>, Head(worker).kind = "token",
         ~IsStale(Head(worker))
  PROVE  /\ stream.state = "Starting"
         /\ Requested(stream.closes) = {} /\ Replied(stream.closes) = {}
         /\ \E i : Arrived(stream.closes) = {i}
<1>1. stream.closes \in Nat /\ Head(worker).closes = stream.closes
  BY DEF TypeOK, Streams, IsStale
<1>2. 1 \in Arrived(stream.closes)
  BY <1>1 DEF TypeOK, Arrived, Places
<1>3. stream.state = "Starting"
  BY <1>1, <1>2 DEF Tickets, NoTicket, NoPost
<1>4. OneTicket(stream.closes)
  BY <1>1, <1>3 DEF Tickets
<1> QED BY <1>2, <1>3, <1>4 DEF OneTicket, OnePost, NoPost

LEMMA WriteGoesOn == Inv /\ Going /\ WriteMutations => Going'
<1> SUFFICES ASSUME Inv, Going, WriteMutations PROVE Going'
  OBVIOUS
<1> DEFINE n == queue[user] + 1
           f == Fill([s |-> stream, p |-> pipeline], n, user)
<1>1. /\ TypeOK /\ Tickets /\ GoesOn(Here)
      /\ Runs("write") /\ Leaves(f)
  BY DEF WriteMutations, Here, Inv, Going
<1>2. /\ stream \in Streams /\ pipeline \in Seq(People) /\ user \in People
      /\ n \in Nat /\ n # 0
  BY <1>1 DEF TypeOK
<1>3. /\ f.s.closes = stream.closes
      /\ Started(stream) => f.s.state = stream.state
      /\ GoesOn(f)
  <2>1. stream.idle => stream.state = "Open" /\ stream.handshake /\ pipeline = <<>>
    BY <1>1 DEF GoesOn, Here
  <2> HIDE DEF n
  <2> QED BY <1>2, <2>1, FillGoesOn
<1> HIDE DEF f, n
<1>4. stream' = f.s /\ pipeline' = f.p
  BY <1>1 DEF Leaves
<1>5. TypeOK'
  BY WriteKeeps DEF Inv
<1>6. Tickets'
  <2>1. \A c \in Nat : (NoPost(c) => NoPost(c)') /\ (OnePost(c) => OnePost(c)')
    BY <1>1, RunPosts
  <2>2. stream.state = "Starting" => f.s.state = "Starting"
    BY <1>3 DEF Started
  <2>3. f.s \in Streams
    BY <1>4, <1>5 DEF TypeOK
  <2> QED BY <1>1, <1>3, <2>1, <2>2, <2>3, LeavesTickets
<1>7. GoesOn(Here)'
  BY <1>3, <1>4 DEF GoesOn, Here, Started
<1> QED BY <1>6, <1>7 DEF Going

LEMMA ChangeGoesOn == Inv /\ Going /\ HandleCredentialChange => Going'
<1> SUFFICES ASSUME Inv, Going, HandleCredentialChange PROVE Going'
  OBVIOUS
<1> DEFINE u == Head(worker).user
           n == queue[u]
           k == IF Started(stream) THEN Closed(stream, "Initial") ELSE stream
           d == [k EXCEPT !.handshake = FALSE]
           f == Fill([s |-> d, p |-> <<>>], n, u)
<1>1. /\ TypeOK /\ Tickets /\ GoesOn(Here)
      /\ Runs("credential") /\ Leaves(f) /\ user' = u /\ queue' = queue
  BY DEF HandleCredentialChange, Disabled, Here, Inv, Going
<1>2. TypeOK'
  BY ChangeKeeps DEF Inv
<1>3. stream \in Streams /\ u \in People /\ n \in Nat /\ <<>> \in Seq(People)
  BY <1>1, <1>2 DEF TypeOK
<1>4. /\ k \in Streams /\ k.state # "Open" /\ ~k.idle
      /\ IF Started(stream) THEN k.closes > stream.closes ELSE k = stream
  <2>1. CASE Started(stream)
    BY <1>3, <2>1, ClosedSound, ClosedGoesOn
  <2>2. CASE ~Started(stream)
    BY <1>1, <1>3, <2>2 DEF Started, GoesOn, Here
  <2> QED BY <2>1, <2>2
<1> HIDE DEF k
<1>5. /\ d \in Streams /\ d.state = k.state /\ d.closes = k.closes /\ d.idle = k.idle
  BY <1>4 DEF Streams
<1> HIDE DEF d, n, u
<1>6. /\ f.s.closes = d.closes
      /\ GoesOn(f)
  BY <1>3, <1>4, <1>5, FillGoesOn
<1> HIDE DEF f
<1>7. stream' = f.s /\ pipeline' = f.p
  BY <1>1 DEF Leaves
<1>8. Tickets'
  <2>1. \A c \in Nat : (NoPost(c) => NoPost(c)') /\ (OnePost(c) => OnePost(c)')
    BY <1>1, RunPosts
  <2>2. stream.state = "Starting" => f.s.closes > stream.closes
    BY <1>4, <1>5, <1>6 DEF Started
  <2>3. f.s \in Streams
    BY <1>2, <1>7 DEF TypeOK
  <2>4. f.s.closes = stream.closes \/ f.s.closes > stream.closes
    BY <1>4, <1>5, <1>6
  <2> QED BY <1>1, <2>1, <2>2, <2>3, <2>4, LeavesTickets
<1>9. GoesOn(Here)'
  BY <1>6, <1>7 DEF GoesOn, Here, Started
<1> QED BY <1>8, <1>9 DEF Going

(* A stream that is lost is another one, and asks for its token anew.        *)
LEMMA ErrorGoesOn ==
  ASSUME TypeOK, Sound, NEW permanent \in BOOLEAN
  PROVE  /\ AfterError(permanent).s.closes > stream.closes
         /\ GoesOn(AfterError(permanent))
<1>1. /\ stream \in Streams /\ pipeline \in Seq(People) /\ user \in People
      /\ stream.closes \in Nat
  BY DEF TypeOK, Streams
<1>2. ASSUME NEW g, g.s \in Streams, g.s.closes > stream.closes, GoesOn(g),
             ~g.s.idle,
             AfterError(permanent) = [s |-> [g.s EXCEPT !.handshake = FALSE], p |-> g.p]
      PROVE  AfterError(permanent).s.closes > stream.closes /\ GoesOn(AfterError(permanent))
  <2> DEFINE h == [g.s EXCEPT !.handshake = FALSE]
  <2>1. h.closes = g.s.closes /\ h.state = g.s.state /\ h.idle = g.s.idle
    BY <1>2 DEF Streams
  <2>2. AfterError(permanent) = [s |-> h, p |-> g.p]
    BY <1>2
  <2> HIDE DEF h
  <2>3. AfterError(permanent).s = h /\ AfterError(permanent).p = g.p
    BY <2>2
  <2>4. ~h.idle /\ (g.p # <<>> => Started(h))
    BY <1>2, <2>1 DEF GoesOn, Started
  <2> QED BY <1>2, <2>1, <2>3, <2>4 DEF GoesOn
<1>3. CASE Refuses(permanent)
  <2> DEFINE s == Closed(stream, "Initial")
             p == Tail(pipeline)
             n == queue[user] - 1
             f == Fill([s |-> s, p |-> p], n, user)
             g == StartIfNeeded(f)
  <2>1. p \in Seq(People) /\ n \in Nat
    <3>1. pipeline # <<>>
      BY <1>3 DEF Refuses
    <3>2. queue[user] - 1 \in Nat
      BY <1>3, ErrorSound
    <3> QED BY <1>1, <3>1, <3>2
  <2>2. /\ s \in Streams /\ s.state = "Initial" /\ s.closes > stream.closes /\ ~s.idle
    BY <1>1, ClosedSound, ClosedGoesOn
  <2>3. AfterError(permanent) = [s |-> [g.s EXCEPT !.handshake = FALSE], p |-> g.p]
    BY <1>3 DEF AfterError
  <2>4. f = [s |-> f.s, p |-> f.p]
    BY DEF Fill, StartIfNeeded, Start
  <2> HIDE DEF s, p, n
  <2>5. /\ f.s \in Streams /\ f.s.closes = s.closes /\ f.s.state # "Open" /\ GoesOn(f)
    BY <1>1, <2>1, <2>2, FillGoesOn
  <2> HIDE DEF f
  <2>6. /\ g.s \in Streams /\ g.p = f.p /\ g.s.closes = f.s.closes
        /\ g.s.idle = f.s.idle
        /\ g.p # <<>> => Started(g.s)
    BY <2>4, <2>5, StartSound, StartGoesOn
  <2> HIDE DEF g
  <2>7. ~g.s.idle
    BY <2>5, <2>6 DEF GoesOn
  <2>8. GoesOn(g) /\ g.s.closes > stream.closes
    BY <2>2, <2>5, <2>6, <2>7 DEF GoesOn
  <2> QED BY <1>2, <2>3, <2>6, <2>7, <2>8
<1>4. CASE ~Refuses(permanent)
  <2> DEFINE s == Closed(stream, "Error")
             g == StartIfNeeded([s |-> s, p |-> pipeline])
  <2>1. s \in Streams /\ s.state = "Error" /\ s.closes > stream.closes /\ ~s.idle
    BY <1>1, ClosedSound, ClosedGoesOn
  <2>2. AfterError(permanent) = [s |-> [g.s EXCEPT !.handshake = FALSE], p |-> g.p]
    BY <1>4 DEF AfterError
  <2> HIDE DEF s
  <2>3. /\ g.s \in Streams /\ g.p = pipeline /\ g.s.closes = s.closes
        /\ g.s.idle = s.idle
        /\ g.p # <<>> => Started(g.s)
    BY <2>1, StartSound, StartGoesOn
  <2> HIDE DEF g
  <2>4. ~g.s.idle
    BY <2>1, <2>3
  <2>5. GoesOn(g) /\ g.s.closes > stream.closes
    BY <2>1, <2>3, <2>4 DEF GoesOn
  <2> QED BY <1>2, <2>2, <2>3, <2>4, <2>5
<1> QED BY <1>3, <1>4

(* The stream is lost in an event, or in the operation that brings a ticket. *)
LEMMA CloseGoesOn ==
  ASSUME TypeOK, TypeOK', Sound, Going, NEW permanent \in BOOLEAN,
         CloseOnError(permanent),
         \/ Event
         \/ \E kind : Runs(kind) /\ (kind # "token" \/ Head(worker).closes = stream.closes)
  PROVE  Going'
<1> DEFINE r == AfterError(permanent)
<1>1. r.s.closes > stream.closes /\ GoesOn(r) /\ stream.closes \in Nat
  BY ErrorGoesOn DEF TypeOK, Streams
<1>2. Leaves(r)
  BY DEF CloseOnError
<1> HIDE DEF r
<1>3. stream' = r.s /\ pipeline' = r.p /\ r.s \in Streams /\ r.s.closes \in Nat
  BY <1>2 DEF Leaves, TypeOK, Streams
<1>4. \A c \in Nat : c >= r.s.closes =>
        (NoPost(c) => NoPost(c)') /\ (OnePost(c) => OnePost(c)')
  BY <1>1, <1>3, EventPosts, RunPosts
<1>5. Tickets'
  BY <1>1, <1>2, <1>3, <1>4, LeavesTickets DEF Going
<1>6. GoesOn(Here)'
  BY <1>1, <1>3 DEF GoesOn, Here, Started
<1> QED BY <1>5, <1>6 DEF Going

LEMMA FinishGoesOn ==
  ASSUME NEW permanent \in BOOLEAN, Inv, Going, OnStreamFinish(permanent)
  PROVE  Going'
BY FinishKeeps, CloseGoesOn DEF Inv, OnStreamFinish

LEMMA ResumeGoesOn == Inv /\ Going /\ ResumeStartWithCredentials => Going'
<1> SUFFICES ASSUME Inv, Going, ResumeStartWithCredentials PROVE Going'
  OBVIOUS
<1> DEFINE token == Head(worker)
<1>1. /\ TypeOK /\ TypeOK' /\ Sound /\ Tickets /\ GoesOn(Here) /\ Runs("token")
      /\ stream.closes \in Nat
  BY ResumeKeeps DEF Inv, Going, ResumeStartWithCredentials, TypeOK, Streams
<1>2. CASE IsStale(token)
  <2>1. UNCHANGED <<queue, pipeline, stream, requests>>
    BY <1>2 DEF ResumeStartWithCredentials
  <2>2. token.closes \in Nat => token.closes < stream.closes
    <3>1. worker # <<>> /\ token = worker[1] /\ token.kind = "token"
      BY <1>1 DEF Runs, TypeOK
    <3>2. token.closes # stream.closes
      BY <1>2 DEF IsStale
    <3>3. 1 \in Arrived(token.closes)
      <4>1. 1 \in 1..Len(worker)
        BY <1>1, <3>1 DEF TypeOK
      <4> QED BY <3>1, <4>1 DEF Arrived, Places
    <3>4. ~NoTicket(token.closes)
      BY <3>3 DEF NoTicket, NoPost
    <3> QED BY <1>1, <3>2, <3>4 DEF Tickets
  <2>3. ASSUME NEW c \in Nat, c >= stream.closes
        PROVE  (NoTicket(c) => NoTicket(c)') /\ (OneTicket(c) => OneTicket(c)')
    <3>1. (NoPost(c) => NoPost(c)') /\ (OnePost(c) => OnePost(c)')
      BY <1>1, <2>2, <2>3, RunPosts
    <3>2. Requested(c)' = Requested(c)
      BY <2>1 DEF Requested
    <3> QED BY <3>1, <3>2 DEF NoTicket, OneTicket
  <2>4. Tickets'
    BY <1>1, <2>1, <2>3 DEF Tickets
  <2> QED BY <1>1, <2>1, <2>4, GoesOnSame DEF Going
<1>3. CASE ~IsStale(token) /\ token.owner = Failed
  <2>1. CloseOnError(FALSE) /\ token.closes = stream.closes
    BY <1>3 DEF ResumeStartWithCredentials, IsStale
  <2> QED BY <1>1, <2>1, CloseGoesOn
<1>4. CASE ~IsStale(token) /\ token.owner # Failed
  <2>1. /\ stream' = [stream EXCEPT !.state = "Open", !.token = token.owner]
        /\ UNCHANGED <<queue, pipeline, requests>>
    BY <1>4 DEF ResumeStartWithCredentials
  <2>2. /\ stream'.state = "Open" /\ stream'.closes = stream.closes
        /\ stream'.idle = stream.idle
    BY <1>1, <2>1 DEF TypeOK, Streams
  <2>3. /\ stream.state = "Starting" /\ token.closes = stream.closes
        /\ Requested(stream.closes) = {} /\ Replied(stream.closes) = {}
        /\ \E i : Arrived(stream.closes) = {i}
    BY <1>1, <1>4, TokenIsTicket DEF Runs, IsStale
  <2>4. NoTicket(stream.closes)'
    <3>1. Requested(stream.closes)' = {} /\ Replied(stream.closes)' = {}
      BY <1>1, <2>1, <2>2, <2>3 DEF Requested, Replied, Places, Runs
    <3>2. Arrived(stream.closes)' = {}
      <4>1. /\ worker \in Seq(Operations) /\ worker # <<>> /\ worker' = Tail(worker)
            /\ token.kind = "token"
        BY <1>1 DEF TypeOK, Runs
      <4>2. Places(Tail(worker), "token", stream.closes) = {}
        BY <2>3, <4>1, PlacesTail DEF Arrived
      <4> QED BY <2>2, <4>1, <4>2 DEF Arrived, Places
    <3> QED BY <3>1, <3>2 DEF NoTicket, NoPost
  <2>5. ASSUME NEW c \in Nat, c > stream.closes PROVE NoTicket(c)'
    <3>1. NoTicket(c)
      BY <1>1, <2>5 DEF Tickets
    <3>2. NoPost(c)'
      BY <1>1, <2>3, <2>5, <3>1, RunPosts DEF NoTicket
    <3>3. Requested(c)' = {}
      BY <2>1, <3>1 DEF Requested, NoTicket
    <3> QED BY <3>2, <3>3 DEF NoTicket
  <2>6. Tickets'
    BY <1>1, <2>2, <2>4, <2>5 DEF Tickets
  <2>7. GoesOn(Here)'
    BY <1>1, <2>1, <2>2, <2>3 DEF GoesOn, Here, Started
  <2> QED BY <2>6, <2>7 DEF Going
<1> QED BY <1>2, <1>3, <1>4

LEMMA HandshakeGoesOn == Inv /\ Going /\ OnWriteStreamHandshakeComplete => Going'
<1> SUFFICES ASSUME Inv, Going, OnWriteStreamHandshakeComplete PROVE Going'
  OBVIOUS
<1> USE DEF OnWriteStreamHandshakeComplete
<1>1. /\ stream \in Streams /\ stream.state = "Open" /\ pipeline' = pipeline
      /\ Tickets /\ GoesOn(Here)
  BY DEF Inv, TypeOK, Going
<1> DEFINE still == stream.idle /\ pipeline = <<>>
<1>2. still \in BOOLEAN /\ (still => pipeline = <<>>)
  OBVIOUS
<1>3. stream' = [stream EXCEPT !.handshake = TRUE, !.sent = Len(pipeline), !.idle = still]
  OBVIOUS
<1> HIDE DEF still
<1>4. /\ stream'.state = stream.state /\ stream'.closes = stream.closes
      /\ stream'.handshake = TRUE /\ stream'.idle = still
  BY <1>1, <1>3 DEF Streams
<1>5. \A c \in Nat : (NoTicket(c) => NoTicket(c)') /\ (OneTicket(c) => OneTicket(c)')
  BY EventPosts DEF NoTicket, OneTicket, Requested
<1>6. Tickets'
  BY <1>1, <1>4, <1>5, SameTickets
<1>7. GoesOn(Here)'
  BY <1>1, <1>2, <1>4 DEF GoesOn, Here, Started
<1> QED BY <1>6, <1>7 DEF Going

LEMMA ResultGoesOn == Inv /\ Going /\ OnWriteStreamMutationResult => Going'
<1> SUFFICES ASSUME Inv, Going, OnWriteStreamMutationResult PROVE Going'
  OBVIOUS
<1> DEFINE n == queue[user] - 1
           s == [stream EXCEPT !.sent = @ - 1]
           p == Tail(pipeline)
           f == Fill([s |-> s, p |-> p], n, user)
<1>1. /\ Event /\ stream.state = "Open" /\ stream.handshake /\ stream.sent > 0
      /\ Leaves(f) /\ TypeOK /\ TypeOK' /\ Tickets /\ GoesOn(Here)
      /\ AnswersMatchPipeline
  BY ResultKeeps DEF OnWriteStreamMutationResult, Inv, Going, Sound
<1>2. /\ stream \in Streams /\ pipeline \in Seq(People) /\ user \in People
      /\ queue[user] \in Nat
  BY <1>1 DEF TypeOK
<1>3. pipeline # <<>> /\ n \in Nat
  BY <1>1, <1>2, StreamAssumption DEF AnswersMatchPipeline, Smaller
<1>4. /\ s \in Streams /\ s.closes = stream.closes /\ s.state = stream.state
      /\ s.handshake = stream.handshake /\ s.idle = stream.idle
  <2>1. stream.sent - 1 \in Nat
    BY <1>1, <1>2 DEF Streams
  <2> QED BY <1>2, <2>1 DEF Streams
<1>5. p \in Seq(People)
  BY <1>2, <1>3
<1>6. ~stream.idle
  BY <1>1, <1>3 DEF GoesOn, Here
<1> HIDE DEF s, p, n
<1>7. f.s.closes = s.closes /\ GoesOn(f)
  BY <1>1, <1>2, <1>3, <1>4, <1>5, <1>6, FillGoesOn
<1> HIDE DEF f
<1>8. stream' = f.s /\ pipeline' = f.p /\ f.s \in Streams
  BY <1>1 DEF Leaves, TypeOK
<1>9. Tickets'
  <2>1. \A c \in Nat : (NoPost(c) => NoPost(c)') /\ (OnePost(c) => OnePost(c)')
    BY <1>1, EventPosts
  <2>2. stream.state # "Starting"
    BY <1>1
  <2> QED BY <1>1, <1>4, <1>7, <1>8, <2>1, <2>2, LeavesTickets
<1>10. GoesOn(Here)'
  BY <1>7, <1>8 DEF GoesOn, Here, Started
<1> QED BY <1>9, <1>10 DEF Going

LEMMA TimersGoOn == Inv /\ Going /\ (IdleTimeout \/ BackoffElapsed) => Going'
<1> SUFFICES ASSUME Inv, Going, IdleTimeout \/ BackoffElapsed PROVE Going'
  OBVIOUS
<1>1. /\ stream \in Streams /\ TypeOK /\ TypeOK' /\ Tickets /\ GoesOn(Here)
  BY TimersKeep DEF Inv, Going, TypeOK
<1>2. Event
  BY DEF IdleTimeout, BackoffElapsed
<1>3. \A c \in Nat : (NoPost(c) => NoPost(c)') /\ (OnePost(c) => OnePost(c)')
  BY <1>2, EventPosts
<1>4. CASE IdleTimeout
  <2> DEFINE c == Closed(stream, "Initial")
             d == [c EXCEPT !.handshake = FALSE]
             r == [s |-> d, p |-> pipeline]
  <2>1. stream.idle /\ Leaves(r)
    BY <1>4 DEF IdleTimeout
  <2>2. c \in Streams /\ c.closes > stream.closes /\ ~c.idle
    BY <1>1, ClosedSound, ClosedGoesOn
  <2> HIDE DEF c
  <2>3. d.closes = c.closes /\ d.idle = c.idle
    BY <2>2 DEF Streams
  <2> HIDE DEF d
  <2>4. stream' = d /\ pipeline' = pipeline /\ d \in Streams
    BY <1>1, <2>1 DEF Leaves, TypeOK
  <2>5. Tickets'
    BY <1>1, <1>3, <2>1, <2>2, <2>3, <2>4, LeavesTickets
  <2>6. pipeline = <<>>
    BY <1>1, <2>1 DEF GoesOn, Here
  <2>7. GoesOn(Here)'
    BY <2>2, <2>3, <2>4, <2>6 DEF GoesOn, Here
  <2> QED BY <2>5, <2>7 DEF Going
<1>5. CASE BackoffElapsed
  <2> DEFINE d == [stream EXCEPT !.state = "Starting"]
             r == [s |-> d, p |-> pipeline]
  <2>1. stream.state = "Backoff" /\ Leaves(r)
    BY <1>5 DEF BackoffElapsed
  <2>2. d.closes = stream.closes /\ d.idle = stream.idle /\ d.state = "Starting"
    BY <1>1 DEF Streams
  <2> HIDE DEF d
  <2>3. stream' = d /\ pipeline' = pipeline /\ d \in Streams
    BY <1>1, <2>1 DEF Leaves, TypeOK
  <2>4. Tickets'
    BY <1>1, <1>3, <2>1, <2>2, <2>3, LeavesTickets
  <2>5. ~stream.idle
    BY <1>1, <2>1 DEF GoesOn, Here
  <2>6. GoesOn(Here)'
    BY <2>2, <2>3, <2>5 DEF GoesOn, Here, Started
  <2> QED BY <2>4, <2>6 DEF Going
<1> QED BY <1>4, <1>5

-----------------------------------------------------------------------------
(* FIRAuth, the main queue and the app pass the tickets on.                  *)
LEMMA PassesOn ==
  ASSUME Going, UNCHANGED <<pipeline, stream>>,
         \A c \in Nat : (NoTicket(c) => NoTicket(c)') /\ (OneTicket(c) => OneTicket(c)')
  PROVE  Going'
BY SameTickets, GoesOnSame DEF Going

LEMMA AuthChangesGoesOn ==
  ASSUME NEW u \in People, Inv, Going, AuthChanges(u)
  PROVE  Going'
<1> DEFINE notice == [kind |-> "notice", user |-> u]
<1>1. /\ notice \in Notices \cup Replies /\ main \in Seq(Notices \cup Replies)
      /\ main' = Append(main, notice)
      /\ UNCHANGED <<requests, worker, pipeline, stream>>
  BY DEF AuthChanges, Inv, TypeOK, Notices
<1>2. \A c \in Nat : Replied(c)' = Replied(c)
  <2>1. notice.kind # "reply"
    OBVIOUS
  <2> HIDE DEF notice
  <2>2. \A c \in Nat :
          Places(Append(main, notice), "reply", c) =
            Places(main, "reply", c) \cup
              IF notice.kind = "reply" /\ notice.closes = c THEN {Len(main) + 1} ELSE {}
    BY <1>1, PlacesAppend
  <2> QED BY <1>1, <2>1, <2>2 DEF Replied
<1> HIDE DEF notice
<1>3. \A c \in Nat : (NoTicket(c) => NoTicket(c)') /\ (OneTicket(c) => OneTicket(c)')
  BY <1>1, <1>2 DEF NoTicket, OneTicket, NoPost, OnePost, Requested, Arrived, Places
<1> QED BY <1>1, <1>3, PassesOn

LEMMA AppWritesGoesOn == Inv /\ Going /\ AppWrites => Going'
<1> SUFFICES ASSUME Inv, Going, AppWrites PROVE Going'
  OBVIOUS
<1> DEFINE e == [kind |-> "write", user |-> provider]
<1>1. /\ e \in Operations /\ worker \in Seq(Operations)
      /\ worker' = Append(worker, e)
      /\ UNCHANGED <<requests, main, pipeline, stream>>
  BY DEF AppWrites, Inv, TypeOK, Operations
<1>2. \A c \in Nat : Arrived(c)' = Arrived(c)
  <2>1. e.kind # "token"
    OBVIOUS
  <2> HIDE DEF e
  <2>2. \A c \in Nat :
          Places(Append(worker, e), "token", c) =
            Places(worker, "token", c) \cup
              IF e.kind = "token" /\ e.closes = c THEN {Len(worker) + 1} ELSE {}
    BY <1>1, PlacesAppend
  <2> QED BY <1>1, <2>1, <2>2 DEF Arrived
<1> HIDE DEF e
<1>3. \A c \in Nat : (NoTicket(c) => NoTicket(c)') /\ (OneTicket(c) => OneTicket(c)')
  BY <1>1, <1>2 DEF NoTicket, OneTicket, NoPost, OnePost, Requested, Replied, Places
<1> QED BY <1>1, <1>3, PassesOn

LEMMA HearNoticeGoesOn == Inv /\ Going /\ HearNotice => Going'
<1> SUFFICES ASSUME Inv, Going, HearNotice PROVE Going'
  OBVIOUS
<1> DEFINE e == [kind |-> "credential", user |-> Head(main).user]
<1>1. /\ main \in Seq(Notices \cup Replies) /\ main # <<>> /\ main' = Tail(main)
      /\ Head(main).kind # "reply"
      /\ worker \in Seq(Operations) /\ worker' = Append(worker, e)
      /\ UNCHANGED <<requests, pipeline, stream>>
  BY DEF HearNotice, Inv, TypeOK
<1>2. e \in Operations /\ e.kind # "token"
  <2>1. Head(main) \in Notices \cup Replies /\ Head(main).kind = "notice"
    BY <1>1 DEF HearNotice
  <2> QED BY <2>1 DEF Notices, Replies, Operations
<1> HIDE DEF e
<1>3. ASSUME NEW c \in Nat
      PROVE  /\ Arrived(c)' = Arrived(c)
             /\ Replied(c) = {} => Replied(c)' = {}
             /\ \A i : Replied(c) = {i} => Replied(c)' = {i - 1}
             /\ Requested(c)' = Requested(c)
  <2>1. Places(Append(worker, e), "token", c) =
          Places(worker, "token", c) \cup
            IF e.kind = "token" /\ e.closes = c THEN {Len(worker) + 1} ELSE {}
    BY <1>1, <1>2, PlacesAppend
  <2>2. /\ Places(main, "reply", c) = {} => Places(Tail(main), "reply", c) = {}
        /\ \A i : Places(main, "reply", c) = {i}
                    => Places(Tail(main), "reply", c) = {i - 1}
    BY <1>1, PlacesTail
  <2> QED BY <1>1, <1>2, <2>1, <2>2 DEF Arrived, Replied, Requested
<1>4. \A c \in Nat : (NoTicket(c) => NoTicket(c)') /\ (OneTicket(c) => OneTicket(c)')
  BY <1>3 DEF NoTicket, OneTicket, NoPost, OnePost
<1> QED BY <1>1, <1>4, PassesOn

LEMMA HearReplyGoesOn == Inv /\ Going /\ HearReply => Going'
<1> SUFFICES ASSUME Inv, Going, HearReply PROVE Going'
  OBVIOUS
<1> DEFINE e == [kind |-> "token", closes |-> Head(main).closes,
                 owner |-> TokenOf(Head(main))]
<1>1. /\ main \in Seq(Notices \cup Replies) /\ main # <<>> /\ main' = Tail(main)
      /\ Head(main).kind = "reply"
      /\ worker \in Seq(Operations) /\ worker' = Append(worker, e)
      /\ UNCHANGED <<requests, pipeline, stream>>
  BY DEF HearReply, Inv, TypeOK
<1>2. e \in Operations /\ e.kind = "token" /\ e.closes = Head(main).closes
  <2>1. Head(main) \in Replies
    BY <1>1 DEF Notices, Replies
  <2> QED BY <2>1 DEF Replies, Operations, TokenOf
<1> HIDE DEF e
<1>3. ASSUME NEW c \in Nat
      PROVE  (NoTicket(c) => NoTicket(c)') /\ (OneTicket(c) => OneTicket(c)')
  <2>1. Arrived(c)' = Arrived(c) \cup IF Head(main).closes = c THEN {Len(worker) + 1}
                                                                ELSE {}
    <3>1. Places(Append(worker, e), "token", c) =
            Places(worker, "token", c) \cup
              IF e.kind = "token" /\ e.closes = c THEN {Len(worker) + 1} ELSE {}
      BY <1>1, <1>2, PlacesAppend
    <3> QED BY <1>1, <1>2, <3>1 DEF Arrived
  <2>2. /\ Replied(c) = {} => Replied(c)' = {}
        /\ \A i : Replied(c) = {i} =>
             IF Head(main).closes = c THEN Replied(c)' = {} ELSE Replied(c)' = {i - 1}
    <3>1. /\ Places(main, "reply", c) = {} => Places(Tail(main), "reply", c) = {}
          /\ \A i : Places(main, "reply", c) = {i} =>
               IF Head(main).kind = "reply" /\ Head(main).closes = c
                 THEN i = 1 /\ Places(Tail(main), "reply", c) = {}
                 ELSE Places(Tail(main), "reply", c) = {i - 1}
      BY <1>1, PlacesTail
    <3> QED BY <1>1, <3>1 DEF Replied
  <2>3. Head(main).closes = c => Replied(c) # {}
    <3>1. 1 \in 1..Len(main) /\ Head(main) = main[1]
      BY <1>1
    <3> QED BY <1>1, <3>1 DEF Replied, Places
  <2>4. Requested(c)' = Requested(c)
    BY <1>1 DEF Requested
  <2> QED BY <2>1, <2>2, <2>3, <2>4 DEF NoTicket, OneTicket, NoPost, OnePost
<1> QED BY <1>1, <1>3, PassesOn

(* FIRAuth's answer takes the place of the request.                          *)
LEMMA ReplyGoesOn ==
  ASSUME TypeOK, Going, NEW r \in requests, NEW owner \in People \cup {Failed},
         requests' = requests \ {r},
         main' = Append(main, Reply(r, owner)),
         UNCHANGED <<worker, pipeline, stream>>
  PROVE  Going'
<1> DEFINE e == Reply(r, owner)
<1>1. /\ e \in Notices \cup Replies /\ main \in Seq(Notices \cup Replies)
      /\ e.kind = "reply" /\ e.closes = r.closes
  BY DEF TypeOK, Reply, Replies, Requests
<1>2. main' = Append(main, e)
  OBVIOUS
<1> HIDE DEF e
<1>3. ASSUME NEW c \in Nat
      PROVE  (NoTicket(c) => NoTicket(c)') /\ (OneTicket(c) => OneTicket(c)')
  <2>1. Replied(c)' = Replied(c) \cup IF r.closes = c THEN {Len(main) + 1} ELSE {}
    <3>1. Places(Append(main, e), "reply", c) =
            Places(main, "reply", c) \cup
              IF e.kind = "reply" /\ e.closes = c THEN {Len(main) + 1} ELSE {}
      BY <1>1, PlacesAppend
    <3> QED BY <1>1, <1>2, <3>1 DEF Replied
  <2>2. Requested(c)' = Requested(c) \ {r}
    BY DEF Requested
  <2>3. r.closes = c <=> r \in Requested(c)
    BY DEF Requested
  <2>4. Arrived(c)' = Arrived(c)
    BY DEF Arrived, Places
  <2> QED BY <2>1, <2>2, <2>3, <2>4 DEF NoTicket, OneTicket, NoPost, OnePost
<1> QED BY <1>3, PassesOn

LEMMA AuthGoesOn ==
  ASSUME NEW r \in requests, Inv, Going,
         AuthReads(r) \/ \E owner \in People \cup {Failed} : AuthReplies(r, owner)
  PROVE  Going'
<1>1. TypeOK /\ r \in Requests
  BY DEF Inv, TypeOK
<1>2. ASSUME AuthReads(r), authUser = Nobody PROVE Going'
  <2>1. Nobody \in People \cup {Failed}
    BY DEF People
  <2> QED BY <1>1, <1>2, <2>1, ReplyGoesOn DEF AuthReads
<1>3. ASSUME AuthReads(r), authUser # Nobody PROVE Going'
  <2> DEFINE q == [r EXCEPT !.owner = authUser]
  <2>1. /\ q.closes = r.closes
        /\ requests' = (requests \ {r}) \cup {q}
        /\ UNCHANGED <<main, worker, pipeline, stream>>
    BY <1>1, <1>3 DEF AuthReads, Requests
  <2> HIDE DEF q
  <2>2. ASSUME NEW c \in Nat
        PROVE  (NoTicket(c) => NoTicket(c)') /\ (OneTicket(c) => OneTicket(c)')
    <3>1. Requested(c)' = IF r.closes = c THEN (Requested(c) \ {r}) \cup {q}
                                          ELSE Requested(c)
      BY <2>1 DEF Requested
    <3>2. r.closes = c <=> r \in Requested(c)
      BY DEF Requested
    <3>3. Replied(c)' = Replied(c) /\ Arrived(c)' = Arrived(c)
      BY <2>1 DEF Replied, Arrived, Places
    <3> QED BY <3>1, <3>2, <3>3 DEF NoTicket, OneTicket, NoPost, OnePost
  <2> QED BY <2>1, <2>2, PassesOn
<1>4. ASSUME NEW owner \in People \cup {Failed}, AuthReplies(r, owner) PROVE Going'
  BY <1>1, <1>4, ReplyGoesOn DEF AuthReplies
<1> QED BY <1>2, <1>3, <1>4

LEMMA GoingInit == Init => Going
<1> SUFFICES ASSUME Init PROVE Going
  OBVIOUS
<1>1. \A c \in Nat : NoTicket(c)
  BY DEF Init, NoTicket, NoPost, Requested, Replied, Arrived, Places
<1>2. Tickets
  BY <1>1 DEF Init, Tickets
<1> QED BY <1>2 DEF Init, Going, GoesOn, Here

LEMMA GoingStep == Inv /\ Going /\ [Next]_streamVars => Going'
<1> SUFFICES ASSUME Inv, Going, [Next]_streamVars PROVE Going'
  OBVIOUS
<1>1. CASE Client
  BY <1>1, HearNoticeGoesOn, HearReplyGoesOn, WriteGoesOn, ChangeGoesOn, ResumeGoesOn,
     TimersGoOn DEF Client
<1>2. CASE Server
  BY <1>2, HandshakeGoesOn, ResultGoesOn DEF Server
<1>3. CASE Environment
  BY <1>3, AuthChangesGoesOn, AppWritesGoesOn, FinishGoesOn, TimersGoOn DEF Environment
<1>4. CASE Auth
  BY <1>4, AuthGoesOn DEF Auth
<1>5. CASE UNCHANGED streamVars
  BY <1>5, PassesOn DEF streamVars, NoTicket, OneTicket, NoPost, OnePost, Requested,
     Replied, Arrived, Places
<1> QED BY <1>1, <1>2, <1>3, <1>4, <1>5 DEF Next

(* The stream goes on for what waits, and its ticket is never lost or        *)
(* doubled.                                                                  *)
THEOREM StreamGoesOn == Spec => []Going
BY StreamInvariant, GoingInit, GoingStep, PTL DEF Spec

(* The assertions of the streams hold: a token that is not stale finds the   *)
(* stream starting, the idle timer an open stream that nobody needs.         *)
THEOREM StreamAsserts == Spec => []AssertsHold
<1>1. Inv /\ Going => AssertsHold
  <2> SUFFICES ASSUME Inv, Going PROVE AssertsHold
    OBVIOUS
  <2>1. /\ worker # <<>> /\ Head(worker).kind = "token" /\ ~IsStale(Head(worker))
             => stream.state = "Starting"
    BY TokenIsTicket DEF Inv, Going
  <2>2. stream.idle => stream.state = "Open" /\ pipeline = <<>>
    BY DEF Going, GoesOn, Here
  <2>3. stream.handshake => stream.state = "Open"
    BY DEF Inv, Sound
  <2> QED BY <2>1, <2>2, <2>3 DEF AssertsHold
<1> QED BY <1>1, StreamInvariant, StreamGoesOn, PTL

(* No write waits for a stream that was given up, and a starting stream      *)
(* waits for exactly one token.                                              *)
THEOREM StreamNeverWedged == Spec => []NeverWedged
<1>1. Inv /\ Going => NeverWedged
  <2> SUFFICES ASSUME Inv, Going PROVE NeverWedged
    OBVIOUS
  <2>1. queue[user] > 0 => Started(stream)
    <3>1. queue[user] \in Nat /\ pipeline \in Seq(People)
      BY DEF Inv, TypeOK
    <3>2. Len(pipeline) = Smaller(queue[user], MaxPipeline)
      BY DEF Inv, Sound, AnswersMatchPipeline
    <3>3. queue[user] > 0 => pipeline # <<>>
      BY <3>1, <3>2, StreamAssumption DEF Smaller
    <3> QED BY <3>3 DEF Going, GoesOn, Here
  <2> DEFINE c == stream.closes
  <2>2. c \in Nat /\ main \in Seq(Notices \cup Replies) /\ worker \in Seq(Operations)
    BY DEF Inv, TypeOK, Streams
  <2>3. Awaited = Requested(c) /\ InMain = Replied(c) /\ InWorker = Arrived(c)
    BY <2>2 DEF Awaited, InMain, InWorker, Requested, Replied, Arrived, Places
  <2>4. IF stream.state = "Starting" THEN OneTicket(c) ELSE NoTicket(c)
    BY <2>2 DEF Going, Tickets
  <2>5. Cardinality({}) = 0 /\ \A x : Cardinality({x}) = 1
    BY FS_EmptySet, FS_Singleton
  <2> HIDE DEF c
  <2>6. Cardinality(Requested(c)) + Cardinality(Replied(c)) + Cardinality(Arrived(c)) =
          IF stream.state = "Starting" THEN 1 ELSE 0
    <3>1. CASE stream.state # "Starting"
      BY <2>4, <2>5, <3>1 DEF NoTicket, NoPost
    <3>2. CASE stream.state = "Starting" /\ NoPost(c) /\ \E r : Requested(c) = {r}
      BY <2>5, <3>2 DEF NoPost
    <3>3. CASE /\ stream.state = "Starting" /\ Requested(c) = {}
               /\ Arrived(c) = {} /\ \E i : Replied(c) = {i}
      BY <2>5, <3>3
    <3>4. CASE /\ stream.state = "Starting" /\ Requested(c) = {}
               /\ Replied(c) = {} /\ \E i : Arrived(c) = {i}
      <4>1. Cardinality(Arrived(c)) = 1
        BY <2>5, <3>4
      <4> QED BY <2>5, <3>4, <4>1
    <3> QED BY <2>4, <3>1, <3>2, <3>3, <3>4 DEF OneTicket, OnePost
  <2> QED BY <2>1, <2>3, <2>6 DEF NeverWedged
<1> QED BY <1>1, StreamInvariant, StreamGoesOn, PTL
=============================================================================
