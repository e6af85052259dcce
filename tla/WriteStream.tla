------------------------------ MODULE WriteStream ------------------------------
(***************************************************************************)
(* The write stream of Firestore's RemoteStore and the credentials it is   *)
(* opened with.  Four queues take part: FIRAuth works on its own queue,    *)
(* tells of user changes and answers token requests on the main queue, and *)
(* the main queue hands both to Firestore's worker queue, where the app's  *)
(* writes arrive too.  A write is abstracted to the user it was made for,  *)
(* the pipeline to the owners of its writes, in order.                     *)
(***************************************************************************)
EXTENDS Integers, Sequences, FiniteSetsExt, SequencesExt

CONSTANTS Users,       \* the accounts
          Nobody,      \* no user: a signed-out client has a queue of its own
          MaxPipeline, \* kMaxPendingWrites
          MaxPending,  \* bound: writes made and not settled
          MaxChanges,  \* bound: user changes and token refreshes
          MaxCloses    \* bound: streams lost to errors and idleness

People == Users \cup {Nobody}

ASSUME StreamAssumption ==
  /\ Nobody \notin Users
  /\ MaxPipeline \in Nat \ {0}
  /\ MaxPending \in Nat /\ MaxChanges \in Nat /\ MaxCloses \in Nat

Unread == "unread"        \* FIRAuth has not looked for the current user yet
NoToken == "no token"     \* there is no gRPC stream
Failed == "failed"        \* no token could be had

ASSUME NamesAssumption == {Unread, NoToken, Failed} \cap People = {}

VARIABLES
  authUser,  \* FIRAuth's _currentUser
  requests,  \* token requests FIRAuth has not answered
  main,      \* the main queue
  counter,   \* token_counter of the credentials provider
  provider,  \* its current_user
  worker,    \* the worker queue
  user,      \* SyncEngine's current_user_
  queue,     \* writes pending in LocalStore, per user
  pipeline,  \* write_pipeline_
  stream     \* write_stream_

streamVars == <<authUser, requests, main, counter, provider, worker, user,
                queue, pipeline, stream>>

Requests == [counter : Nat, closes : Nat, owner : People \cup {Unread}]
Notices == [kind : {"notice"}, user : People]
Replies == [kind : {"reply"}, counter : Nat, closes : Nat,
            owner : People \cup {Failed}]
Operations ==
  [kind : {"write", "credential"}, user : People] \cup
  [kind : {"token"}, closes : Nat, owner : People \cup {Failed}]
Streams ==
  [state : {"Initial", "Starting", "Open", "Error", "Backoff"},
   closes : Nat,                   \* close_count_
   token : People \cup {NoToken},  \* whose token grpc_stream_ carries
   handshake : BOOLEAN,            \* handshake_complete_
   idle : BOOLEAN,                 \* idleness_timer_ is running
   sent : Nat]                     \* writes sent on it and not answered

TypeOK ==
  /\ authUser \in People /\ provider \in People /\ user \in People
  /\ requests \subseteq Requests
  /\ main \in Seq(Notices \cup Replies)
  /\ counter \in Nat
  /\ worker \in Seq(Operations)
  /\ queue \in [People -> Nat]
  /\ pipeline \in Seq(People)
  /\ stream \in Streams

Init ==
  /\ authUser \in People
  /\ provider = authUser /\ user = authUser
  /\ requests = {} /\ main = <<>> /\ counter = 0 /\ worker = <<>>
  /\ queue = [u \in People |-> 0]
  /\ pipeline = <<>>
  /\ stream = [state |-> "Initial", closes |-> 0, token |-> NoToken,
               handshake |-> FALSE, idle |-> FALSE, sent |-> 0]

-----------------------------------------------------------------------------
(* The stream and its pipeline, as one value r = [s |-> stream, p |->        *)
(* pipeline] that the handlers pass through the calls they make.             *)
Started(s) == s.state \in {"Starting", "Backoff", "Open"}

ShouldStart(r) == r.p # <<>> /\ ~Started(r.s)

(* Start: a stream that failed waits first, any other asks for a token.      *)
Start(r) ==
  [r EXCEPT !.s.state = IF @ = "Error" THEN "Backoff" ELSE "Starting"]

StartIfNeeded(r) == IF ShouldStart(r) THEN Start(r) ELSE r

(* Mutant of Closed: the idle timer goes on.                                 *)
ClosedKeepingTimer(s, state) ==
  [state |-> state, closes |-> s.closes + 1, token |-> NoToken,
   handshake |-> s.handshake, idle |-> s.idle, sent |-> 0]

(* Close: callbacks of the old stream become stale, the timers stop.         *)
Closed(s, state) ==
  [state |-> state, closes |-> s.closes + 1, token |-> NoToken,
   handshake |-> s.handshake, idle |-> FALSE, sent |-> 0]

Smaller(a, b) == IF a <= b THEN a ELSE b

Larger(a, b) == IF a <= b THEN b ELSE a

(* Mutant of Fill: writes are sent before the handshake.                     *)
FillBeforeHandshake(r, n, u) ==
  LET size == Larger(Len(r.p), Smaller(n, MaxPipeline))
      sends == IF r.s.state = "Open" THEN size - Len(r.p) ELSE 0
  IN StartIfNeeded(
       [p |-> [i \in 1..size |-> IF i <= Len(r.p) THEN r.p[i] ELSE u],
        s |-> [r.s EXCEPT !.sent = @ + sends,
                          !.idle = \/ @ /\ sends = 0
                                   \/ r.s.state = "Open" /\ size = 0]])

(* FillWritePipeline with n writes pending for u.  A write that joins is     *)
(* sent at once on a stream that had its handshake, which stops the idle     *)
(* timer; with nothing to send an open stream starts it.                     *)
Fill(r, n, u) ==
  LET size == Larger(Len(r.p), Smaller(n, MaxPipeline))
      sends == IF r.s.state = "Open" /\ r.s.handshake THEN size - Len(r.p) ELSE 0
  IN StartIfNeeded(
       [p |-> [i \in 1..size |-> IF i <= Len(r.p) THEN r.p[i] ELSE u],
        s |-> [r.s EXCEPT !.sent = @ + sends,
                          !.idle = \/ @ /\ sends = 0
                                   \/ r.s.state = "Open" /\ size = 0]])

(* A handler leaves r behind.  RequestCredentials, called by Start, notes    *)
(* the token counter and the close count.                                    *)
Leaves(r) ==
  /\ stream' = r.s
  /\ pipeline' = r.p
  /\ requests' =
       IF r.s.state = "Starting"
            /\ (stream.state # "Starting" \/ stream.closes # r.s.closes)
         THEN requests \cup
                {[counter |-> counter, closes |-> r.s.closes, owner |-> Unread]}
         ELSE requests

Here == [s |-> stream, p |-> pipeline]

-----------------------------------------------------------------------------
(* FIRAuth, on its work queue, and what it posts to the main queue.          *)
Changes == counter + Len(SelectSeq(main, LAMBDA t : t.kind = "notice"))

(* A notice of another user, or of the same one with a refreshed token;      *)
(* possiblyPostAuthStateChangeNotification has none when nobody stays.       *)
AuthChanges(u) ==
  /\ Changes < MaxChanges
  /\ ~(u = Nobody /\ authUser = Nobody)
  /\ authUser' = u
  /\ main' = Append(main, [kind |-> "notice", user |-> u])
  /\ UNCHANGED <<requests, counter, provider, worker, user, queue, pipeline, stream>>

(* The answer to a request, whose token is owner's.                          *)
Reply(r, owner) ==
  [kind |-> "reply", counter |-> r.counter, closes |-> r.closes, owner |-> owner]

(* getToken finds the current user; without one it answers at once.          *)
AuthReads(r) ==
  /\ r.owner = Unread
  /\ IF authUser = Nobody
       THEN /\ requests' = requests \ {r}
            /\ main' = Append(main, Reply(r, Nobody))
       ELSE /\ requests' = (requests \ {r}) \cup {[r EXCEPT !.owner = authUser]}
            /\ UNCHANGED main
  /\ UNCHANGED <<authUser, counter, provider, worker, user, queue, pipeline, stream>>

(* Mutant: the callback does not queue behind the notices.                   *)
AuthRepliesFirst(r, owner) ==
  /\ r.owner # Unread
  /\ owner \in {r.owner, Failed}
  /\ owner = Failed => stream.closes < MaxCloses
  /\ requests' = requests \ {r}
  /\ main' = <<Reply(r, owner)>> \o main
  /\ UNCHANGED <<authUser, counter, provider, worker, user, queue, pipeline, stream>>

(* The user's token service has a valid token or fetched one, or failed.     *)
AuthReplies(r, owner) ==
  /\ r.owner # Unread
  /\ owner \in {r.owner, Failed}
  /\ owner = Failed => stream.closes < MaxCloses
  /\ requests' = requests \ {r}
  /\ main' = Append(main, Reply(r, owner))
  /\ UNCHANGED <<authUser, counter, provider, worker, user, queue, pipeline, stream>>

-----------------------------------------------------------------------------
(* The main queue.                                                           *)
(* Mutant of HearNotice: the change of user overtakes what waits.            *)
HearNoticeUrgently ==
  /\ main # <<>> /\ Head(main).kind = "notice"
  /\ main' = Tail(main)
  /\ provider' = Head(main).user
  /\ counter' = counter + 1
  /\ worker' = <<[kind |-> "credential", user |-> Head(main).user]>> \o worker
  /\ UNCHANGED <<authUser, requests, user, queue, pipeline, stream>>

(* The credentials provider hears of the change and passes it on.            *)
HearNotice ==
  /\ main # <<>> /\ Head(main).kind = "notice"
  /\ main' = Tail(main)
  /\ provider' = Head(main).user
  /\ counter' = counter + 1
  /\ worker' = Append(worker, [kind |-> "credential", user |-> Head(main).user])
  /\ UNCHANGED <<authUser, requests, user, queue, pipeline, stream>>

(* A token that was asked for before a change is refused.                    *)
TokenOf(reply) == IF reply.counter = counter THEN reply.owner ELSE Failed

HearReply ==
  /\ main # <<>> /\ Head(main).kind = "reply"
  /\ main' = Tail(main)
  /\ worker' = Append(worker, [kind |-> "token", closes |-> Head(main).closes,
                               owner |-> TokenOf(Head(main))])
  /\ UNCHANGED <<authUser, requests, counter, provider, user, queue, pipeline, stream>>

Pending ==
  Len(SelectSeq(worker, LAMBDA o : o.kind = "write")) +
    FoldSet(LAMBDA u, n : queue[u] + n, 0, People)

(* The app writes, as the user the main queue knows of.                      *)
AppWrites ==
  /\ Pending < MaxPending
  /\ worker' = Append(worker, [kind |-> "write", user |-> provider])
  /\ UNCHANGED <<authUser, requests, main, counter, provider, user, queue,
                 pipeline, stream>>

-----------------------------------------------------------------------------
(* The worker queue: operations, one at a time.                              *)
Runs(kind) ==
  /\ worker # <<>> /\ Head(worker).kind = kind
  /\ worker' = Tail(worker)
  /\ UNCHANGED <<authUser, main, counter, provider>>

WriteMutations ==
  /\ Runs("write")
  /\ queue' = [queue EXCEPT ![user] = @ + 1]
  /\ Leaves(Fill(Here, queue[user] + 1, user))
  /\ UNCHANGED user

(* DisableNetworkInternal: Stop closes only a started stream; a stream that  *)
(* failed and was not restarted keeps its error.                             *)
Disabled(r) ==
  [p |-> <<>>,
   s |-> [(IF Started(r.s) THEN Closed(r.s, "Initial") ELSE r.s)
            EXCEPT !.handshake = FALSE]]

HandleCredentialChange ==
  /\ Runs("credential")
  /\ user' = Head(worker).user
  /\ Leaves(Fill(Disabled(Here), queue[user'], user'))
  /\ UNCHANGED queue

(* OnWriteStreamClose for an error.  A permanent one, once the handshake is  *)
(* done, is blamed on the first write: it is dropped, and the stream need    *)
(* not wait.  handshake_complete_ is reset last.                             *)
Refuses(permanent) == permanent /\ stream.handshake /\ pipeline # <<>>

(* Mutant of AfterError: the stream is not started for what is pending.      *)
AfterErrorUnrestarted(permanent) ==
  LET r == IF Refuses(permanent)
             THEN Fill([s |-> Closed(stream, "Initial"), p |-> Tail(pipeline)],
                       queue[user] - 1, user)
             ELSE [s |-> Closed(stream, "Error"), p |-> pipeline]
  IN [r EXCEPT !.s.handshake = FALSE]

AfterError(permanent) ==
  LET lost == IF Refuses(permanent)
                THEN Fill([s |-> Closed(stream, "Initial"), p |-> Tail(pipeline)],
                          queue[user] - 1, user)
                ELSE [s |-> Closed(stream, "Error"), p |-> pipeline]
      r == StartIfNeeded(lost)
  IN [s |-> [r.s EXCEPT !.handshake = FALSE], p |-> r.p]

CloseOnError(permanent) ==
  /\ Leaves(AfterError(permanent))
  /\ queue' = IF Refuses(permanent) THEN [queue EXCEPT ![user] = @ - 1] ELSE queue

(* A token for an earlier stream is ignored; otherwise the stream opens and  *)
(* sends its handshake, or fails.                                            *)
IsStaleNever(token) == FALSE

IsStale(token) == token.closes # stream.closes

ResumeStartWithCredentials ==
  /\ Runs("token")
  /\ CASE IsStale(Head(worker)) -> UNCHANGED <<queue, pipeline, stream, requests>>
       [] ~IsStale(Head(worker)) /\ Head(worker).owner = Failed ->
            CloseOnError(FALSE)
       [] OTHER ->
            /\ stream' = [stream EXCEPT !.state = "Open", !.token = Head(worker).owner]
            /\ UNCHANGED <<queue, pipeline, requests>>
  /\ UNCHANGED user

(* What the gRPC stream reports, and timers, between two operations.         *)
Event == UNCHANGED <<authUser, main, counter, provider, worker, user>>

OnWriteStreamHandshakeComplete ==
  /\ Event
  /\ stream.state = "Open" /\ ~stream.handshake
  /\ stream' = [stream EXCEPT !.handshake = TRUE, !.sent = Len(pipeline),
                              !.idle = @ /\ pipeline = <<>>]
  /\ UNCHANGED <<requests, queue, pipeline>>

OnWriteStreamMutationResult ==
  /\ Event
  /\ stream.state = "Open" /\ stream.handshake /\ stream.sent > 0
  /\ queue' = [queue EXCEPT ![user] = @ - 1]
  /\ Leaves(Fill([s |-> [stream EXCEPT !.sent = @ - 1], p |-> Tail(pipeline)],
                 queue[user] - 1, user))

OnStreamFinish(permanent) ==
  /\ Event
  /\ stream.closes < MaxCloses
  /\ stream.state = "Open"
  /\ CloseOnError(permanent)

(* The idle timer stops the stream.                                          *)
IdleTimeout ==
  /\ Event
  /\ stream.closes < MaxCloses
  /\ stream.idle
  /\ Leaves([s |-> [Closed(stream, "Initial") EXCEPT !.handshake = FALSE],
             p |-> pipeline])
  /\ UNCHANGED queue

(* Mutant of BackoffElapsed: the stream is stopped instead of started.       *)
BackoffElapsedQuietly ==
  /\ Event
  /\ stream.state = "Backoff"
  /\ Leaves([Here EXCEPT !.s.state = "Initial"])
  /\ UNCHANGED queue

BackoffElapsed ==
  /\ Event
  /\ stream.state = "Backoff"
  /\ Leaves([s |-> [stream EXCEPT !.state = "Starting"], p |-> pipeline])
  /\ UNCHANGED queue

Client ==
  \/ HearNotice \/ HearReply
  \/ WriteMutations \/ HandleCredentialChange \/ ResumeStartWithCredentials
  \/ BackoffElapsed

Server == OnWriteStreamHandshakeComplete \/ OnWriteStreamMutationResult

Environment ==
  \/ \E u \in People : AuthChanges(u)
  \/ AppWrites
  \/ \E permanent \in BOOLEAN : OnStreamFinish(permanent)
  \/ IdleTimeout

Auth == \E r \in requests :
  AuthReads(r) \/ \E owner \in People \cup {Failed} : AuthReplies(r, owner)

Next == Client \/ Server \/ Environment \/ Auth

Spec == Init /\ [][Next]_streamVars

-----------------------------------------------------------------------------
(* An open stream carries the token of the client's user, and every write it *)
(* may send is that user's: no write reaches the server as somebody else,    *)
(* whatever FIRAuth, the main queue and the worker queue do in between.      *)
TokenIsUsers ==
  /\ stream.token \in {user, NoToken}
  /\ \A i \in DOMAIN pipeline : pipeline[i] = user

(* The pipeline is the front of the user's queue; after the handshake all of *)
(* it is on the wire, before it none: an answer always finds the write it is *)
(* for at the front (remote_store.cc's correlation of responses).            *)
AnswersMatchPipeline ==
  /\ Len(pipeline) = Smaller(queue[user], MaxPipeline)
  /\ stream.sent = IF stream.handshake THEN Len(pipeline) ELSE 0

(* The assertions of stream.cc and remote_store.cc: a token that is not      *)
(* stale finds the stream starting; the idle timer fires on an open stream   *)
(* nobody needs.                                                             *)
AssertsHold ==
  /\ worker # <<>> /\ Head(worker).kind = "token" /\ ~IsStale(Head(worker))
       => stream.state = "Starting"
  /\ stream.idle => stream.state = "Open" /\ pipeline = <<>>
  /\ stream.handshake => stream.state = "Open"

(* The stream is never given up while writes wait for it, and a starting     *)
(* stream waits for exactly one token, which is on its way.                  *)
Awaited == {r \in requests : r.closes = stream.closes}
InMain == {i \in DOMAIN main : main[i].kind = "reply" /\ main[i].closes = stream.closes}
InWorker == {i \in DOMAIN worker :
               worker[i].kind = "token" /\ worker[i].closes = stream.closes}

NeverWedged ==
  /\ queue[user] > 0 => Started(stream)
  /\ Cardinality(Awaited) + Cardinality(InMain) + Cardinality(InWorker) =
       IF stream.state = "Starting" THEN 1 ELSE 0

(* A write runs on the worker queue under the user the app made it for.      *)
WritesKeepTheirUser ==
  worker # <<>> /\ Head(worker).kind = "write" => Head(worker).user = user
=============================================================================
