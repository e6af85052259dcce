-------------------------- MODULE AuthSession_proofs --------------------------
(***************************************************************************)
(* Proofs about AuthSession for any users, requests, listeners and bounds. *)
(***************************************************************************)
EXTENDS MCAuthSession, TLAPS

-----------------------------------------------------------------------------
(* Facts about the main queue. *)

(* A block appended is the only new one in the queue. *)
LEMMA InAppend ==
  ASSUME NEW S, NEW q \in Seq(S), NEW e \in S, NEW b
  PROVE  /\ Append(q, e) \in Seq(S)
         /\ InQueue(b, Append(q, e)) <=> InQueue(b, q) \/ b = e
<1> DEFINE a == Append(q, e)
<1>1. /\ a \in Seq(S) /\ Len(a) = Len(q) + 1 /\ Len(q) \in Nat
      /\ \A i \in 1..Len(q) : a[i] = q[i]
      /\ a[Len(q) + 1] = e
  OBVIOUS
<1> HIDE DEF a
<1>2. InQueue(b, a) <=> InQueue(b, q) \/ b = e
  BY <1>1 DEF InQueue
<1> QED BY <1>1, <1>2 DEF a

(* The same for all blocks at a time. *)
LEMMA InAppendBlock ==
  ASSUME NEW q \in Seq(Block), NEW e \in Block
  PROVE  \A b : InQueue(b, Append(q, e)) <=> InQueue(b, q) \/ b = e
<1> SUFFICES ASSUME NEW b
             PROVE  InQueue(b, Append(q, e)) <=> InQueue(b, q) \/ b = e
  OBVIOUS
<1> QED BY InAppend

(* Taking the head loses the head and nothing else. *)
LEMMA InTail ==
  ASSUME NEW S, NEW q \in Seq(S), q # <<>>, NEW b
  PROVE  /\ Tail(q) \in Seq(S)
         /\ Head(q) \in S
         /\ InQueue(b, q) <=> b = Head(q) \/ InQueue(b, Tail(q))
<1> DEFINE t == Tail(q)
<1>1. /\ t \in Seq(S) /\ Len(t) = Len(q) - 1 /\ Len(q) \in Nat \ {0}
      /\ \A i \in 1..Len(t) : t[i] = q[i + 1]
      /\ Head(q) = q[1] /\ Head(q) \in S
  OBVIOUS
<1> HIDE DEF t
<1>2. ASSUME InQueue(b, q) PROVE b = Head(q) \/ InQueue(b, t)
  <2>1. PICK i \in 1..Len(q) : q[i] = b
    BY <1>2 DEF InQueue
  <2>2. CASE i = 1
    BY <2>1, <2>2, <1>1
  <2>3. CASE i # 1
    <3>1. i - 1 \in 1..Len(t) /\ t[i - 1] = q[i]
      BY <2>3, <1>1
    <3> QED BY <3>1, <2>1 DEF InQueue
  <2> QED BY <2>2, <2>3
<1>3. ASSUME b = Head(q) \/ InQueue(b, t) PROVE InQueue(b, q)
  BY <1>1, <1>3 DEF InQueue
<1> QED BY <1>1, <1>2, <1>3 DEF t

(* The three kinds of block differ, and a block determines its parameters. *)
LEMMA BlockFacts ==
  /\ Note \in Block
  /\ \A l \in Listeners : First(l) \in Block /\ First(l) # Note
                          /\ First(l).kind = "first" /\ First(l).listener = l
  /\ \A r \in Requests, ok \in BOOLEAN :
       /\ Reply(r, ok) \in Block /\ Reply(r, ok) # Note
       /\ Reply(r, ok).kind = "reply" /\ Reply(r, ok).req = r
       /\ Reply(r, ok).ok = ok
       /\ \A l \in Listeners : First(l) # Reply(r, ok)
  /\ \A b \in Block :
       /\ b.kind = "first" => b.listener \in Listeners /\ b = First(b.listener)
       /\ b.kind = "reply" => /\ b.req \in Requests /\ b.ok \in BOOLEAN
                              /\ b = Reply(b.req, b.ok)
<1>1. Note.kind = "note"
  BY DEF Note
<1>2. \A l : First(l).kind = "first" /\ First(l).listener = l
  BY DEF First
<1>3. \A r, ok : /\ Reply(r, ok).kind = "reply" /\ Reply(r, ok).req = r
                 /\ Reply(r, ok).ok = ok
  BY DEF Reply
<1>4. ASSUME NEW b \in Block
      PROVE  \/ b = Note
             \/ \E l \in Listeners : b = First(l)
             \/ \E r \in Requests, ok \in BOOLEAN : b = Reply(r, ok)
  BY DEF Block
<1>5. /\ Note \in Block
      /\ \A l \in Listeners : First(l) \in Block
      /\ \A r \in Requests, ok \in BOOLEAN : Reply(r, ok) \in Block
  BY DEF Block
<1> QED BY <1>1, <1>2, <1>3, <1>4, <1>5

(* Posting adds a notification and keeps what was queued. *)
LEMMA PostFacts ==
  ASSUME NEW q \in Seq(Block)
  PROVE  /\ Post(q) \in Seq(Block)
         /\ InQueue(Note, Post(q))
         /\ \A b : InQueue(b, Post(q)) <=> InQueue(b, q) \/ b = Note
BY BlockFacts, InAppend DEF Post

(* The queue a launch begins with. *)
LEMMA LaunchFacts ==
  ASSUME NEW u \in MaybeUser
  PROVE  /\ LaunchQueue(u) \in Seq(Block)
         /\ \A b : InQueue(b, LaunchQueue(u)) <=> (u # NoUser /\ b = Note)
<1> DEFINE none == <<>>
<1>1. none \in Seq(Block) /\ \A b : ~InQueue(b, none)
  BY DEF InQueue
<1>2. LaunchQueue(u) = IF u = NoUser THEN none ELSE Post(none)
  BY DEF LaunchQueue
<1> HIDE DEF none
<1>3. Post(none) \in Seq(Block) /\ \A b : InQueue(b, Post(none)) <=> b = Note
  BY <1>1, PostFacts
<1> QED BY <1>1, <1>2, <1>3

-----------------------------------------------------------------------------
(* Type correctness. *)

(* A call stays a call when its stage or its view changes.                   *)
LEMMA CallFacts ==
  /\ Idle.stage = "idle" /\ [Idle EXCEPT !.live = FALSE] = Idle
  /\ \A c \in Call : /\ c.stage # "idle" /\ c.user \in Users
                     /\ [c EXCEPT !.live = FALSE] \in Call
                     /\ [c EXCEPT !.stage = "created"] \in Call
                     /\ [c EXCEPT !.stage = "answered"] \in Call
<1>1. Idle.stage = "idle" /\ [Idle EXCEPT !.live = FALSE] = Idle
  <2>1. Idle \in [kind : {"login"}, user : {NoUser}, stage : {"idle"}, live : {FALSE}]
    BY DEF Idle
  <2>2. Idle.stage = "idle" /\ Idle.live = FALSE
    BY DEF Idle
  <2> QED BY <2>1, <2>2
<1>2. \A c \in Call : /\ c.stage # "idle" /\ c.user \in Users
                     /\ [c EXCEPT !.live = FALSE] \in Call
                     /\ [c EXCEPT !.stage = "created"] \in Call
                     /\ [c EXCEPT !.stage = "answered"] \in Call
  BY DEF Call
<1> QED BY <1>1, <1>2


(* Every value stays in its domain: queue blocks name real listeners and     *)
(* requests, and the observer index stays in range.                          *)
THEOREM TypeCorrect == Spec => []TypeOK
<1> USE UsersAssumption, BoundsAssumption DEF MaybeUser, Listeners
<1>1. Init => TypeOK
  <2> SUFFICES ASSUME Init PROVE TypeOK
    OBVIOUS
  <2>1. mainQ \in Seq(Block)
    BY LaunchFacts DEF Init
  <2>2. request \in [Requests -> Call \cup {Idle}]
    BY CallFacts DEF Init
  <2>3. accounts \subseteq Users /\ keychain \in MaybeUser
    BY DEF Init
  <2>4. heard \in [Listeners -> MaybeUser \cup {Never}] /\ nListen \in 0..MaxListeners
    BY DEF Init
  <2> QED BY <2>1, <2>2, <2>3, <2>4 DEF Init, TypeOK
<1>2. TypeOK /\ [Next]_vars => TypeOK'
  <2> SUFFICES ASSUME TypeOK, [Next]_vars PROVE TypeOK'
    OBVIOUS
  <2> USE DEF TypeOK, auth, listening, view
  <2>1. ASSUME NEW r \in Requests, NEW u \in Users, TapLogin(r, u)
        PROVE  TypeOK'
    BY <2>1 DEF TapLogin, Call
  <2>2. ASSUME NEW r \in Requests, NEW u \in Users, TapRegister(r, u)
        PROVE  TypeOK'
    BY <2>2 DEF TapRegister, Call
  <2>3. CASE TapSignOut
    BY <2>3, PostFacts DEF TapSignOut
  <2>4. CASE DeliverNote
    BY <2>4, InTail DEF DeliverNote
  <2>5. CASE CallListener
    <3>1. heard' \in [Listeners -> MaybeUser \cup {Never}]
      BY <2>5 DEF CallListener, Hear
    <3>2. session' \in MaybeUser /\ dirty' \in BOOLEAN
      BY <2>5 DEF CallListener, Hear
    <3>3. calling' \in 0..MaxListeners
      BY <2>5 DEF CallListener
    <3> QED BY <2>5, <3>1, <3>2, <3>3 DEF CallListener
  <2>6. CASE FirstCall
    <3>1. Tail(mainQ) \in Seq(Block) /\ Head(mainQ).listener \in Listeners
      BY <2>6, InTail, BlockFacts DEF FirstCall
    <3> QED BY <2>6, <3>1 DEF FirstCall, Hear
  <2>7. CASE RunReply
    <3>1. Tail(mainQ) \in Seq(Block) /\ Head(mainQ).req \in Requests
      BY <2>7, InTail, BlockFacts DEF RunReply
    <3>3. request' \in [Requests -> Call \cup {Idle}] /\ busy' \in BOOLEAN
      BY <2>7, <3>1 DEF RunReply
    <3> QED BY <2>7, <3>1, <3>3 DEF RunReply
  <2>8. ASSUME NEW appears \in BOOLEAN, Render(appears)
        PROVE  TypeOK'
    <3>1. mainQ' \in Seq(Block) /\ nListen' \in 0..MaxListeners
      <4>1. CASE appears
        <5>1. nListen < MaxListeners
          BY <2>8, <4>1 DEF Render
        <5>2. First(nListen + 1) \in Block
          BY <5>1, BlockFacts
        <5>3. mainQ' = Append(mainQ, First(nListen + 1)) /\ nListen' = nListen + 1
          BY <2>8, <4>1 DEF Render
        <5> QED BY <5>1, <5>2, <5>3, InAppend
      <4>2. CASE ~appears
        BY <2>8, <4>2 DEF Render
      <4> QED BY <4>1, <4>2
    <3>2. request' \in [Requests -> Call \cup {Idle}]
      BY <2>8, CallFacts DEF Render
    <3>3. screen' \in [shows : {"nothing", "login", "category"}, owner : MaybeUser]
      BY <2>8 DEF Render
    <3>4. busy' \in BOOLEAN
      BY <2>8 DEF Render
    <3> QED BY <2>8, <3>1, <3>2, <3>3, <3>4 DEF Render
  <2>9. ASSUME NEW r \in Requests, CreateAccount(r)
        PROVE  TypeOK'
    <3>1. request[r].user \in Users
      BY <2>9, CallFacts DEF CreateAccount
    <3>2. request' \in [Requests -> Call \cup {Idle}]
      BY <2>9, CallFacts DEF CreateAccount
    <3> QED BY <2>9, <3>1, <3>2 DEF CreateAccount
  <2>10. ASSUME NEW r \in Requests, SignInSucceeds(r)
         PROVE  TypeOK'
    <3>1. mainQ' \in Seq(Block)
      BY <2>10, PostFacts, BlockFacts, InAppend DEF SignInSucceeds
    <3>2. request' \in [Requests -> Call \cup {Idle}]
      BY <2>10, CallFacts DEF SignInSucceeds
    <3> QED BY <2>10, <3>1, <3>2 DEF SignInSucceeds
  <2>11. ASSUME NEW r \in Requests, SignInFails(r)
         PROVE  TypeOK'
    <3>1. mainQ' \in Seq(Block)
      BY <2>11, BlockFacts, InAppend DEF SignInFails
    <3>2. request' \in [Requests -> Call \cup {Idle}]
      BY <2>11, CallFacts DEF SignInFails
    <3> QED BY <2>11, <3>1, <3>2 DEF SignInFails
  <2>12. CASE RefreshToken
    BY <2>12, PostFacts DEF RefreshToken
  <2>13. ASSUME NEW saved \in BOOLEAN, ForcedSignOut(saved)
         PROVE  TypeOK'
    BY <2>13, PostFacts DEF ForcedSignOut
  <2>14. ASSUME NEW arrived \in SUBSET Requests, NEW loaded \in MaybeUser,
                Relaunch(arrived, loaded)
         PROVE  TypeOK'
    <3>1. mainQ' \in Seq(Block)
      BY <2>14, LaunchFacts DEF Relaunch
    <3>2. request' \in [Requests -> Call \cup {Idle}]
      BY <2>14, CallFacts DEF Relaunch
    <3>3. accounts' \subseteq Users
      <4>1. \A r \in arrived : request[r] \in Call
        <5>1. \A r \in arrived : r \in Requests /\ request[r].stage = "sent"
          BY <2>14 DEF Relaunch
        <5> QED BY <5>1, CallFacts DEF TypeOK
      <4>2. \A r \in arrived : request[r].user \in Users
        BY <4>1, CallFacts
      <4>3. accounts' = accounts \cup {request[r].user : r \in arrived}
        BY <2>14 DEF Relaunch
      <4> QED BY <4>2, <4>3 DEF TypeOK
    <3>4. heard' \in [Listeners -> MaybeUser \cup {Never}] /\ nListen' \in 0..MaxListeners
      BY <2>14 DEF Relaunch
    <3> QED BY <2>14, <3>1, <3>2, <3>3, <3>4 DEF Relaunch
  <2>15. CASE UNCHANGED vars
    BY <2>15 DEF vars
  <2> QED BY <2>1, <2>2, <2>3, <2>4, <2>5, <2>6, <2>7, <2>8, <2>9, <2>10, <2>11,
             <2>12, <2>13, <2>14, <2>15
          DEF Next, MainBlock, Draw, Respond
<1> QED BY <1>1, <1>2, PTL DEF Spec
-----------------------------------------------------------------------------
(* Convergence of the session. *)

(* A listener that was not told of the current user will be: by a            *)
(* notification in the queue, by the delivery in progress, or by its first   *)
(* invocation.                                                               *)
WillHear(l) ==
  \/ heard[l] = current
  \/ Queued(Note)
  \/ calling # 0 /\ calling <= l
  \/ Queued(First(l))

(* The session is what some listener heard last, or nobody heard anything.   *)
Told ==
  \/ \E l \in Listeners : heard[l] = session
  \/ \A l \in Listeners : heard[l] = Never

ConvergeInv ==
  /\ TypeOK
  /\ calling <= nListen
  /\ \A l \in Listeners : l <= nListen => WillHear(l)
  /\ \A l \in Listeners : l > nListen => heard[l] = Never /\ ~Queued(First(l))
  /\ Told

(* The inductive invariant is strong enough.                                 *)
LEMMA ConvergeImplies == ConvergeInv => SessionConverges
<1> USE BoundsAssumption, UsersAssumption DEF Listeners, MaybeUser
<1> SUFFICES ASSUME ConvergeInv, session # current, ~Queued(Note), calling = 0,
                    \A l \in Listeners : ~Queued(First(l)), nListen # 0
             PROVE  FALSE
  BY DEF SessionConverges
<1>1. \A l \in Listeners : l <= nListen => heard[l] = current
  BY DEF ConvergeInv, WillHear
<1>2. 1 \in Listeners /\ 1 <= nListen /\ current # Never /\ session # Never
  BY DEF ConvergeInv, TypeOK
<1>3. \A l \in Listeners : l > nListen => heard[l] = Never
  BY DEF ConvergeInv
<1>4. \E l \in Listeners : heard[l] = session
  BY <1>1, <1>2 DEF ConvergeInv, Told
<1> QED BY <1>1, <1>2, <1>3, <1>4 DEF ConvergeInv, TypeOK

(* A step that only posts keeps every listener about to hear.                *)
LEMMA PostConverges ==
  ASSUME ConvergeInv, TypeOK',
         \/ mainQ' = Post(mainQ)
         \/ \E r \in Requests : mainQ' = Append(Post(mainQ), Reply(r, TRUE)),
         UNCHANGED listening
  PROVE  ConvergeInv'
<1>1. /\ Queued(Note)'
      /\ \A l \in Listeners : Queued(First(l))' <=> Queued(First(l))
  <2>1. mainQ \in Seq(Block)
    BY DEF ConvergeInv, TypeOK
  <2>2. CASE mainQ' = Post(mainQ)
    BY <2>1, <2>2, PostFacts, BlockFacts DEF Queued
  <2>3. ASSUME NEW r \in Requests, mainQ' = Append(Post(mainQ), Reply(r, TRUE))
        PROVE  <1>1!1 /\ <1>1!2
    <3>1. Post(mainQ) \in Seq(Block) /\ Reply(r, TRUE) \in Block
      BY <2>1, PostFacts, BlockFacts
    <3>2. \A b : Queued(b)' <=> InQueue(b, Post(mainQ)) \/ b = Reply(r, TRUE)
      BY <2>3, <3>1, InAppendBlock DEF Queued
    <3>3. \A b : InQueue(b, Post(mainQ)) <=> Queued(b) \/ b = Note
      BY <2>1, PostFacts DEF Queued
    <3> QED BY <3>2, <3>3, BlockFacts
  <2> QED BY <2>2, <2>3
<1>2. (\A l \in Listeners : l <= nListen => WillHear(l))'
  BY <1>1 DEF WillHear
<1>3. Told'
  BY DEF ConvergeInv, Told, listening
<1> QED BY <1>1, <1>2, <1>3 DEF ConvergeInv, listening

(* A step that adds no notification but keeps the queue's, and leaves the    *)
(* listeners and the current user alone.                                     *)
LEMMA QuietConverges ==
  ASSUME ConvergeInv, TypeOK', UNCHANGED <<current, listening>>,
         Queued(Note) => Queued(Note)',
         \A l \in Listeners : Queued(First(l))' <=> Queued(First(l))
  PROVE  ConvergeInv'
<1>1. (\A l \in Listeners : l <= nListen => WillHear(l))'
  BY DEF ConvergeInv, WillHear, listening
<1>2. Told'
  BY DEF ConvergeInv, Told, listening
<1> QED BY <1>1, <1>2 DEF ConvergeInv, listening

(* A listener that runs leaves the session and what it heard in agreement.   *)
LEMMA HearFacts ==
  ASSUME TypeOK, Told, NEW l \in Listeners, Hear(l)
  PROVE  /\ Told'
         /\ heard'[l] = current
         /\ \A k \in Listeners : k # l => heard'[k] = heard[k]
<1>1. heard' = [heard EXCEPT ![l] = current] /\ heard \in [Listeners -> MaybeUser \cup {Never}]
  BY DEF Hear, TypeOK
<1>2. heard'[l] = current /\ \A k \in Listeners : k # l => heard'[k] = heard[k]
  BY <1>1
<1>3. CASE heard[l] # current
  BY <1>2, <1>3 DEF Hear, Told
<1>4. CASE heard[l] = current
  <2>1. heard' = heard /\ session' = session
    BY <1>1, <1>4 DEF Hear
  <2> QED BY <1>2, <2>1 DEF Told
<1> QED BY <1>2, <1>3, <1>4

(* Every interleaving of sign-ins, sign-outs, token refreshes, registrations *)
(* of listeners, deliveries and relaunches keeps the session on its way to   *)
(* the current user.                                                         *)
THEOREM SessionConvergence == Spec => []SessionConverges
<1> USE UsersAssumption, BoundsAssumption DEF Listeners
<1>1. Init /\ TypeOK => ConvergeInv
  <2> SUFFICES ASSUME Init, TypeOK PROVE ConvergeInv
    OBVIOUS
  <2>1. \A l \in Listeners : ~Queued(First(l))
    BY LaunchFacts, BlockFacts DEF Init, MaybeUser, TypeOK, Queued
  <2> QED BY <2>1 DEF Init, ConvergeInv, Told, TypeOK
<1>2. TypeOK /\ TypeOK' /\ ConvergeInv /\ [Next]_vars => ConvergeInv'
  <2> SUFFICES ASSUME TypeOK, TypeOK', ConvergeInv, [Next]_vars
               PROVE  ConvergeInv'
    OBVIOUS
  <2>q. mainQ \in Seq(Block)
    BY DEF TypeOK
  <2>1. CASE TapSignOut
    BY <2>1, PostConverges DEF TapSignOut
  <2>2. CASE RefreshToken
    BY <2>2, PostConverges DEF RefreshToken
  <2>3. ASSUME NEW saved \in BOOLEAN, ForcedSignOut(saved)
        PROVE  ConvergeInv'
    BY <2>3, PostConverges DEF ForcedSignOut
  <2>4. ASSUME NEW r \in Requests, SignInSucceeds(r)
        PROVE  ConvergeInv'
    BY <2>4, PostConverges DEF SignInSucceeds
  <2>5. ASSUME NEW r \in Requests, SignInFails(r)
        PROVE  ConvergeInv'
    <3>1. \A b : Queued(b)' <=> Queued(b) \/ b = Reply(r, FALSE)
      <4>1. mainQ' = Append(mainQ, Reply(r, FALSE)) /\ Reply(r, FALSE) \in Block
        BY <2>5, BlockFacts DEF SignInFails
      <4>2. \A b : InQueue(b, Append(mainQ, Reply(r, FALSE)))
                     <=> InQueue(b, mainQ) \/ b = Reply(r, FALSE)
        BY <2>q, <4>1, InAppendBlock
      <4> QED BY <4>1, <4>2 DEF Queued
    <3>2. UNCHANGED <<current, listening>>
      BY <2>5 DEF SignInFails, auth
    <3>3. /\ Queued(Note) => Queued(Note)'
          /\ \A l \in Listeners : Queued(First(l))' <=> Queued(First(l))
      BY <3>1, BlockFacts
    <3> QED BY <3>2, <3>3, QuietConverges
  <2>6. ASSUME UNCHANGED <<current, mainQ, listening>>
        PROVE  ConvergeInv'
    BY <2>6, QuietConverges DEF Queued
  <2>7. CASE DeliverNote
    <3>1. \A b : Queued(b) <=> b = Note \/ Queued(b)'
      BY <2>7, <2>q, InTail DEF DeliverNote, Queued
    <3>2. \A l \in Listeners : Queued(First(l))' <=> Queued(First(l))
      BY <3>1, BlockFacts
    <3>3. (\A l \in Listeners : l <= nListen => WillHear(l))'
      BY <2>7 DEF DeliverNote, WillHear, TypeOK
    <3>4. Told'
      BY <2>7 DEF DeliverNote, ConvergeInv, Told
    <3> QED BY <2>7, <3>2, <3>3, <3>4 DEF DeliverNote, ConvergeInv, TypeOK
  <2>8. CASE CallListener
    <3>1. calling \in Listeners /\ Told'
      BY <2>8, HearFacts DEF CallListener, ConvergeInv, TypeOK
    <3>2. heard'[calling] = current
          /\ \A k \in Listeners : k # calling => heard'[k] = heard[k]
      BY <2>8, <3>1, HearFacts DEF CallListener, ConvergeInv
    <3>3. UNCHANGED <<current, mainQ, nListen>>
          /\ calling' = IF calling < nListen THEN calling + 1 ELSE 0
      BY <2>8 DEF CallListener, auth
    <3>4. \A b : Queued(b)' <=> Queued(b)
      BY <3>3 DEF Queued
    <3>5. ASSUME NEW l \in Listeners, l <= nListen PROVE WillHear(l)'
      <4>1. CASE l = calling
        BY <3>2, <3>3, <4>1 DEF WillHear
      <4>2. CASE l # calling
        <5>1. WillHear(l)
          BY <3>5 DEF ConvergeInv
        <5>2. calling <= l => calling' # 0 /\ calling' <= l
          BY <3>3, <3>5, <4>2 DEF TypeOK
        <5> QED BY <3>2, <3>3, <3>4, <4>2, <5>1, <5>2 DEF WillHear
      <4> QED BY <4>1, <4>2
    <3>6. \A l \in Listeners : l > nListen' => heard'[l] = Never /\ ~Queued(First(l))'
      BY <3>1, <3>2, <3>3, <3>4 DEF ConvergeInv, TypeOK
    <3>7. calling' <= nListen'
      BY <3>3 DEF TypeOK
    <3> QED BY <3>1, <3>3, <3>5, <3>6, <3>7 DEF ConvergeInv
  <2>9. CASE FirstCall
    <3> DEFINE f == Head(mainQ).listener
    <3>1. /\ f \in Listeners
          /\ \A b : Queued(b) <=> b = First(f) \/ Queued(b)'
      BY <2>9, <2>q, InTail, BlockFacts DEF FirstCall, Queued
    <3>2. /\ Told' /\ heard'[f] = current
          /\ \A k \in Listeners : k # f => heard'[k] = heard[k]
      BY <2>9, <3>1, HearFacts DEF FirstCall, ConvergeInv
    <3>3. UNCHANGED <<current, nListen, calling>>
      BY <2>9 DEF FirstCall, auth
    <3> HIDE DEF f
    <3>4. /\ Queued(Note)' <=> Queued(Note)
          /\ \A l \in Listeners : l # f => (Queued(First(l))' <=> Queued(First(l)))
          /\ \A l \in Listeners : Queued(First(l))' => Queued(First(l))
          /\ f <= nListen
      BY <3>1, BlockFacts DEF ConvergeInv, TypeOK
    <3>5. (\A l \in Listeners : l <= nListen => WillHear(l))'
      BY <3>2, <3>3, <3>4 DEF ConvergeInv, WillHear
    <3>6. \A l \in Listeners : l > nListen' => heard'[l] = Never /\ ~Queued(First(l))'
      BY <3>2, <3>3, <3>4 DEF ConvergeInv, TypeOK
    <3> QED BY <3>2, <3>3, <3>5, <3>6 DEF ConvergeInv
  <2>10. CASE RunReply
    <3>1. /\ \A b : Queued(b) <=> b = Head(mainQ) \/ Queued(b)'
          /\ Head(mainQ) # Note
          /\ \A l \in Listeners : Head(mainQ) # First(l)
      BY <2>10, <2>q, InTail, BlockFacts DEF RunReply, Queued, Note
    <3> QED BY <2>10, <3>1, QuietConverges DEF RunReply, auth
  <2>11. ASSUME NEW appears \in BOOLEAN, Render(appears)
         PROVE  ConvergeInv'
    <3>1. UNCHANGED <<current, heard, calling, session>>
      BY <2>11 DEF Render, auth
    <3>2. CASE ~appears
      BY <2>11, <3>1, <3>2, <2>6 DEF Render, listening
    <3>3. CASE appears
      <4>1. nListen < MaxListeners /\ nListen' = nListen + 1
            /\ mainQ' = Append(mainQ, First(nListen + 1))
        BY <2>11, <3>3 DEF Render
      <4>2. nListen \in Nat /\ nListen + 1 \in Listeners /\ calling \in Nat
        BY <4>1 DEF TypeOK
      <4>3. \A b : Queued(b)' <=> Queued(b) \/ b = First(nListen + 1)
        BY <2>q, <4>1, <4>2, BlockFacts, InAppend DEF Queued
      <4>4. \A l \in Listeners : Queued(First(l))' <=> Queued(First(l)) \/ l = nListen + 1
        BY <4>2, <4>3, BlockFacts
      <4>5. (\A l \in Listeners : l <= nListen => WillHear(l))'
        BY <3>1, <4>1, <4>2, <4>3, <4>4 DEF ConvergeInv, WillHear
      <4>6. Told'
        BY <3>1 DEF ConvergeInv, Told
      <4>7. \A l \in Listeners : l > nListen' => heard'[l] = Never /\ ~Queued(First(l))'
        BY <3>1, <4>1, <4>2, <4>4 DEF ConvergeInv
      <4>8. calling' <= nListen'
        BY <3>1, <4>1, <4>2 DEF ConvergeInv
      <4> QED BY <4>5, <4>6, <4>7, <4>8 DEF ConvergeInv
    <3> QED BY <3>2, <3>3
  <2>12. ASSUME NEW arrived \in SUBSET Requests, NEW loaded \in MaybeUser,
                Relaunch(arrived, loaded)
         PROVE  ConvergeInv'
    <3>1. \A l \in Listeners : ~Queued(First(l))'
      BY <2>12, LaunchFacts, BlockFacts DEF Relaunch, Queued
    <3> QED BY <2>12, <3>1 DEF Relaunch, ConvergeInv, Told
  <2>13. CASE UNCHANGED vars
    BY <2>13, <2>6 DEF vars, listening
  <2>14. ASSUME NEW r \in Requests, NEW u \in Users, TapLogin(r, u) \/ TapRegister(r, u)
         PROVE  ConvergeInv'
    BY <2>14, <2>6 DEF TapLogin, TapRegister, auth
  <2>15. ASSUME NEW r \in Requests, CreateAccount(r)
         PROVE  ConvergeInv'
    BY <2>15, <2>6 DEF CreateAccount
  <2> QED BY <2>1, <2>2, <2>3, <2>4, <2>5, <2>7, <2>8, <2>9, <2>10, <2>11, <2>12,
             <2>13, <2>14, <2>15
          DEF Next, MainBlock, Draw, Respond
<1>3. Spec => []ConvergeInv
  BY <1>1, <1>2, TypeCorrect, PTL DEF Spec
<1> QED BY <1>3, ConvergeImplies, PTL
-----------------------------------------------------------------------------
(* Refinement of ObservedUser. *)

(* `session' only ever takes the value FIRAuth's current user has at that    *)
(* moment: every step of AuthSession is a step of ObservedUser or a stutter. *)
(* (That it catches up is liveness, checked by the run session.)             *)
THEOREM ObservesCurrentUser == Spec => Observed!SafeSpec
<1>1. Init => Observed!Init
  BY DEF Init, Observed!Init, MaybeUser
<1>2. TypeOK' /\ [Next]_vars => [Observed!Next]_<<current, session>>
  <2> SUFFICES ASSUME TypeOK', [Next]_vars
               PROVE  [Observed!Next]_<<current, session>>
    OBVIOUS
  <2>1. current' \in MaybeUser
    BY DEF TypeOK
  <2> USE DEF Observed!Next, Observed!Change, Observed!Observe, Observed!Restart,
              auth, listening, view
  <2>3. CASE UNCHANGED session
    BY <2>1, <2>3
  <2>4. CASE CallListener
    <3>1. Hear(calling) /\ UNCHANGED current
      BY <2>4 DEF CallListener
    <3> QED BY <3>1 DEF Hear
  <2>5. CASE FirstCall
    <3>1. Hear(Head(mainQ).listener) /\ UNCHANGED current
      BY <2>5 DEF FirstCall
    <3> QED BY <3>1 DEF Hear
  <2>6. ASSUME NEW arrived \in SUBSET Requests, NEW loaded \in MaybeUser,
               Relaunch(arrived, loaded)
        PROVE  [Observed!Next]_<<current, session>>
    BY <2>1, <2>6 DEF Relaunch
  <2>7. ASSUME NEW r \in Requests, NEW u \in Users, TapLogin(r, u) \/ TapRegister(r, u)
        PROVE  UNCHANGED session
    BY <2>7 DEF TapLogin, TapRegister
  <2>8. CASE TapSignOut \/ RefreshToken \/ DeliverNote \/ RunReply \/ UNCHANGED vars
    BY <2>3, <2>8 DEF TapSignOut, RefreshToken, DeliverNote, RunReply, vars
  <2>9. ASSUME NEW r \in Requests, CreateAccount(r) \/ Respond(r)
        PROVE  UNCHANGED session
    BY <2>9 DEF CreateAccount, Respond, SignInSucceeds, SignInFails
  <2>10. ASSUME NEW b \in BOOLEAN, Render(b) \/ ForcedSignOut(b)
         PROVE  UNCHANGED session
    BY <2>10 DEF Render, ForcedSignOut
  <2> QED BY <2>3, <2>4, <2>5, <2>6, <2>7, <2>8, <2>9, <2>10
          DEF Next, MainBlock, Draw
<1> QED BY <1>1, <1>2, TypeCorrect, PTL DEF Spec, Observed!SafeSpec, Observed!ovars
-----------------------------------------------------------------------------
(* The spinner of LoginView, where no token is revoked. *)

(* Every call is answered once.                                              *)
OneReply(q) ==
  \A i, j \in 1..Len(q), r \in Requests, o, p \in BOOLEAN :
    q[i] = Reply(r, o) /\ q[j] = Reply(r, p) => i = j

LiveLogin(r) == request[r].live /\ request[r].kind = "login"
Cause(r) == LiveLogin(r) /\ (request[r].stage = "sent" \/ Queued(Reply(r, FALSE)))

SpinnerInv ==
  /\ TypeOK
  /\ busy => screen.shows = "login"
  /\ \A r \in Requests : LiveLogin(r) => busy
  /\ \A r, s \in Requests : LiveLogin(r) /\ LiveLogin(s) => r = s
  /\ \A r \in Requests, ok \in BOOLEAN :
       Queued(Reply(r, ok)) => request[r].stage = "answered"
  /\ OneReply(mainQ)
  /\ SpinnerHasCause

(* A reply names its call and its outcome.                                   *)
LEMMA ReplyEq ==
  \A r, s \in Requests, o, p \in BOOLEAN : Reply(r, o) = Reply(s, p) => r = s /\ o = p
<1> SUFFICES ASSUME NEW r \in Requests, NEW s \in Requests, NEW o \in BOOLEAN,
                    NEW p \in BOOLEAN, Reply(r, o) = Reply(s, p)
             PROVE  r = s /\ o = p
  OBVIOUS
<1>1. /\ Reply(r, o).req = r /\ Reply(r, o).ok = o
      /\ Reply(s, p).req = s /\ Reply(s, p).ok = p
  BY BlockFacts
<1> QED BY <1>1

(* Appending a block that answers no call, or a call not answered before.    *)
LEMMA OneReplyAppend ==
  ASSUME NEW q \in Seq(Block), NEW e \in Block, OneReply(q),
         \A r \in Requests, o, p \in BOOLEAN :
           e = Reply(r, o) => ~InQueue(Reply(r, p), q)
  PROVE  OneReply(Append(q, e))
<1> DEFINE a == Append(q, e)
<1>1. /\ Len(a) = Len(q) + 1 /\ Len(q) \in Nat
      /\ \A i \in 1..Len(q) : a[i] = q[i]
      /\ a[Len(q) + 1] = e
  OBVIOUS
<1> HIDE DEF a
<1>2. ASSUME NEW i \in 1..Len(a), NEW j \in 1..Len(a), NEW r \in Requests,
             NEW o \in BOOLEAN, NEW p \in BOOLEAN,
             a[i] = Reply(r, o), a[j] = Reply(r, p)
      PROVE  i = j
  <2>1. CASE i \in 1..Len(q) /\ j \in 1..Len(q)
    BY <1>1, <1>2, <2>1 DEF OneReply
  <2>2. CASE i \in 1..Len(q) /\ j = Len(q) + 1
    BY <1>1, <1>2, <2>2 DEF InQueue
  <2>3. CASE i = Len(q) + 1 /\ j \in 1..Len(q)
    BY <1>1, <1>2, <2>3 DEF InQueue
  <2> QED BY <1>1, <2>1, <2>2, <2>3
<1>3. OneReply(a)
  BY <1>2 DEF OneReply
<1> QED BY <1>3 DEF a

(* Taking the head: the rest still answers every call once, and not the      *)
(* call that the head answers.                                               *)
LEMMA OneReplyTail ==
  ASSUME NEW q \in Seq(Block), q # <<>>, OneReply(q)
  PROVE  /\ OneReply(Tail(q))
         /\ \A r \in Requests, o, p \in BOOLEAN :
              Head(q) = Reply(r, o) => ~InQueue(Reply(r, p), Tail(q))
<1> DEFINE t == Tail(q)
<1>1. /\ Len(t) = Len(q) - 1 /\ Len(q) \in Nat \ {0}
      /\ \A i \in 1..Len(t) : t[i] = q[i + 1]
      /\ Head(q) = q[1]
  OBVIOUS
<1> HIDE DEF t
<1>2. ASSUME NEW i \in 1..Len(t), NEW j \in 1..Len(t), NEW r \in Requests,
             NEW o \in BOOLEAN, NEW p \in BOOLEAN,
             t[i] = Reply(r, o), t[j] = Reply(r, p)
      PROVE  i = j
  <2>1. i + 1 \in 1..Len(q) /\ j + 1 \in 1..Len(q)
    BY <1>1
  <2>2. q[i + 1] = Reply(r, o) /\ q[j + 1] = Reply(r, p)
    BY <1>1, <1>2
  <2>3. i + 1 = j + 1
    BY <2>1, <2>2 DEF OneReply
  <2> QED BY <2>3
<1>3. ASSUME NEW r \in Requests, NEW o \in BOOLEAN, NEW p \in BOOLEAN,
             q[1] = Reply(r, o), NEW i \in 1..Len(t), t[i] = Reply(r, p)
      PROVE  FALSE
  <2>1. 1 \in 1..Len(q) /\ i + 1 \in 1..Len(q) /\ q[i + 1] = Reply(r, p)
    BY <1>1, <1>3
  <2>2. 1 = i + 1
    BY <1>3, <2>1 DEF OneReply
  <2> QED BY <2>2
<1>4. OneReply(t) /\ \A r \in Requests, o, p \in BOOLEAN :
              Head(q) = Reply(r, o) => ~InQueue(Reply(r, p), t)
  BY <1>1, <1>2, <1>3 DEF OneReply, InQueue
<1> QED BY <1>4 DEF t

(* The spinner is only disturbed by what touches the calls, the replies, the *)
(* screen or the current user.                                               *)
LEMMA SpinnerStable ==
  ASSUME SpinnerInv, TypeOK', UNCHANGED <<busy, screen>>,
         \A r \in Requests : /\ request'[r].live = request[r].live
                             /\ request'[r].kind = request[r].kind
                             /\ request[r].stage = "answered"
                                  => request'[r].stage = "answered"
                             /\ LiveLogin(r) => request'[r].stage = request[r].stage,
         current # NoUser => current' # NoUser,
         \A r \in Requests, ok \in BOOLEAN :
           Queued(Reply(r, ok))' <=> Queued(Reply(r, ok)),
         OneReply(mainQ)'
  PROVE  SpinnerInv'
<1>1. \A r \in Requests : (LiveLogin(r)' <=> LiveLogin(r)) /\ (Cause(r) => Cause(r)')
  BY DEF LiveLogin, Cause
<1>2. SpinnerHasCause'
  BY <1>1 DEF SpinnerInv, SpinnerHasCause, Cause, LiveLogin
<1> QED BY <1>1, <1>2 DEF SpinnerInv

(* Posting a notification disturbs no reply.                                 *)
LEMMA PostReplies ==
  ASSUME NEW q \in Seq(Block), OneReply(q)
  PROVE  /\ OneReply(Post(q))
         /\ \A r \in Requests, ok \in BOOLEAN :
              InQueue(Reply(r, ok), Post(q)) <=> InQueue(Reply(r, ok), q)
BY BlockFacts, PostFacts, OneReplyAppend DEF Post

(* A launch begins without a spinner and without calls.                      *)
LEMMA SpinnerInit == Init /\ TypeOK => SpinnerInv
<1> SUFFICES ASSUME Init, TypeOK PROVE SpinnerInv
  OBVIOUS
<1>1. \A r \in Requests, ok \in BOOLEAN : ~Queued(Reply(r, ok))
  BY LaunchFacts, BlockFacts DEF Init, TypeOK, Queued
<1>2. OneReply(mainQ)
  BY <1>1 DEF OneReply, Queued, InQueue
<1>3. \A r \in Requests : ~LiveLogin(r)
  BY DEF Init, LiveLogin, Idle
<1> QED BY <1>1, <1>2, <1>3 DEF Init, SpinnerInv, SpinnerHasCause

LEMMA SpinnerLaunch ==
  ASSUME TypeOK', NEW arrived \in SUBSET Requests, NEW loaded \in MaybeUser,
         Relaunch(arrived, loaded)
  PROVE  SpinnerInv'
<1>1. \A r \in Requests, ok \in BOOLEAN : ~InQueue(Reply(r, ok), mainQ')
  BY LaunchFacts, BlockFacts DEF Relaunch
<1>2. OneReply(mainQ')
  BY <1>1 DEF OneReply, InQueue
<1>3. ~busy' /\ \A r \in Requests : ~request'[r].live
  BY DEF Relaunch, Idle
<1> QED BY <1>1, <1>2, <1>3 DEF SpinnerInv, SpinnerHasCause, LiveLogin, Queued, OneReply

(* Only a user who is dropped by force takes the reason away: then nobody is *)
(* signed in, and the login that succeeded calls nobody back.                *)
LEMMA SpinnerStep ==
  ASSUME TypeOK, TypeOK', SpinnerInv, [Next]_vars,
         ~(\E saved \in BOOLEAN : ForcedSignOut(saved))
  PROVE  SpinnerInv'
<1> USE DEF MaybeUser
<1>q. mainQ \in Seq(Block) /\ OneReply(mainQ)
  BY DEF TypeOK, SpinnerInv
<1>p. ASSUME mainQ' = Post(mainQ)
      PROVE  OneReply(mainQ)' /\ \A r \in Requests, ok \in BOOLEAN :
                                   Queued(Reply(r, ok))' <=> Queued(Reply(r, ok))
  BY <1>p, <1>q, PostReplies DEF Queued, OneReply
<1>u. ASSUME UNCHANGED mainQ
      PROVE  OneReply(mainQ)' /\ \A r \in Requests, ok \in BOOLEAN :
                                   Queued(Reply(r, ok))' <=> Queued(Reply(r, ok))
  BY <1>u, <1>q DEF Queued, OneReply
<1>1. ASSUME NEW r \in Requests, NEW u \in Users, TapLogin(r, u)
      PROVE  SpinnerInv'
  <2>1. /\ screen.shows = "login" /\ ~busy /\ request[r].stage = "idle"
        /\ busy' /\ UNCHANGED <<mainQ, current, screen>>
        /\ request'[r].stage = "sent" /\ request'[r].live /\ request'[r].kind = "login"
        /\ \A s \in Requests : s # r => request'[s] = request[s]
    BY <1>1 DEF TapLogin, auth, TypeOK
  <2>2. \A s \in Requests : ~LiveLogin(s) /\ (LiveLogin(s)' => s = r)
    BY <2>1 DEF SpinnerInv, LiveLogin
  <2>3. \A ok \in BOOLEAN : ~Queued(Reply(r, ok))
    BY <2>1 DEF SpinnerInv
  <2>4. SpinnerHasCause'
    BY <2>1 DEF SpinnerHasCause
  <2> QED BY <1>u, <2>1, <2>2, <2>3, <2>4 DEF SpinnerInv
<1>2. ASSUME NEW r \in Requests, NEW u \in Users, TapRegister(r, u)
      PROVE  SpinnerInv'
  <2>1. /\ ~busy /\ request[r].stage = "idle"
        /\ UNCHANGED <<mainQ, current, screen, busy>>
        /\ request'[r].kind = "register"
        /\ \A s \in Requests : s # r => request'[s] = request[s]
    BY <1>2 DEF TapRegister, auth, view, TypeOK
  <2>2. \A s \in Requests : ~LiveLogin(s) /\ ~LiveLogin(s)'
    BY <2>1 DEF SpinnerInv, LiveLogin
  <2>3. \A ok \in BOOLEAN : ~Queued(Reply(r, ok))
    BY <2>1 DEF SpinnerInv
  <2> QED BY <1>u, <2>1, <2>2, <2>3 DEF SpinnerInv, SpinnerHasCause
<1>3. CASE TapSignOut
  <2>1. ~busy /\ ~busy' /\ UNCHANGED <<request, screen>>
    BY <1>3 DEF TapSignOut, SpinnerInv, view
  <2>2. \A s \in Requests : ~LiveLogin(s) /\ ~LiveLogin(s)'
    BY <2>1 DEF SpinnerInv, LiveLogin
  <2> QED BY <1>3, <1>p, <2>1, <2>2 DEF TapSignOut, SpinnerInv, SpinnerHasCause
<1>4. CASE DeliverNote
  <2>1. /\ \A r \in Requests, ok \in BOOLEAN :
             Queued(Reply(r, ok))' <=> Queued(Reply(r, ok))
        /\ OneReply(mainQ)'
    BY <1>4, <1>q, InTail, OneReplyTail, BlockFacts DEF DeliverNote, Queued, OneReply
  <2> QED BY <1>4, <2>1, SpinnerStable DEF DeliverNote, auth, view
<1>5. CASE CallListener
  BY <1>5, <1>u, SpinnerStable DEF CallListener, auth
<1>6. CASE FirstCall
  <2>1. /\ \A r \in Requests, ok \in BOOLEAN :
             Queued(Reply(r, ok))' <=> Queued(Reply(r, ok))
        /\ OneReply(mainQ)'
    BY <1>6, <1>q, InTail, OneReplyTail, BlockFacts DEF FirstCall, Queued, OneReply
  <2> QED BY <1>6, <2>1, SpinnerStable DEF FirstCall, auth
<1>7. CASE RunReply
  <2>0. PICK h \in Requests, ok0 \in BOOLEAN :
          /\ Head(mainQ) = Reply(h, ok0) /\ Head(mainQ).req = h /\ Head(mainQ).ok = ok0
    BY <1>7, <1>q, InTail, BlockFacts DEF RunReply
  <2>1. mainQ' = Tail(mainQ) /\ mainQ # <<>>
    BY <1>7 DEF RunReply
  <2>2. /\ request'[h] = Idle
        /\ \A s \in Requests : s # h => request'[s] = request[s]
        /\ busy' = IF ~ok0 /\ LiveLogin(h) THEN ~busy ELSE busy
        /\ UNCHANGED <<current, screen>>
    BY <1>7, <2>0 DEF RunReply, auth, LiveLogin, TypeOK
  <2>3. \A r \in Requests, ok \in BOOLEAN :
          Queued(Reply(r, ok)) <=> Reply(r, ok) = Reply(h, ok0) \/ Queued(Reply(r, ok))'
    BY <2>0, <2>1, <1>q, InTail DEF Queued
  <2>4. OneReply(mainQ)' /\ \A ok \in BOOLEAN : ~Queued(Reply(h, ok))'
    <3>1. OneReply(Tail(mainQ)) /\ \A ok \in BOOLEAN : ~InQueue(Reply(h, ok), Tail(mainQ))
      BY <2>0, <2>1, <1>q, OneReplyTail
    <3> QED BY <2>1, <3>1 DEF Queued, OneReply
  <2>5. /\ ~LiveLogin(h)' /\ ~Queued(Reply(h, FALSE))'
        /\ \A s \in Requests : s # h =>
             /\ LiveLogin(s)' <=> LiveLogin(s)
             /\ \A ok \in BOOLEAN : Queued(Reply(s, ok))' <=> Queued(Reply(s, ok))
    <3>1. ~LiveLogin(h)' /\ \A s \in Requests : s # h => (LiveLogin(s)' <=> LiveLogin(s))
      BY <2>2 DEF LiveLogin, Idle
    <3>2. \A s \in Requests, ok \in BOOLEAN :
            s # h => (Queued(Reply(s, ok))' <=> Queued(Reply(s, ok)))
      BY <2>3, ReplyEq
    <3> QED BY <2>4, <3>1, <3>2
  <2>6. Queued(Reply(h, ok0)) /\ request[h].stage = "answered"
    BY <2>3 DEF SpinnerInv
  <2>7. CASE ~ok0 /\ LiveLogin(h)
    <3>1. ~busy' /\ \A s \in Requests : ~LiveLogin(s)'
      <4>1. busy /\ \A s \in Requests : LiveLogin(s) => s = h
        BY <2>7 DEF SpinnerInv
      <4> QED BY <2>2, <2>5, <2>7, <4>1
    <3>2. (\A s \in Requests, ok \in BOOLEAN :
             Queued(Reply(s, ok)) => request[s].stage = "answered")'
      BY <2>2, <2>4, <2>5 DEF SpinnerInv
    <3> QED BY <2>4, <3>1, <3>2 DEF SpinnerInv, SpinnerHasCause
  <2>8. CASE ok0 \/ ~LiveLogin(h)
    <3>0. busy' = busy
      BY <2>2, <2>8
    <3>1. ~Cause(h)
      <4>1. CASE ok0
        <5>1. ~Queued(Reply(h, FALSE))
          BY <2>3, <2>5, <4>1, ReplyEq
        <5> QED BY <2>6, <5>1 DEF Cause
      <4>2. CASE ~LiveLogin(h)
        BY <4>2 DEF Cause
      <4> QED BY <2>8, <4>1, <4>2
    <3>2. \A s \in Requests : Cause(s) => Cause(s)'
      BY <2>2, <2>5, <3>1 DEF Cause
    <3>3. SpinnerHasCause'
      <4>1. ASSUME busy', current' = NoUser PROVE \E s \in Requests : Cause(s)'
        <5>1. \E s \in Requests : Cause(s)
          BY <2>2, <3>0, <4>1 DEF SpinnerInv, SpinnerHasCause, Cause, LiveLogin
        <5> QED BY <3>2, <5>1
      <4> QED BY <4>1 DEF SpinnerHasCause, Cause, LiveLogin
    <3>4. \A s \in Requests : LiveLogin(s)' => LiveLogin(s)
      BY <2>5 DEF LiveLogin
    <3>5. (\A s \in Requests, ok \in BOOLEAN :
             Queued(Reply(s, ok)) => request[s].stage = "answered")'
      BY <2>2, <2>4, <2>5 DEF SpinnerInv
    <3> QED BY <2>2, <2>4, <3>0, <3>3, <3>4, <3>5 DEF SpinnerInv
  <2> QED BY <2>7, <2>8
<1>8. ASSUME NEW appears \in BOOLEAN, Render(appears)
      PROVE  SpinnerInv'
  <2>1. /\ \A r \in Requests, ok \in BOOLEAN :
             Queued(Reply(r, ok))' <=> Queued(Reply(r, ok))
        /\ OneReply(mainQ)'
    <3>1. CASE appears
      <4>1. nListen + 1 \in Listeners /\ mainQ' = Append(mainQ, First(nListen + 1))
        BY <1>8, <3>1, BoundsAssumption DEF Render, TypeOK, Listeners
      <4> QED BY <4>1, <1>q, BlockFacts, InAppend, OneReplyAppend DEF Queued, OneReply
    <3>2. CASE ~appears
      BY <1>8, <1>u, <3>2 DEF Render
    <3> QED BY <3>1, <3>2
  <2> DEFINE shown == IF session # NoUser THEN "category" ELSE "login"
  <2>2. screen'.shows = shown /\ UNCHANGED current
    BY <1>8 DEF Render, auth
  <2>3. CASE shown # screen.shows
    <3>1. ~busy' /\ \A r \in Requests : request'[r] = [request[r] EXCEPT !.live = FALSE]
      BY <1>8, <2>3 DEF Render
    <3>2. \A r \in Requests : ~request'[r].live /\ request'[r].stage = request[r].stage
      <4>1. ASSUME NEW r \in Requests PROVE request[r] \in Call \cup {Idle}
        BY DEF TypeOK
      <4> QED BY <3>1, <4>1 DEF Call, Idle
    <3> QED BY <2>1, <3>1, <3>2 DEF SpinnerInv, LiveLogin, SpinnerHasCause
  <2>4. CASE shown = screen.shows
    <3>1. busy' = busy /\ request' = request
      BY <1>8, <2>4 DEF Render, TypeOK
    <3>2. \A r \in Requests : (LiveLogin(r)' <=> LiveLogin(r)) /\ (Cause(r) => Cause(r)')
      BY <2>1, <3>1 DEF LiveLogin, Cause
    <3>3. SpinnerHasCause'
      BY <2>2, <3>1, <3>2 DEF SpinnerInv, SpinnerHasCause, Cause, LiveLogin
    <3> QED BY <2>1, <2>2, <2>4, <3>1, <3>2, <3>3 DEF SpinnerInv
  <2> QED BY <2>3, <2>4
<1>9. ASSUME NEW r \in Requests, CreateAccount(r)
      PROVE  SpinnerInv'
  <2>1. /\ request[r].kind = "register" /\ request[r].stage = "sent"
        /\ request'[r].kind = request[r].kind /\ request'[r].live = request[r].live
        /\ \A s \in Requests : s # r => request'[s] = request[s]
    BY <1>9 DEF CreateAccount, TypeOK, Call, Idle
  <2>2. ~LiveLogin(r)
    BY <2>1 DEF LiveLogin
  <2> QED BY <1>9, <1>u, <2>1, <2>2, SpinnerStable DEF CreateAccount, view
<1>10. ASSUME NEW r \in Requests, Respond(r)
       PROVE  SpinnerInv'
  <2> DEFINE ok0 == SignInSucceeds(r)
  <2>1. /\ request[r].stage \in {"sent", "created"}
        /\ request'[r] = [request[r] EXCEPT !.stage = "answered"]
        /\ \A s \in Requests : s # r => request'[s] = request[s]
        /\ UNCHANGED <<screen, busy>>
    BY <1>10 DEF Respond, SignInSucceeds, SignInFails, TypeOK, view
  <2>2. /\ request'[r].stage = "answered" /\ request'[r].kind = request[r].kind
        /\ request'[r].live = request[r].live
    <3>1. request[r] \in Call \cup {Idle}
      BY DEF TypeOK
    <3> QED BY <2>1, <3>1 DEF Call, Idle
  <2>3. \A ok \in BOOLEAN : ~Queued(Reply(r, ok))
    BY <2>1 DEF SpinnerInv
  <2>4. \A s \in Requests : LiveLogin(s)' <=> LiveLogin(s)
    BY <2>1, <2>2 DEF LiveLogin
  <2>5. CASE SignInSucceeds(r)
    <3>1. current' # NoUser /\ mainQ' = Append(Post(mainQ), Reply(r, TRUE))
      <4>1. request[r] \in Call \cup {Idle} /\ request[r] # Idle
        BY <2>1, CallFacts DEF TypeOK
      <4> QED BY <2>5, <4>1, CallFacts, UsersAssumption DEF SignInSucceeds
    <3>2. /\ Post(mainQ) \in Seq(Block) /\ OneReply(Post(mainQ)) /\ Reply(r, TRUE) \in Block
          /\ \A s \in Requests, ok \in BOOLEAN :
               InQueue(Reply(s, ok), Post(mainQ)) <=> Queued(Reply(s, ok))
      BY <1>q, PostFacts, PostReplies, BlockFacts DEF Queued
    <3>3. \A b : InQueue(b, mainQ') <=> InQueue(b, Post(mainQ)) \/ b = Reply(r, TRUE)
      BY <3>1, <3>2, InAppendBlock
    <3>4. \A s \in Requests, ok \in BOOLEAN :
            Queued(Reply(s, ok))' <=> Queued(Reply(s, ok)) \/ Reply(s, ok) = Reply(r, TRUE)
      BY <3>2, <3>3 DEF Queued
    <3>5. OneReply(mainQ')
      BY <3>1, <3>2, <2>3, ReplyEq, OneReplyAppend
    <3>6. \A s \in Requests, ok \in BOOLEAN :
            Queued(Reply(s, ok))' => request'[s].stage = "answered"
      <4>1. \A s \in Requests, ok \in BOOLEAN :
              Queued(Reply(s, ok))' => s = r \/ Queued(Reply(s, ok))
        BY <3>4, ReplyEq
      <4>2. \A s \in Requests, ok \in BOOLEAN :
              Queued(Reply(s, ok)) => request[s].stage = "answered"
        BY DEF SpinnerInv
      <4>3. /\ request'[r].stage = "answered"
            /\ \A s \in Requests : s # r => request'[s].stage = request[s].stage
        BY <2>1, <2>2
      <4> QED BY <4>1, <4>2, <4>3
    <3>7. SpinnerHasCause'
      BY <3>1 DEF SpinnerHasCause
    <3> QED BY <2>1, <2>4, <3>5, <3>6, <3>7 DEF SpinnerInv, OneReply
  <2>6. CASE SignInFails(r)
    <3>1. mainQ' = Append(mainQ, Reply(r, FALSE)) /\ UNCHANGED current
      BY <2>6 DEF SignInFails, auth
    <3>2. Reply(r, FALSE) \in Block
      BY BlockFacts
    <3>3. \A b : InQueue(b, mainQ') <=> InQueue(b, mainQ) \/ b = Reply(r, FALSE)
      BY <1>q, <3>1, <3>2, InAppendBlock
    <3>4. \A b : Queued(b)' <=> Queued(b) \/ b = Reply(r, FALSE)
      BY <3>3 DEF Queued
    <3>5. OneReply(mainQ')
      BY <1>q, <3>1, <3>2, <2>3, ReplyEq, OneReplyAppend DEF Queued
    <3>6. \A s \in Requests, ok \in BOOLEAN :
            Queued(Reply(s, ok))' => request'[s].stage = "answered"
      <4>1. \A s \in Requests, ok \in BOOLEAN :
              Queued(Reply(s, ok))' => s = r \/ Queued(Reply(s, ok))
        BY <3>4, ReplyEq
      <4>2. \A s \in Requests, ok \in BOOLEAN :
              Queued(Reply(s, ok)) => request[s].stage = "answered"
        BY DEF SpinnerInv
      <4>3. /\ request'[r].stage = "answered"
            /\ \A s \in Requests : s # r => request'[s].stage = request[s].stage
        BY <2>1, <2>2
      <4> QED BY <4>1, <4>2, <4>3
    <3>7. \A s \in Requests : Cause(s) => Cause(s)'
      BY <2>1, <2>2, <2>4, <3>4 DEF Cause
    <3>8. SpinnerHasCause'
      BY <2>1, <3>1, <3>7 DEF SpinnerInv, SpinnerHasCause, Cause, LiveLogin
    <3> QED BY <2>1, <2>4, <3>5, <3>6, <3>8 DEF SpinnerInv, OneReply
  <2> QED BY <1>10, <2>5, <2>6 DEF Respond
<1>11. CASE RefreshToken
  BY <1>11, <1>p, SpinnerStable DEF RefreshToken, auth, view
<1>12. ASSUME NEW arrived \in SUBSET Requests, NEW loaded \in MaybeUser,
              Relaunch(arrived, loaded)
       PROVE  SpinnerInv'
  BY <1>12, SpinnerLaunch
<1>13. CASE UNCHANGED vars
  BY <1>13, <1>u, SpinnerStable DEF vars
<1> QED BY <1>1, <1>2, <1>3, <1>4, <1>5, <1>6, <1>7, <1>8, <1>9, <1>10, <1>11,
           <1>12, <1>13
        DEF Next, MainBlock, Draw

(* Where no token is revoked, LoginView never spins without a cause that     *)
(* ends it, although LoginService calls back only on errors.                 *)
THEOREM SpinnerStops ==
  ASSUME Revocable = {}
  PROVE  Spec => []SpinnerHasCause
<1>1. ~(\E saved \in BOOLEAN : ForcedSignOut(saved))
  BY DEF ForcedSignOut
<1>2. TypeOK /\ TypeOK' /\ SpinnerInv /\ [Next]_vars => SpinnerInv'
  BY <1>1, SpinnerStep
<1>3. Spec => []SpinnerInv
  BY <1>2, SpinnerInit, TypeCorrect, PTL DEF Spec
<1>4. SpinnerInv => SpinnerHasCause
  BY DEF SpinnerInv
<1> QED BY <1>3, <1>4, PTL

(* Where tokens may be revoked, the spinner has its cause in every launch    *)
(* until the first user is dropped by force.                                 *)
THEOREM SpinnerStopsUnrevoked == MCSpec => []SpinnerHasCauseUnrevoked
<1> DEFINE Caused == ~revoked => SpinnerInv
<1>1. MCInit /\ TypeOK => Caused
  BY SpinnerInit DEF MCInit
<1>2. TypeOK /\ TypeOK' /\ Caused /\ [MCNext]_mcVars => Caused'
  <2> SUFFICES ASSUME TypeOK, TypeOK', Caused, [MCNext]_mcVars, ~revoked'
               PROVE  SpinnerInv'
    OBVIOUS
  <2>1. CASE UNCHANGED mcVars
    <3>1. UNCHANGED vars /\ SpinnerInv
      BY <2>1 DEF mcVars
    <3>2. /\ OneReply(mainQ)'
          /\ \A r \in Requests, ok \in BOOLEAN :
               Queued(Reply(r, ok))' <=> Queued(Reply(r, ok))
      BY <3>1 DEF vars, SpinnerInv, OneReply, Queued
    <3> QED BY <3>1, <3>2, SpinnerStable DEF vars
  <2>2. CASE MCNext
    <3>1. /\ ~(\E saved \in BOOLEAN : ForcedSignOut(saved))
          /\ Next
          /\ \/ SpinnerInv
             \/ \E arrived \in SUBSET Requests, loaded \in MaybeUser :
                  Relaunch(arrived, loaded)
      BY <2>2 DEF MCNext
    <3> QED BY <3>1, SpinnerLaunch, SpinnerStep
  <2> QED BY <2>1, <2>2
<1>3. MCSpec => Spec
  <2>1. MCInit => Init
    BY DEF MCInit
  <2>2. [MCNext]_mcVars => [Next]_vars
    BY DEF MCNext, mcVars
  <2> QED BY <2>1, <2>2, PTL DEF MCSpec, Spec
<1>4. MCSpec => []Caused
  BY <1>1, <1>2, <1>3, TypeCorrect, PTL DEF MCSpec
<1>5. Caused => SpinnerHasCauseUnrevoked
  BY DEF SpinnerHasCauseUnrevoked, SpinnerInv
<1> QED BY <1>4, <1>5, PTL
=============================================================================
