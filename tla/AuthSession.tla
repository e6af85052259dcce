----------------------------- MODULE AuthSession -----------------------------
(***************************************************************************)
(* Who is signed in, and what the app shows for it.                        *)
(*                                                                         *)
(* FirebaseAuth owns the current user: it is changed on FIRAuth's serial   *)
(* work queue by sign-in responses, token refreshes and sign-outs, and     *)
(* every change posts a notification to the main queue.  SessionStore      *)
(* registers auth-state listeners that copy the current user into the      *)
(* published `session'; HomeView draws CategoryView or LoginView from      *)
(* `session', and builds a UserViewModel bound to Auth.currentUser         *)
(* whenever it draws CategoryView.                                         *)
(*                                                                         *)
(* The main thread runs one block at a time (`mainQ' is its FIFO queue);   *)
(* the work queue runs at any moment, also between two listeners of one    *)
(* notification.                                                           *)
(***************************************************************************)
EXTENDS Naturals, Sequences

CONSTANTS
  Users,         \* accounts that exist or may be registered
  NoUser,        \* nil
  Never,         \* a listener that was not called yet (firstInvocation)
  Requests,      \* slots for sign-in and registration calls in flight
  Revocable,     \* users whose token the server may revoke
  MaxListeners,  \* bound: calls of SessionStore.listen in one launch
  MaxQueue       \* bound: the queue length up to which Auth posts to it

ASSUME UsersAssumption ==
  /\ NoUser \notin Users
  /\ Never \notin Users \cup {NoUser}
  /\ Revocable \subseteq Users
ASSUME BoundsAssumption ==
  MaxListeners \in Nat \ {0} /\ MaxQueue \in Nat \ {0}

VARIABLES
  accounts,  \* server: registered accounts
  keychain,  \* device: the user FIRAuth saved
  current,   \* FIRAuth._currentUser
  mainQ,     \* blocks dispatched to the main queue
  request,   \* calls in flight
  nListen,   \* listeners registered so far in this launch
  heard,     \* per listener: the uid it was last called with (previousUserID)
  calling,   \* next listener of the notification being delivered, 0 if none
  session,   \* SessionStore.session
  dirty,     \* `session' was published since HomeView.body last ran
  screen,    \* what HomeView drew, and the user its UserViewModel listens to
  busy       \* LoginView.showActivityIndicator

vars == <<accounts, keychain, current, mainQ, request, nListen, heard,
          calling, session, dirty, screen, busy>>
auth == <<accounts, keychain, current>>
listening == <<nListen, heard, calling, session>>
view == <<dirty, screen, busy>>

MaybeUser == Users \cup {NoUser}
Listeners == 1..MaxListeners

-----------------------------------------------------------------------------
(* The blocks of the main queue. *)

Note == [kind |-> "note"]
First(l) == [kind |-> "first", listener |-> l]
Reply(r, ok) == [kind |-> "reply", req |-> r, ok |-> ok]

Block == {Note} \cup {First(l) : l \in Listeners}
           \cup {Reply(r, ok) : r \in Requests, ok \in BOOLEAN}

InQueue(b, q) == \E i \in 1..Len(q) : q[i] = b
Queued(b) == InQueue(b, mainQ)
HasRoom(n) == Len(mainQ) + n <= MaxQueue

(* Mutant of Post: nobody is notified.                                       *)
PostNothing(q) == q

(* possiblyPostAuthStateChangeNotification: the token of a user that just   *)
(* signed in, or nil, always differs from the last one notified.            *)
Post(q) == Append(q, Note)

Idle == [kind |-> "login", user |-> NoUser, stage |-> "idle", live |-> FALSE]
Call == [kind : {"login", "register"}, user : Users,
         stage : {"sent", "created", "answered"}, live : BOOLEAN]

(* The initial values of a launch in which FIRAuth loaded user u from the  *)
(* keychain (or nil when the keychain could not be read).                  *)
LaunchQueue(u) == IF u = NoUser THEN <<>> ELSE Post(<<>>)

Init ==
  /\ accounts \in SUBSET Users
  /\ keychain \in accounts \cup {NoUser}
  /\ current = keychain
  /\ mainQ = LaunchQueue(keychain)
  /\ request = [r \in Requests |-> Idle]
  /\ nListen = 0
  /\ heard = [l \in Listeners |-> Never]
  /\ calling = 0
  /\ session = current
  /\ dirty = TRUE
  /\ screen = [shows |-> "nothing", owner |-> NoUser]
  /\ busy = FALSE

-----------------------------------------------------------------------------
(* The main thread. *)

(* LoginView's Login button: LoadingView disables it while the spinner runs. *)
TapLogin(r, u) ==
  /\ calling = 0
  /\ screen.shows = "login"
  /\ ~busy
  /\ request[r].stage = "idle"
  /\ request' = [request EXCEPT ![r] =
       [kind |-> "login", user |-> u, stage |-> "sent", live |-> TRUE]]
  /\ busy' = TRUE
  /\ UNCHANGED <<auth, mainQ, listening, dirty, screen>>

(* RegistrationView's Register button; Back leaves the call in flight, so    *)
(* several may be.  The view lies inside LoginView's LoadingView.            *)
TapRegister(r, u) ==
  /\ calling = 0
  /\ screen.shows = "login"
  /\ ~busy
  /\ request[r].stage = "idle"
  /\ request' = [request EXCEPT ![r] =
       [kind |-> "register", user |-> u, stage |-> "sent", live |-> TRUE]]
  /\ UNCHANGED <<auth, mainQ, listening, view>>

(* CategoryView's Sign Out button.  signOut does nothing without a current   *)
(* user, and throws without effect when the keychain cannot be written.      *)
TapSignOut ==
  /\ calling = 0
  /\ screen.shows = "category"
  /\ current # NoUser
  /\ HasRoom(1)
  /\ current' = NoUser
  /\ keychain' = NoUser
  /\ mainQ' = Post(mainQ)
  /\ UNCHANGED <<accounts, request, listening, view>>

(* The main thread takes a notification and begins to call the observers.    *)
DeliverNote ==
  /\ calling = 0
  /\ mainQ # <<>>
  /\ Head(mainQ) = Note
  /\ mainQ' = Tail(mainQ)
  /\ calling' = IF nListen = 0 THEN 0 ELSE 1
  /\ UNCHANGED <<auth, request, nListen, heard, session, view>>

(* Mutants of Hear: a closure without the nil branch; a plain variable in    *)
(* place of the @Published one.                                              *)
HearOnlyUsers(l) ==
  /\ heard' = [heard EXCEPT ![l] = current]
  /\ IF heard[l] # current /\ current # NoUser
       THEN session' = current /\ dirty' = TRUE
       ELSE UNCHANGED <<session, dirty>>
HearUnpublished(l) ==
  /\ heard' = [heard EXCEPT ![l] = current]
  /\ IF heard[l] # current THEN session' = current ELSE UNCHANGED session
  /\ UNCHANGED dirty

(* The block of addAuthStateDidChangeListener: it filters by uid and, if it  *)
(* lets the user through, runs SessionStore's closure.                       *)
Hear(l) ==
  /\ heard' = [heard EXCEPT ![l] = current]
  /\ IF heard[l] # current
       THEN session' = current /\ dirty' = TRUE
       ELSE UNCHANGED <<session, dirty>>

(* Mutant of CallListener: one observer too many.                            *)
CallListenerTooOften ==
  /\ calling # 0
  /\ Hear(calling)
  /\ calling' = IF calling <= nListen THEN calling + 1 ELSE 0
  /\ UNCHANGED <<auth, mainQ, request, nListen, screen, busy>>

(* One observer of the notification reads auth.currentUser and runs.         *)
CallListener ==
  /\ calling # 0
  /\ Hear(calling)
  /\ calling' = IF calling < nListen THEN calling + 1 ELSE 0
  /\ UNCHANGED <<auth, mainQ, request, nListen, screen, busy>>

(* The first invocation that registering a listener dispatched.              *)
FirstCall ==
  /\ calling = 0
  /\ mainQ # <<>>
  /\ Head(mainQ).kind = "first"
  /\ mainQ' = Tail(mainQ)
  /\ Hear(Head(mainQ).listener)
  /\ UNCHANGED <<auth, request, nListen, calling, screen, busy>>

(* Mutant of RunReply: the error is not handed to LoginView.                 *)
RunReplyForgotten ==
  /\ calling = 0
  /\ mainQ # <<>>
  /\ Head(mainQ).kind = "reply"
  /\ mainQ' = Tail(mainQ)
  /\ request' = [request EXCEPT ![Head(mainQ).req] = Idle]
  /\ UNCHANGED <<auth, listening, view>>

(* The completion of signIn or createUser.  Only a login's error comes back  *)
(* to LoginView, where it toggles the spinner; a login's success is printed  *)
(* only.  What a registration does next is module Registration.              *)
RunReply ==
  /\ calling = 0
  /\ mainQ # <<>>
  /\ Head(mainQ).kind = "reply"
  /\ mainQ' = Tail(mainQ)
  /\ LET b == Head(mainQ)
         c == request[b.req]
     IN  /\ request' = [request EXCEPT ![b.req] = Idle]
         /\ busy' = IF ~b.ok /\ c.kind = "login" /\ c.live THEN ~busy ELSE busy
  /\ UNCHANGED <<auth, listening, dirty, screen>>

(* HomeView.body: CategoryView() makes a new UserViewModel, which listens to *)
(* the document of Auth.currentUser, read now.  Group.onAppear fires when    *)
(* the view first appears and, as SwiftUI decides, when the branch changes;  *)
(* it calls SessionStore.listen.  A LoginView that is left loses its state.  *)
Render(appears) ==
  /\ calling = 0
  /\ dirty
  /\ LET shown == IF session # NoUser THEN "category" ELSE "login"
         switch == shown # screen.shows
     IN  /\ appears => switch /\ nListen < MaxListeners
         /\ screen.shows = "nothing" => appears
         /\ screen' = [shows |-> shown,
                       owner |-> IF shown = "category" THEN current ELSE NoUser]
         /\ busy' = (busy /\ ~switch)
         /\ request' = IF switch
                         THEN [r \in Requests |-> [request[r] EXCEPT !.live = FALSE]]
                         ELSE request
  /\ IF appears
       THEN /\ nListen' = nListen + 1
            /\ mainQ' = Append(mainQ, First(nListen + 1))
       ELSE UNCHANGED <<nListen, mainQ>>
  /\ dirty' = FALSE
  /\ UNCHANGED <<auth, heard, calling, session>>

-----------------------------------------------------------------------------
(* FIRAuth's work queue. *)

(* The server creates the account; the response is still on its way.         *)
CreateAccount(r) ==
  /\ request[r].kind = "register"
  /\ request[r].stage = "sent"
  /\ request[r].user \notin accounts
  /\ accounts' = accounts \cup {request[r].user}
  /\ request' = [request EXCEPT ![r].stage = "created"]
  /\ UNCHANGED <<keychain, current, mainQ, listening, view>>

(* A good response: the new current user is saved and set, the notification  *)
(* is posted, then the completion is dispatched.                             *)
SignInSucceeds(r) ==
  /\ \/ request[r].kind = "login" /\ request[r].stage = "sent"
     \/ request[r].stage = "created"
  /\ request[r].user \in accounts
  /\ HasRoom(2)
  /\ current' = request[r].user
  /\ keychain' = request[r].user
  /\ mainQ' = Append(Post(mainQ), Reply(r, TRUE))
  /\ request' = [request EXCEPT ![r].stage = "answered"]
  /\ UNCHANGED <<accounts, listening, view>>

(* An error response, a timeout, or a keychain that cannot be written: the   *)
(* current user stays, even when the account was created.                    *)
SignInFails(r) ==
  /\ request[r].stage \in {"sent", "created"}
  /\ HasRoom(1)
  /\ mainQ' = Append(mainQ, Reply(r, FALSE))
  /\ request' = [request EXCEPT ![r].stage = "answered"]
  /\ UNCHANGED <<auth, listening, view>>

(* updateKeychainWithUser: a refreshed token of the same user is posted too. *)
RefreshToken ==
  /\ current # NoUser
  /\ HasRoom(1)
  /\ mainQ' = Post(mainQ)
  /\ UNCHANGED <<auth, request, listening, view>>

(* signOutByForceWithUserID: the user is dropped even when the keychain      *)
(* keeps it.                                                                 *)
ForcedSignOut(saved) ==
  /\ current \in Revocable
  /\ HasRoom(1)
  /\ current' = NoUser
  /\ keychain' = IF saved THEN NoUser ELSE keychain
  /\ mainQ' = Post(mainQ)
  /\ UNCHANGED <<accounts, request, listening, view>>

-----------------------------------------------------------------------------
(* The app is killed and launched again.  Registrations in flight may or may *)
(* not have reached the server; the keychain may or may not be readable.     *)
Relaunch(arrived, loaded) ==
  /\ \A r \in arrived : request[r].kind = "register" /\ request[r].stage = "sent"
  /\ loaded \in {keychain, NoUser}
  /\ accounts' = accounts \cup {request[r].user : r \in arrived}
  /\ current' = loaded
  /\ session' = loaded
  /\ mainQ' = LaunchQueue(loaded)
  /\ request' = [r \in Requests |-> Idle]
  /\ nListen' = 0
  /\ heard' = [l \in Listeners |-> Never]
  /\ calling' = 0
  /\ dirty' = TRUE
  /\ screen' = [shows |-> "nothing", owner |-> NoUser]
  /\ busy' = FALSE
  /\ UNCHANGED keychain

MainBlock == DeliverNote \/ CallListener \/ FirstCall \/ RunReply
Draw == \E appears \in BOOLEAN : Render(appears)
Respond(r) == SignInSucceeds(r) \/ SignInFails(r)

Next ==
  \/ \E r \in Requests, u \in Users : TapLogin(r, u)
  \/ \E r \in Requests, u \in Users : TapRegister(r, u)
  \/ TapSignOut
  \/ MainBlock
  \/ Draw
  \/ \E r \in Requests : CreateAccount(r)
  \/ \E r \in Requests : Respond(r)
  \/ RefreshToken
  \/ \E saved \in BOOLEAN : ForcedSignOut(saved)
  \/ \E arrived \in SUBSET Requests, loaded \in MaybeUser :
       Relaunch(arrived, loaded)

(* The main run loop drains its queue, and between two blocks it redraws what *)
(* was published, however many blocks keep coming; every call gets a response *)
(* or a timeout.  Nothing makes the user tap, or the process die.            *)
Fairness ==
  /\ WF_vars(MainBlock)
  /\ SF_vars(Draw)
  /\ \A r \in Requests : WF_vars(Respond(r))

Spec == Init /\ [][Next]_vars
FairSpec == Spec /\ Fairness

-----------------------------------------------------------------------------
TypeOK ==
  /\ accounts \subseteq Users
  /\ keychain \in MaybeUser
  /\ current \in MaybeUser
  /\ mainQ \in Seq(Block)
  /\ request \in [Requests -> Call \cup {Idle}]
  /\ nListen \in 0..MaxListeners
  /\ heard \in [Listeners -> MaybeUser \cup {Never}]
  /\ calling \in 0..MaxListeners
  /\ session \in MaybeUser
  /\ dirty \in BOOLEAN
  /\ screen \in [shows : {"nothing", "login", "category"}, owner : MaybeUser]
  /\ busy \in BOOLEAN

(* Whenever the published session is not FIRAuth's current user, some block  *)
(* is on its way that will make a listener look again: no interleaving of    *)
(* the work queue with several listeners, each with its own uid filter, can  *)
(* leave HomeView on a stale user for good (SessionStore.listen,             *)
(* addAuthStateDidChangeListener).                                           *)
SessionConverges ==
  session # current =>
    \/ Queued(Note)
    \/ calling # 0
    \/ \E l \in Listeners : Queued(First(l))
    \/ nListen = 0

(* A spinning LoginView has a reason to stop spinning: its own login is      *)
(* unanswered or failed, or somebody is signed in, so that HomeView will     *)
(* leave it.  Claimed where no token is revoked (LoginService.logUserIn      *)
(* never calls back on success).                                             *)
SpinnerHasCause ==
  busy => \/ current # NoUser
          \/ \E r \in Requests :
               /\ request[r].live /\ request[r].kind = "login"
               /\ \/ request[r].stage = "sent"
                  \/ Queued(Reply(r, FALSE))

(* SessionStore implements the lagging view of the current user that module  *)
(* ObservedUser describes: `session' only ever takes the value FIRAuth has   *)
(* at that moment, and catches up.                                           *)
Observed == INSTANCE ObservedUser WITH Values <- MaybeUser
ImplementsObservedUser == Observed!Spec

(* The screen follows the current user: LoginView for nil, CategoryView for a user.    *)
ScreenShowsUser ==
  screen.shows = (IF current = NoUser THEN "login" ELSE "category")
ScreenFollows ==
  \A u \in MaybeUser : (current = u) ~> (ScreenShowsUser \/ current # u)
=============================================================================
