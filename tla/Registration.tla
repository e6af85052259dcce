----------------------------- MODULE Registration -----------------------------
(***************************************************************************)
(* RegistrationService.createUser: an account, a profile image, its URL    *)
(* and a user document, made one after the other by four services, each    *)
(* step started by the completion of the one before on the main thread.    *)
(*                                                                         *)
(* Creating the account signs its user in at once: HomeView leaves         *)
(* RegistrationView while steps 2 to 4 still run, the user may sign out or *)
(* register again, the calls may fail with or without effect, and the      *)
(* process may be killed.                                                  *)
(***************************************************************************)
EXTENDS FirestoreWrites

CONSTANTS MaxCredentials  \* bound: notifications waiting on the main queue

(* One attempt for each tap on Register; its document write bears its name,  *)
(* and so does the data that the form held.                                  *)
Attempts == WriteIds

ASSUME RegistrationAssumption == WriteIds \subseteq Values

VARIABLES
  accounts,  \* Auth server: the users that exist (one for each address)
  images,    \* Storage: profile_images/<uid>.jpg
  current,   \* FIRAuth's current user, also the one in the keychain
  signingIn, \* users whose login is in flight
  shown,  \* the user whose CategoryView is drawn, NoUser for LoginView
  attempt    \* the state of each attempt

session == <<current, signingIn, shown>>
vars == <<fsVars, accounts, images, session, attempt>>
app == <<accounts, images, session, attempt>>

Steps == {"idle", "auth", "created", "signedIn", "upload", "stored", "url",
          "doc", "done", "failed", "silent", "killed"}
Ended == {"done", "failed", "silent", "killed"}
Attempt == [user : MaybeUser, step : Steps]

Init ==
  /\ FsInit(NoUser, [u \in Users |-> Missing])
  /\ accounts = {} /\ images = {}
  /\ current = NoUser /\ signingIn = {} /\ shown = NoUser
  /\ attempt = [a \in Attempts |-> [user |-> NoUser, step |-> "idle"]]

Moves(a, from, to) ==
  /\ attempt[a].step \in from
  /\ attempt' = [attempt EXCEPT ![a].step = to]

others == <<docs, landed, queue, fsUser, waiting, responses, callbacks>>

(* FIRAuth changes its user and posts the notification.                      *)
BecomeUser(u) ==
  /\ Len(credQ) < MaxCredentials
  /\ current' = u
  /\ PostCredential(u)

-----------------------------------------------------------------------------
(* The Register button: the view belongs to LoginView's navigation.          *)
TapRegister(a, u) ==
  /\ shown = NoUser
  /\ attempt[a].step = "idle"
  /\ attempt' = [attempt EXCEPT ![a] = [user |-> u, step |-> "auth"]]
  /\ UNCHANGED <<fsVars, accounts, images, session>>

(* #1: the server makes the account, if the address is free.                 *)
CreateAccount(a) ==
  /\ attempt[a].user \notin accounts
  /\ Moves(a, {"auth"}, "created")
  /\ accounts' = accounts \cup {attempt[a].user}
  /\ UNCHANGED <<fsVars, images, session>>

(* The good response signs the new user in before createUser calls back.     *)
SignIn(a) ==
  /\ Moves(a, {"created"}, "signedIn")
  /\ BecomeUser(attempt[a].user)
  /\ UNCHANGED <<others, accounts, images, signingIn, shown>>

(* #2: jpegData may give nothing, and then nobody is told.  The notification *)
(* of the sign-in came to the main queue before this completion did.         *)
StartUpload(a) ==
  /\ \A i \in 1..Len(credQ) : credQ[i] # attempt[a].user
  /\ \E to \in {"upload", "silent"} : Moves(a, {"signedIn"}, to)
  /\ UNCHANGED <<fsVars, accounts, images, session>>

StoreImage(a) ==
  /\ Moves(a, {"upload"}, "stored")
  /\ images' = images \cup {attempt[a].user}
  /\ UNCHANGED <<fsVars, accounts, session>>

(* Mutant of AskUrl: the error of the upload is not looked at.               *)
AskUrlAnyway(a) ==
  /\ Moves(a, {"upload", "stored"}, "url")
  /\ UNCHANGED <<fsVars, accounts, images, session>>

(* #3: the upload succeeded; ask for the URL.                                *)
AskUrl(a) ==
  /\ Moves(a, {"stored"}, "url")
  /\ UNCHANGED <<fsVars, accounts, images, session>>

(* #4: the URL came; write the whole document.                               *)
WriteDocument(a) ==
  /\ Moves(a, {"url"}, "doc")
  /\ SetData([id |-> a, doc |-> attempt[a].user,
              data |-> [f \in Fields |-> a], merge |-> FALSE])
  /\ UNCHANGED <<accounts, images, session>>

(* A step answers with an error, also after it had its effect on the server. *)
StepFails(a) ==
  /\ Moves(a, {"auth", "created", "upload", "stored", "url"}, "failed")
  /\ UNCHANGED <<fsVars, accounts, images, session>>

(* Mutants of DocumentAnswered: the error is dropped; nobody is told.        *)
DocumentAnsweredOk ==
  /\ TakeCallback
  /\ Moves(Head(callbacks).id, {"doc"}, "done")
  /\ UNCHANGED <<accounts, images, session>>
DocumentIgnored ==
  /\ TakeCallback
  /\ UNCHANGED app

(* The document's own completion is the caller's.                            *)
DocumentAnswered ==
  /\ TakeCallback
  /\ LET c == Head(callbacks)
     IN  Moves(c.id, {"doc"}, IF c.ok THEN "done" ELSE "failed")
  /\ UNCHANGED <<accounts, images, session>>

-----------------------------------------------------------------------------
(* The rest of the app. *)

(* The notification reaches Firestore's listener, which captured the uid, and *)
(* SessionStore's, which asks Auth again; HomeView is redrawn before the next *)
(* touch.  That this settles is the subject of module AuthSession.            *)
Observe ==
  /\ CredentialChange
  /\ shown' = current
  /\ UNCHANGED <<accounts, images, current, signingIn, attempt>>

SignOut ==
  /\ shown # NoUser /\ current # NoUser
  /\ BecomeUser(NoUser)
  /\ UNCHANGED <<others, accounts, images, signingIn, shown, attempt>>

(* Logins: LoginView sends them, their answers come whenever they come.       *)
TapLogIn(u) ==
  /\ shown = NoUser
  /\ signingIn' = signingIn \cup {u}
  /\ UNCHANGED <<fsVars, accounts, images, current, shown, attempt>>

LogInSucceeds(u) ==
  /\ u \in signingIn
  /\ u \in accounts
  /\ signingIn' = signingIn \ {u}
  /\ BecomeUser(u)
  /\ UNCHANGED <<others, accounts, images, shown, attempt>>

LogInFails(u) ==
  /\ u \in signingIn
  /\ signingIn' = signingIn \ {u}
  /\ UNCHANGED <<fsVars, accounts, images, current, shown, attempt>>

(* The process is killed and launched again; of the requests in flight those *)
(* in `arrived' still take effect.                                           *)
Relaunch(arrived) ==
  /\ \A a \in arrived : attempt[a].step \in {"auth", "upload"}
  /\ FsRelaunch(current)
  /\ accounts' = accounts \cup {attempt[a].user : a \in {b \in arrived : attempt[b].step = "auth"}}
  /\ images' = images \cup {attempt[a].user : a \in {b \in arrived : attempt[b].step = "upload"}}
  /\ shown' = current
  /\ signingIn' = {}
  /\ attempt' = [a \in Attempts |->
       IF attempt[a].step \in Ended \cup {"idle"} THEN attempt[a]
       ELSE [attempt[a] EXCEPT !.step = "killed"]]
  /\ UNCHANGED current

Internal == FsInternal /\ UNCHANGED app
Responds(a) ==
  \/ CreateAccount(a) \/ SignIn(a) \/ StartUpload(a) \/ StoreImage(a)
  \/ AskUrl(a) \/ WriteDocument(a) \/ StepFails(a)

Next ==
  \/ \E a \in Attempts, u \in Users : TapRegister(a, u)
  \/ \E a \in Attempts : Responds(a)
  \/ DocumentAnswered
  \/ Observe
  \/ SignOut
  \/ \E u \in Users : TapLogIn(u) \/ LogInSucceeds(u) \/ LogInFails(u)
  \/ \E arrived \in SUBSET Attempts : Relaunch(arrived)
  \/ Internal

(* Auth and Storage calls answer or time out, and the main queue reaches     *)
(* their completions however many notifications are posted (hence SF); the   *)
(* Firestore server answers and the write stream does not break for ever.    *)
Fairness ==
  /\ \A a \in Attempts : SF_vars(Responds(a))
  /\ WF_vars(DocumentAnswered)
  /\ WF_vars(Observe)
  /\ WF_vars((ServerStores \/ ServerDenies)
               /\ UNCHANGED app)
  /\ SF_vars(HandleResponse /\ UNCHANGED app)

Spec == Init /\ [][Next]_vars
FairSpec == Spec /\ Fairness

-----------------------------------------------------------------------------
TypeOK ==
  /\ FsTypeOK
  /\ accounts \subseteq Users
  /\ images \subseteq Users
  /\ current \in MaybeUser
  /\ signingIn \subseteq Users
  /\ shown \in MaybeUser
  /\ attempt \in [Attempts -> Attempt]

(* Never a document whose image is missing, nor an image whose account is:   *)
(* the nesting of completions orders the services, also when a write waited  *)
(* in LevelDB over a relaunch or a change of user.                           *)
DocumentAfterImage ==
  /\ \A u \in Users : docs[u] # Missing => u \in images
  /\ images \subseteq accounts

(* createUser calls back without error only when account, image and document *)
(* are all on the server, and the document is the one of this attempt, even  *)
(* if the same address was registered twice at a time.                       *)
SuccessIsComplete ==
  \A a \in Attempts : attempt[a].step = "done" =>
    /\ attempt[a].user \in accounts /\ attempt[a].user \in images
    /\ docs[attempt[a].user] = [f \in Fields |-> a]

(* Every attempt ends, with or without a word to the caller, unless its      *)
(* document is time and again found in the queue of somebody who is not      *)
(* Firestore's user: there is no timeout for that.                           *)
Stranded(a) == \E u \in MaybeUser \ {fsUser} : a \in Ids(queue[u])
AttemptEnds ==
  \A a \in Attempts :
    ((attempt[a].step = "auth") ~> (attempt[a].step \in Ended)) \/ []<>Stranded(a)

(* RegistrationView.swift:99 says "All fields are required including profile *)
(* pic!".  Once nothing is on its way, and even if no process was killed     *)
(* half-way, every registered account would have its picture and its fields. *)
Settled ==
  /\ \A a \in Attempts : attempt[a].step \in (Ended \ {"killed"}) \cup {"idle"}
  /\ \A u \in MaybeUser : queue[u] = <<>>
AccountsComplete ==
  Settled => \A u \in accounts : u \in images /\ docs[u] # Missing
=============================================================================
