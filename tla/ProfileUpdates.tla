---------------------------- MODULE ProfileUpdates ----------------------------
(***************************************************************************)
(* UserProfileView's Update Info button and UserViewModel's three updates. *)
(*                                                                         *)
(*   email:  merge the address into the user document; its completion asks *)
(*           FirebaseAuth to change the address of whoever is signed in    *)
(*           then; the completion of that signs out whoever is signed in.  *)
(*   info:   merge the names into the document.                            *)
(*   image:  upload the picture, ask its URL, merge names and URL.         *)
(*                                                                         *)
(* LoadingView blocks the form while it spins, but Back leaves it and a    *)
(* new form starts afresh, so updates overlap; the user may sign out and   *)
(* others log in while they run, calls fail with or without effect, and    *)
(* the process may be killed.                                              *)
(***************************************************************************)
EXTENDS FirestoreWrites

CONSTANTS
  EmailOps, InfoOps, ImageOps,  \* one for each tap on Update Info
  MaxCredentials                \* bound: notifications waiting on the main queue

(* An update bears the name of its one document write, which also stands for *)
(* what it writes; what a user had from the start is named for the user.     *)
Ops == EmailOps \cup InfoOps \cup ImageOps

ASSUME ProfileAssumption ==
  /\ WriteIds = Ops
  /\ EmailOps \cap (InfoOps \cup ImageOps) = {} /\ InfoOps \cap ImageOps = {}
  /\ Users \cup Ops \subseteq Values /\ Users \cap Ops = {}
  /\ Fields = {"email", "name", "url"}

VARIABLES
  emails,   \* Auth server: the address of each account
  images,   \* Storage: the picture in profile_images/<uid>.jpg
  current,  \* FIRAuth's current user
  signingIn,  \* users whose login or registration is in flight
  shown,    \* the user whose CategoryView and profile are drawn, or NoUser
  op        \* the state of each update

session == <<current, signingIn, shown>>
vars == <<fsVars, emails, images, session, op>>
app == <<emails, images, session, op>>
others == <<docs, landed, queue, fsUser, waiting, responses, callbacks>>

Steps == {"idle", "upload", "stored", "url", "doc", "auth", "changed",
          "done", "failed", "silent", "killed"}
Ended == {"done", "failed", "silent", "killed"}
(* user: the document; target: the account of updateEmail; url: the picture. *)
Op == [user : MaybeUser, target : MaybeUser, url : Values \cup {Absent}, step : Steps]
Idle == [user |-> NoUser, target |-> NoUser, url |-> Absent, step |-> "idle"]

Init ==
  /\ FsInit(NoUser, [u \in Users |-> [f \in Fields |-> u]])
  /\ emails = [u \in Users |-> u]
  /\ images = [u \in Users |-> u]
  /\ current = NoUser /\ signingIn = {} /\ shown = NoUser
  /\ op = [o \in Ops |-> Idle]

Moves(o, from, to) ==
  /\ op[o].step \in from
  /\ op' = [op EXCEPT ![o].step = to]

Begins(o, to) ==
  /\ shown # NoUser
  /\ op[o].step = "idle"
  /\ op' = [op EXCEPT ![o] = [Idle EXCEPT !.user = shown, !.step = to]]

(* setData(data, merge: true) on users/<u>, with the given fields only.      *)
Merge(o, u, data) ==
  SetData([id |-> o, doc |-> u, merge |-> TRUE,
           data |-> [f \in Fields |-> IF f \in DOMAIN data THEN data[f] ELSE Absent]])

BecomeUser(u) ==
  /\ Len(credQ) < MaxCredentials
  /\ current' = u
  /\ PostCredential(u)

-----------------------------------------------------------------------------
(* Update Info: the document is that of the view model's user.               *)
TapEmail(o) ==
  /\ o \in EmailOps
  /\ Begins(o, "doc")
  /\ Merge(o, shown, [email |-> o])
  /\ UNCHANGED <<emails, images, session>>

TapInfo(o) ==
  /\ o \in InfoOps
  /\ Begins(o, "doc")
  /\ Merge(o, shown, [name |-> o])
  /\ UNCHANGED <<emails, images, session>>

(* jpegData may give nothing, and then nobody is told.                       *)
TapImage(o) ==
  /\ o \in ImageOps
  /\ \E to \in {"upload", "silent"} : Begins(o, to)
  /\ UNCHANGED <<fsVars, emails, images, session>>

(* The picture replaces the one at the same path.                            *)
StoreImage(o) ==
  /\ Moves(o, {"upload"}, "stored")
  /\ images' = [images EXCEPT ![op[o].user] = o]
  /\ UNCHANGED <<fsVars, emails, session>>

(* Mutant of AskUrl: the upload's error is not looked at.                    *)
AskUrlAnyway(o) ==
  /\ op[o].step \in {"upload", "stored"}
  /\ op' = [op EXCEPT ![o].step = "url", ![o].url = o]
  /\ UNCHANGED <<fsVars, emails, images, session>>

(* downloadURL names the picture that is there now.                          *)
AskUrl(o) ==
  /\ op[o].step = "stored"
  /\ op' = [op EXCEPT ![o].step = "url", ![o].url = images[op[o].user]]
  /\ UNCHANGED <<fsVars, emails, images, session>>

WriteWithUrl(o) ==
  /\ Moves(o, {"url"}, "doc")
  /\ Merge(o, op[o].user, [name |-> o, url |-> op[o].url])
  /\ UNCHANGED <<emails, images, session>>

(* Mutants of DocumentAnswered: currentUser! of nobody; the completion does  *)
(* not reach the form.                                                       *)
DocumentAnsweredForced ==
  /\ TakeCallback
  /\ LET c == Head(callbacks)
     IN  op' = [op EXCEPT ![c.id].step = IF c.id \in EmailOps THEN "auth" ELSE "done",
                          ![c.id].target = current]
  /\ UNCHANGED <<emails, images, session>>
DocumentIgnored ==
  /\ TakeCallback
  /\ UNCHANGED <<emails, images, session, op>>

(* The completion of setData: names and image are done, an address goes on   *)
(* with the user that Auth has now; without one nobody is told.              *)
DocumentAnswered ==
  /\ TakeCallback
  /\ LET c == Head(callbacks)
         next == IF ~c.ok THEN "failed"
                 ELSE IF c.id \notin EmailOps THEN "done"
                 ELSE IF current = NoUser THEN "silent" ELSE "auth"
     IN  /\ op[c.id].step = "doc"
         /\ op' = [op EXCEPT ![c.id].step = next,
                             ![c.id].target = IF next = "auth" THEN current ELSE NoUser]
  /\ UNCHANGED <<emails, images, session>>

(* Mutant of ChangeAddress: the address is changed next to the document.     *)
ChangeAddressAtOnce(o) ==
  /\ o \in EmailOps
  /\ op[o].step \in {"doc", "auth"}
  /\ op' = [op EXCEPT ![o].step = "changed", ![o].target = op[o].user]
  /\ emails' = [emails EXCEPT ![op[o].user] = o]
  /\ UNCHANGED <<fsVars, images, session>>

(* The Auth server changes the address of the account of `target'.           *)
ChangeAddress(o) ==
  /\ Moves(o, {"auth"}, "changed")
  /\ emails' = [emails EXCEPT ![op[o].target] = o]
  /\ UNCHANGED <<fsVars, images, session>>

(* FIRUser.updateEmail succeeded: sign out.  signOut without a user does     *)
(* nothing; one that throws is caught and printed, and nobody is told.       *)
AddressChanged(o) ==
  /\ \/ /\ Moves(o, {"changed"}, "done")
        /\ IF current # NoUser THEN BecomeUser(NoUser) ELSE UNCHANGED <<current, credQ>>
     \/ /\ Moves(o, {"changed"}, "silent")
        /\ current # NoUser /\ UNCHANGED <<current, credQ>>
  /\ UNCHANGED <<others, emails, images, signingIn, shown>>

(* updateEmail answers with an error (a login that is not recent, an address *)
(* that is taken, a lost response), and drops a user whose token is invalid. *)
AddressFails(o) ==
  /\ Moves(o, {"auth", "changed"}, "failed")
  /\ \/ UNCHANGED <<current, credQ>>
     \/ current = op[o].target /\ BecomeUser(NoUser)
  /\ UNCHANGED <<others, emails, images, signingIn, shown>>

(* The upload or the URL answers with an error, also after its effect.       *)
StepFails(o) ==
  /\ Moves(o, {"upload", "stored"}, "failed")
  /\ UNCHANGED <<fsVars, emails, images, session>>

-----------------------------------------------------------------------------
(* The rest of the app. *)

(* The notification reaches Firestore's listener, which captured the uid, and *)
(* SessionStore's, which asks Auth again; HomeView is redrawn before the next *)
(* touch.  That this settles is the subject of module AuthSession.            *)
Observe ==
  /\ CredentialChange
  /\ shown' = current
  /\ UNCHANGED <<emails, images, current, signingIn, op>>

SignOut ==
  /\ shown # NoUser /\ current # NoUser
  /\ BecomeUser(NoUser)
  /\ UNCHANGED <<others, emails, images, signingIn, shown, op>>

(* LoginView and RegistrationView, which Back leaves without cancelling: the *)
(* answers come whenever they come.                                          *)
TapLogIn(u) ==
  /\ shown = NoUser
  /\ signingIn' = signingIn \cup {u}
  /\ UNCHANGED <<fsVars, emails, images, current, shown, op>>

LogInSucceeds(u) ==
  /\ u \in signingIn
  /\ signingIn' = signingIn \ {u}
  /\ BecomeUser(u)
  /\ UNCHANGED <<others, emails, images, shown, op>>

LogInFails(u) ==
  /\ u \in signingIn
  /\ signingIn' = signingIn \ {u}
  /\ UNCHANGED <<fsVars, emails, images, current, shown, op>>

(* The process is killed and launched again; of the requests in flight those *)
(* in `arrived' still take effect (one at most for an account or a picture). *)
Relaunch(arrived) ==
  /\ \A o \in arrived : op[o].step \in {"auth", "upload"}
  /\ \A o, p \in arrived : op[o].step = op[p].step => o = p
  /\ FsRelaunch(current)
  /\ emails' = [u \in Users |->
       IF \E o \in arrived : op[o].step = "auth" /\ op[o].target = u
         THEN CHOOSE o \in arrived : op[o].step = "auth" ELSE emails[u]]
  /\ images' = [u \in Users |->
       IF \E o \in arrived : op[o].step = "upload" /\ op[o].user = u
         THEN CHOOSE o \in arrived : op[o].step = "upload" ELSE images[u]]
  /\ shown' = current
  /\ signingIn' = {}
  /\ op' = [o \in Ops |->
       IF op[o].step \in Ended \cup {"idle"} THEN op[o]
       ELSE [op[o] EXCEPT !.step = "killed"]]
  /\ UNCHANGED current

Responds(o) ==
  \/ StoreImage(o) \/ AskUrl(o) \/ WriteWithUrl(o)
  \/ ChangeAddress(o) \/ AddressChanged(o)
  \/ AddressFails(o) \/ StepFails(o)
Internal == FsInternal /\ UNCHANGED app

Next ==
  \/ \E o \in Ops : TapEmail(o) \/ TapInfo(o) \/ TapImage(o)
  \/ \E o \in Ops : Responds(o)
  \/ DocumentAnswered
  \/ Observe
  \/ SignOut
  \/ \E u \in Users : TapLogIn(u) \/ LogInSucceeds(u) \/ LogInFails(u)
  \/ \E arrived \in SUBSET Ops : Relaunch(arrived)
  \/ Internal

(* As in module Registration.                                                *)
Fairness ==
  /\ \A o \in Ops : SF_vars(Responds(o))
  /\ WF_vars(DocumentAnswered)
  /\ WF_vars(Observe)
  /\ WF_vars((ServerStores \/ ServerDenies) /\ UNCHANGED app)
  /\ SF_vars(HandleResponse /\ UNCHANGED app)

Spec == Init /\ [][Next]_vars
FairSpec == Spec /\ Fairness

-----------------------------------------------------------------------------
TypeOK ==
  /\ FsTypeOK
  /\ emails \in [Users -> Values]
  /\ images \in [Users -> Values]
  /\ current \in MaybeUser
  /\ signingIn \subseteq Users
  /\ shown \in MaybeUser
  /\ op \in [Ops -> Op]

(* The Auth address only follows the document, never the other way round:    *)
(* an account has a new address only when that address was stored in the     *)
(* document of the update before, whoever was signed in when and however     *)
(* often the process died (UserViewModel.updateEmail).                       *)
AuthFollowsDocument ==
  \A u \in Users, o \in EmailOps : emails[u] = o => o \in landed

(* A document never names a picture that was not uploaded for that user,     *)
(* although pictures are replaced in place, updates overlap and writes wait  *)
(* in LevelDB (updateUserInfoWithImage).                                     *)
UrlWasStored ==
  \A u \in Users : docs[u].url # u =>
    images[u] \in ImageOps /\ op[docs[u].url].user = u

(* Success is only reported for what the servers have taken: the document,   *)
(* and for an address also some account's new address.                       *)
SuccessIsLanded ==
  \A o \in Ops : op[o].step = "done" =>
    /\ o \in landed
    /\ o \in EmailOps => emails[op[o].target] # op[o].target

(* Every update ends, unless its document write is time and again found in   *)
(* the queue of somebody who is not Firestore's user.                        *)
Stranded(o) == \E u \in MaybeUser \ {fsUser} : o \in Ids(queue[u])
UpdateEnds ==
  \A o \in Ops :
    ((op[o].step \in {"upload", "doc"}) ~> (op[o].step \in Ended)) \/ []<>Stranded(o)

(* Every update ended with an answer, and no document write is on its way.   *)
Answered ==
  /\ \A o \in Ops : op[o].step \in {"idle", "done", "failed"}
  /\ \A u \in MaybeUser : queue[u] = <<>>

(* UserProfileView.swift:297 says that the email "is tied to your login":    *)
(* document and account would have the same address.                         *)
EmailsAgree == Answered => \A u \in Users : docs[u].email = emails[u]

(* UserProfileView.swift:297 promises "we will attempt to reset your email": *)
(* an account would only get an address from its own user's form.            *)
OnlyOwnEmail == \A u \in Users, o \in EmailOps : emails[u] = o => op[o].user = u
=============================================================================
