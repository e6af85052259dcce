------------------------------ MODULE ProfileForm ------------------------------
(***************************************************************************)
(* UserProfileView: its fields, its spinner, its alert and the calls its   *)
(* Update Info button makes.                                               *)
(*                                                                         *)
(* The form edits copies of the user document that onAppear takes once;    *)
(* the document itself comes from the UserViewModel CategoryView passes    *)
(* in.  CategoryView makes a new UserViewModel whenever HomeView's body    *)
(* runs (CategoryView.swift:15), and an open form stays open with what it  *)
(* holds.  LoadingView disables the content while the spinner runs, the    *)
(* bar buttons Back and Sign Out excepted.                                 *)
(*                                                                         *)
(* A call carries only what its kind of update saves.  The form also shows *)
(* the e-mail address among the names and lets it be edited there; an      *)
(* address typed there stays on the form and is saved nowhere, although    *)
(* the update is reported as successful.                                   *)
(***************************************************************************)
EXTENDS FiniteSets

CONSTANTS
  Users,
  Nil,    \* no user, no document
  Calls   \* bound: calls of one form that are in flight

ASSUME FormAssumption == Nil \notin Users

VARIABLES
  vm,       \* UserViewModel passed: the uid it listens to, and its `user'
  form,     \* the @State of UserProfileView
  calls,    \* updates the open form waits for
  leaving   \* Auth's user changed and HomeView was not drawn since

vars == <<vm, form, calls, leaving>>

Maybe == Users \cup {Nil}
Fields == {"email", "fullname", "username"}
Texts == Users \cup {"empty", "typed"}  \* a text: as in the user's document
Messages == {"none", "note", "error"} \cup Users  \* success: for that document

(* shown: LoginView (no view model) or CategoryView.                         *)
ViewModel == [shown : BOOLEAN, uid : Maybe, user : Maybe]
LoginShown == [shown |-> FALSE, uid |-> Nil, user |-> Nil]
NewViewModel(u) == [shown |-> TRUE, uid |-> u, user |-> Nil]

(* profile: whose document filled the names; fresh: `vm' is still the view   *)
(* model that was there then.                                                *)
Form == [open : BOOLEAN, updateEmail : BOOLEAN, fields : [Fields -> Texts],
         image : BOOLEAN, spinner : BOOLEAN, showAlert : BOOLEAN,
         message : Messages, profile : Maybe, fresh : BOOLEAN]
Closed ==
  [open |-> FALSE, updateEmail |-> FALSE, fields |-> [f \in Fields |-> "empty"],
   image |-> FALSE, spinner |-> FALSE, showAlert |-> FALSE, message |-> "none",
   profile |-> Nil, fresh |-> TRUE]

(* UserEmailUpdate, and UserInfoNoImage or UserInfoWithImage.                *)
Carried(updateEmail) == IF updateEmail THEN {"email"} ELSE {"fullname", "username"}

(* leaves: it succeeded and signed out; lost: nobody will ever hear of it.   *)
Call == [step : {"none", "sent", "leaves", "lost"}, doc : Maybe,
         saves : [Fields -> Texts \cup {"unsaved"}], updateEmail : BOOLEAN]
NoCall == [step |-> "none", doc |-> Nil, saves |-> [f \in Fields |-> "unsaved"],
           updateEmail |-> FALSE]
NoCalls == [c \in Calls |-> NoCall]
Waiting(c) == calls[c].step # "none"

Init ==
  /\ vm = LoginShown
  /\ form = Closed
  /\ calls = NoCalls
  /\ leaving = FALSE

-----------------------------------------------------------------------------
(* The view model. *)

(* Mutant of Hear: a snapshot without a document clears `user'.              *)
HearAnything ==
  /\ vm.shown /\ vm.uid # Nil
  /\ vm' \in {[vm EXCEPT !.user = u] : u \in {vm.uid, Nil}}
  /\ UNCHANGED <<form, calls, leaving>>

(* A snapshot with data; others and errors leave `user' as it was.           *)
Hear ==
  /\ vm.shown /\ vm.uid # Nil
  /\ vm' = [vm EXCEPT !.user = vm.uid]
  /\ UNCHANGED <<form, calls, leaving>>

(* Auth's user is another one, by a call some other screen made.             *)
UserChanges ==
  /\ leaving' = TRUE
  /\ UNCHANGED <<vm, form, calls>>

(* HomeView.body runs with no session: the form is gone, and completions     *)
(* find nobody.                                                              *)
DrawLogin ==
  /\ vm' = LoginShown
  /\ form' = Closed
  /\ calls' = NoCalls
  /\ leaving' = FALSE

(* ... with a session: a new view model, of Auth's user of the moment.  The  *)
(* form stays.                                                               *)
DrawCategory ==
  /\ \E u \in Maybe : vm' = NewViewModel(u)
  /\ form' = [form EXCEPT !.fresh = ~form.open]
  /\ leaving' = FALSE
  /\ UNCHANGED calls

-----------------------------------------------------------------------------
(* The form. *)

(* onAppear of the text fields.                                              *)
Copy == IF vm.user = Nil THEN "empty" ELSE vm.user

Open ==
  /\ vm.shown /\ ~form.open
  /\ form' = [Closed EXCEPT !.open = TRUE, !.profile = vm.user,
                            !.fields = [f \in Fields |-> Copy]]
  /\ UNCHANGED <<vm, calls, leaving>>

Back ==
  /\ form.open /\ ~form.showAlert
  /\ form' = Closed
  /\ calls' = NoCalls
  /\ UNCHANGED <<vm, leaving>>

(* SignOut of the bar; UserChanges for the open form.                        *)
SignOut ==
  /\ form.open /\ ~form.showAlert
  /\ leaving' = TRUE
  /\ UNCHANGED <<vm, form, calls>>

Touchable == form.open /\ ~form.showAlert /\ ~form.spinner

(* Mutant of Type: the content is not disabled.                              *)
TypeAnytime ==
  /\ form.open /\ ~form.showAlert
  /\ \E f \in Fields, t \in {"typed", "empty"} :
       /\ form.updateEmail => f = "email"
       /\ form' = [form EXCEPT !.fields[f] = t]
  /\ UNCHANGED <<vm, calls, leaving>>

Type ==
  /\ Touchable
  /\ \E f \in Fields, t \in {"typed", "empty"} :
       /\ form.updateEmail => f = "email"
       /\ form' = [form EXCEPT !.fields[f] = t]
  /\ UNCHANGED <<vm, calls, leaving>>

(* The picker gives an edited image, or is cancelled and gives nothing.      *)
PickImage ==
  /\ Touchable /\ ~form.updateEmail /\ ~form.image
  /\ form' = [form EXCEPT !.image = TRUE]
  /\ UNCHANGED <<vm, calls, leaving>>

(* A touch of ChangeEmail moves the switch, shows the note (the tap gesture, *)
(* which sees `updateEmail' before or after), or does both.  The text fields *)
(* that appear are filled anew.                                              *)
SwitchEmail ==
  /\ Touchable
  /\ \E on, note \in BOOLEAN :
       /\ form' = [form EXCEPT
            !.updateEmail = on,
            !.showAlert = note,
            !.message = IF note THEN "note" ELSE @,
            !.fields = IF on = form.updateEmail THEN @
                       ELSE [f \in Fields |-> IF ~on \/ f = "email" THEN Copy ELSE @[f]],
            !.profile = IF form.updateEmail /\ ~on THEN vm.user ELSE @,
            !.fresh = @ \/ (form.updateEmail /\ ~on)]
  /\ UNCHANGED <<vm, calls, leaving>>

CloseAlert ==
  /\ form.showAlert
  /\ form' = [form EXCEPT !.showAlert = FALSE]
  /\ UNCHANGED <<vm, calls, leaving>>

-----------------------------------------------------------------------------
(* Update Info. *)

Blank == \E f \in Fields : form.fields[f] = "empty"
Alerts(f, message) == [f EXCEPT !.showAlert = ~@, !.message = message]
Toggles(f) == [f EXCEPT !.spinner = ~@]
Saves == [f \in Fields |-> IF f \in Carried(form.updateEmail) THEN form.fields[f] ELSE "unsaved"]

(* Mutant of TapBlank: the early return forgets the spinner.                 *)
TapBlankSpinning ==
  /\ Touchable /\ Blank
  /\ form' = Alerts(Toggles(form), "error")
  /\ UNCHANGED <<vm, calls, leaving>>

(* "All fields are required!": the spinner is toggled twice.                 *)
TapBlank ==
  /\ Touchable /\ Blank
  /\ form' = Alerts(Toggles(Toggles(form)), "error")
  /\ UNCHANGED <<vm, calls, leaving>>

(* passedUser.user! of nil: the process dies and is launched again.          *)
TapWithoutUser ==
  /\ Touchable /\ ~Blank /\ vm.user = Nil
  /\ vm' = LoginShown
  /\ form' = Closed
  /\ calls' = NoCalls
  /\ leaving' = FALSE

(* The call names the view model's document.  A picture that jpegData cannot *)
(* encode, or whose URL is nil, ends it without a word.                      *)
TapUpdate(c) ==
  /\ Touchable /\ ~Blank /\ vm.user # Nil
  /\ ~Waiting(c)
  /\ form' = Toggles(form)
  /\ \E step \in {"sent"} \cup IF form.image /\ ~form.updateEmail THEN {"lost"} ELSE {} :
       calls' = [calls EXCEPT ![c] =
         [step |-> step, doc |-> vm.user, saves |-> Saves, updateEmail |-> form.updateEmail]]
  /\ UNCHANGED <<vm, leaving>>

Ends(c) ==
  /\ calls[c].step = "sent"
  /\ calls' = [calls EXCEPT ![c] = NoCall]

(* Mutant of Fails: the error is shown, the spinner is not touched.          *)
FailsSpinning(c) ==
  /\ Ends(c)
  /\ form' = Alerts(form, "error")
  /\ UNCHANGED <<vm, leaving>>

Fails(c) ==
  /\ Ends(c)
  /\ form' = Alerts(Toggles(form), "error")
  /\ UNCHANGED <<vm, leaving>>

(* "Profile updated successfully!"                                           *)
Succeeds(c) ==
  /\ Ends(c) /\ ~calls[c].updateEmail
  /\ form' = Alerts(Toggles(form), calls[c].doc)
  /\ UNCHANGED <<vm, leaving>>

(* updateEmail does not call back when it succeeds: it signs out, and finds  *)
(* nothing to do when nobody is signed in by then.                           *)
SignsOut(c) ==
  /\ calls' = [calls EXCEPT ![c].step = "leaves"]
  /\ leaving' = TRUE

(* A signOut that throws is caught and printed: the user stays.              *)
SignOutCaught(c) ==
  /\ calls' = [calls EXCEPT ![c].step = "lost"]
  /\ UNCHANGED leaving

EmailSucceeds(c) ==
  /\ calls[c].step = "sent" /\ calls[c].updateEmail
  /\ SignsOut(c) \/ SignOutCaught(c)
  /\ UNCHANGED <<vm, form>>

Answers(c) == Fails(c) \/ Succeeds(c) \/ EmailSucceeds(c)
Draw == DrawLogin \/ DrawCategory

Next ==
  \/ Hear \/ UserChanges \/ Draw
  \/ Open \/ Back \/ SignOut \/ Type \/ PickImage \/ SwitchEmail \/ CloseAlert
  \/ TapBlank \/ TapWithoutUser
  \/ \E c \in Calls : TapUpdate(c) \/ Answers(c)

(* Calls are answered while the same user stays (module ProfileUpdates says  *)
(* when they are not); Auth's notification reaches HomeView.                 *)
Fairness ==
  /\ \A c \in Calls : WF_vars(form.fresh /\ Answers(c))
  /\ WF_vars(leaving /\ Draw)

Spec == Init /\ [][Next]_vars
FairSpec == Spec /\ Fairness

-----------------------------------------------------------------------------
TypeOK ==
  /\ vm \in ViewModel
  /\ form \in Form
  /\ calls \in [Calls -> Call]
  /\ \A c \in Calls : Waiting(c) => calls[c].doc \in Users
  /\ leaving \in BOOLEAN

(* The toggles stay in step: the spinner runs exactly while the open form    *)
(* waits, for one call, and no alert is up that the completion's toggle      *)
(* would take away (UserProfileView.swift:136-190).                          *)
SpinnerIsCall ==
  /\ form.spinner <=> \E c \in Calls : Waiting(c)
  /\ \A c, d \in Calls : Waiting(c) /\ Waiting(d) => c = d
  /\ form.spinner => ~form.showAlert

(* A running call saves what the form shows of the fields its kind of update *)
(* carries, and nothing of the others: an address for an address update, the *)
(* two names otherwise (UserViewModel.swift:12-59).  Only the disabled       *)
(* content keeps fields and switch (UserProfileView.swift:134).  It saves it *)
(* in the document that filled the form, unless that was replaced.           *)
CallSavesShown ==
  \A c \in Calls : Waiting(c) =>
    /\ calls[c].updateEmail = form.updateEmail
    /\ calls[c].saves = Saves
    /\ form.fresh /\ form.profile # Nil => calls[c].doc = form.profile

(* A form that a document filled finds that document's user at user!, as     *)
(* long as its view model was not replaced: neither a crash nor the document *)
(* of somebody else (UserProfileView.swift:148, UserViewModel.swift:96).     *)
FilledFormHasUser ==
  form.open /\ form.profile # Nil /\ form.fresh => vm.user = form.profile

(* The spinner stops, or the form is left or given another view model.  The  *)
(* exceptions are the calls nobody hears of: a picture without data or URL   *)
(* (UserViewModel.swift:136, :153), and the sign-out after a changed address *)
(* that throws (:122-126); then it runs until Back.                          *)
SpinnerEnds ==
  form.spinner ~> ~form.spinner \/ ~form.fresh \/ \E c \in Calls : calls[c].step = "lost"
=============================================================================
