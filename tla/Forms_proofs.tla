------------------------------ MODULE Forms_proofs ------------------------------
(***************************************************************************)
(* Proofs about the two forms and the screens they lie on, for any users,  *)
(* addresses and number of calls in flight.                                *)
(***************************************************************************)
EXTENDS Forms, TLAPS

-----------------------------------------------------------------------------
(* What else is true of the profile form: a view model only ever shows the   *)
(* document it listens to; and a form that is not open, or lies on a screen  *)
(* that is gone, has no spinner that a completion could still toggle.        *)
UserIsHeard == vm.user # Nil => vm.user = vm.uid

FormIsShown ==
  /\ form.open => vm.shown
  /\ ~form.open => ~form.spinner

ProfileInv ==
  /\ TypeOK
  /\ UserIsHeard
  /\ FormIsShown
  /\ SpinnerIsCall
  /\ CallSavesShown
  /\ FilledFormHasUser

LEMMA ProfileInit == Init => ProfileInv
<1> SUFFICES ASSUME Init PROVE ProfileInv
  OBVIOUS
<1> USE DEF Init, LoginShown, Closed, NoCalls, NoCall, Waiting
<1>1. TypeOK
  BY DEF TypeOK, ViewModel, Maybe, Form, Texts, Messages, Call
<1>2. UserIsHeard /\ FormIsShown
  BY DEF UserIsHeard, FormIsShown
<1>3. SpinnerIsCall /\ CallSavesShown /\ FilledFormHasUser
  BY DEF SpinnerIsCall, CallSavesShown, FilledFormHasUser
<1> QED BY <1>1, <1>2, <1>3 DEF ProfileInv

(* The login screen, without a form and without calls: DrawLogin and a       *)
(* process that died.                                                        *)
LEMMA NothingOpen ==
  ASSUME vm' = LoginShown, form' = Closed, calls' = NoCalls, leaving' \in BOOLEAN
  PROVE  ProfileInv'
<1> USE DEF LoginShown, Closed, NoCalls, NoCall, Waiting
<1>1. TypeOK'
  BY DEF TypeOK, ViewModel, Maybe, Form, Texts, Messages, Call
<1>2. UserIsHeard' /\ FormIsShown'
  BY DEF UserIsHeard, FormIsShown
<1>3. SpinnerIsCall' /\ CallSavesShown' /\ FilledFormHasUser'
  BY DEF SpinnerIsCall, CallSavesShown, FilledFormHasUser
<1> QED BY <1>1, <1>2, <1>3 DEF ProfileInv

LEMMA ViewModelStep ==
  ASSUME ProfileInv, Hear \/ UserChanges \/ DrawCategory \/ SignOut
  PROVE  ProfileInv'
<1> USE FormAssumption DEF ProfileInv
<1>1. CASE Hear
  <2> USE <1>1 DEF Hear
  <2>1. /\ vm.uid \in Users
        /\ vm' = [shown |-> vm.shown, uid |-> vm.uid, user |-> vm.uid]
    BY DEF TypeOK, ViewModel, Maybe
  <2>2. TypeOK'
    BY <2>1 DEF TypeOK, ViewModel, Maybe, Waiting
  <2>3. UserIsHeard' /\ FormIsShown'
    BY <2>1 DEF UserIsHeard, FormIsShown
  <2>4. SpinnerIsCall' /\ CallSavesShown'
    BY DEF SpinnerIsCall, CallSavesShown, Saves, Waiting
  <2>5. FilledFormHasUser'
    <3> SUFFICES ASSUME form.open, form.profile # Nil, form.fresh
                 PROVE  vm'.user = form.profile
      BY DEF FilledFormHasUser
    <3>1. vm.user = form.profile
      BY DEF FilledFormHasUser
    <3>2. vm.user = vm.uid
      BY <3>1 DEF UserIsHeard
    <3> QED BY <2>1, <3>1, <3>2
  <2> QED BY <2>2, <2>3, <2>4, <2>5
<1>2. CASE UserChanges \/ SignOut
  <2>1. leaving' = TRUE /\ UNCHANGED <<vm, form, calls>>
    BY <1>2 DEF UserChanges, SignOut
  <2>2. TypeOK'
    BY <2>1 DEF TypeOK, Waiting
  <2>3. UserIsHeard' /\ FormIsShown'
    BY <2>1 DEF UserIsHeard, FormIsShown
  <2>4. SpinnerIsCall' /\ CallSavesShown' /\ FilledFormHasUser'
    BY <2>1 DEF SpinnerIsCall, CallSavesShown, Saves, FilledFormHasUser, Waiting
  <2> QED BY <2>2, <2>3, <2>4
<1>3. CASE DrawCategory
  <2>1. PICK u \in Maybe : vm' = NewViewModel(u)
    BY <1>3 DEF DrawCategory
  <2>2. /\ form \in Form
        /\ form' = [form EXCEPT !.fresh = ~form.open]
        /\ UNCHANGED calls
        /\ leaving' = FALSE
    BY <1>3 DEF DrawCategory, TypeOK
  <2>3. /\ form' \in Form
        /\ form'.open = form.open /\ form'.spinner = form.spinner
        /\ form'.showAlert = form.showAlert /\ form'.fields = form.fields
        /\ form'.updateEmail = form.updateEmail
        /\ form'.fresh = ~form.open
    BY <2>2 DEF Form
  <2>4. TypeOK'
    BY <2>1, <2>2, <2>3 DEF TypeOK, ViewModel, NewViewModel, Maybe, Waiting
  <2>5. UserIsHeard' /\ FormIsShown'
    BY <2>1, <2>3 DEF UserIsHeard, FormIsShown, NewViewModel
  <2>6. SpinnerIsCall' /\ FilledFormHasUser'
    BY <2>2, <2>3 DEF SpinnerIsCall, FilledFormHasUser, Waiting
  <2>7. Saves' = Saves
    BY <2>3 DEF Saves
  <2>8. (\E c \in Calls : Waiting(c)) => ~form'.fresh
    BY <2>2, <2>3 DEF SpinnerIsCall, FormIsShown
  <2>9. CallSavesShown'
    BY <2>2, <2>3, <2>7, <2>8 DEF CallSavesShown, Waiting
  <2> QED BY <2>4, <2>5, <2>6, <2>9
<1> QED BY <1>1, <1>2, <1>3

(* An open form without a spinner waits for nothing, so it may be filled,    *)
(* edited or covered: steps that leave the view model, the calls and the     *)
(* spinner alone keep the invariant, if the names stay this document's.      *)
LEMMA EditStep ==
  ASSUME ProfileInv, UNCHANGED <<vm, calls, leaving>>, vm.shown,
         form' \in Form, form'.open, ~form'.spinner,
         \A c \in Calls : ~Waiting(c),
         form'.profile # Nil /\ form'.fresh => vm.user = form'.profile
  PROVE  ProfileInv'
<1> USE DEF ProfileInv
<1>1. TypeOK'
  BY DEF TypeOK, Waiting
<1>2. UserIsHeard' /\ FormIsShown'
  BY DEF UserIsHeard, FormIsShown
<1>3. SpinnerIsCall' /\ CallSavesShown'
  BY DEF SpinnerIsCall, CallSavesShown, Waiting
<1>4. FilledFormHasUser'
  BY DEF FilledFormHasUser
<1> QED BY <1>1, <1>2, <1>3, <1>4

(* What a text field shows of the document is a text.                        *)
LEMMA CopyIsText == TypeOK => Copy \in Texts
BY DEF TypeOK, Copy, Texts, ViewModel, Maybe

LEMMA OpenStep ==
  ASSUME ProfileInv, Open
  PROVE  ProfileInv'
<1>1. /\ vm.shown /\ ~form.open
      /\ form' = [Closed EXCEPT !.open = TRUE, !.profile = vm.user,
                                !.fields = [f \in Fields |-> Copy]]
      /\ UNCHANGED <<vm, calls, leaving>>
  BY DEF Open
<1>2. Copy \in Texts
  BY CopyIsText DEF ProfileInv
<1>3. /\ form' \in Form /\ form'.open /\ ~form'.spinner
      /\ form'.profile = vm.user
  BY <1>1, <1>2 DEF Form, Closed, Texts, Messages, ProfileInv, TypeOK, ViewModel
<1>4. \A c \in Calls : ~Waiting(c)
  BY <1>1 DEF ProfileInv, FormIsShown, SpinnerIsCall
<1> QED BY <1>1, <1>3, <1>4, EditStep

LEMMA BackStep ==
  ASSUME ProfileInv, Back
  PROVE  ProfileInv'
<1> USE DEF ProfileInv, Back, Closed, NoCalls, NoCall, Waiting
<1>1. TypeOK'
  BY DEF TypeOK, Form, Texts, Messages, Call, Maybe
<1>2. UserIsHeard' /\ FormIsShown'
  BY DEF UserIsHeard, FormIsShown
<1>3. SpinnerIsCall' /\ CallSavesShown' /\ FilledFormHasUser'
  BY DEF SpinnerIsCall, CallSavesShown, FilledFormHasUser
<1> QED BY <1>1, <1>2, <1>3

(* Content that can be touched belongs to an open form that waits for        *)
(* nothing, on a screen that is shown.                                       *)
LEMMA TouchableIsIdle ==
  ASSUME ProfileInv, Touchable
  PROVE  /\ form \in Form /\ form.open /\ ~form.spinner /\ ~form.showAlert
         /\ vm.shown
         /\ \A c \in Calls : ~Waiting(c)
BY DEF ProfileInv, Touchable, TypeOK, FormIsShown, SpinnerIsCall

LEMMA TouchStep ==
  ASSUME ProfileInv, Type \/ PickImage \/ SwitchEmail
  PROVE  ProfileInv'
<1>1. Touchable /\ UNCHANGED <<vm, calls, leaving>>
  BY DEF Type, PickImage, SwitchEmail
<1>2. /\ form \in Form /\ form.open /\ ~form.spinner
      /\ vm.shown
      /\ \A c \in Calls : ~Waiting(c)
  BY <1>1, TouchableIsIdle
<1>3. form.profile # Nil /\ form.fresh => vm.user = form.profile
  BY <1>2 DEF ProfileInv, FilledFormHasUser
<1>4. CASE Type
  <2>1. PICK f \in Fields, t \in {"typed", "empty"} : form' = [form EXCEPT !.fields[f] = t]
    BY <1>4 DEF Type
  <2>2. form' = [form EXCEPT !.fields = [form.fields EXCEPT ![f] = t]]
    BY <2>1
  <2>3. [form.fields EXCEPT ![f] = t] \in [Fields -> Texts]
    BY <1>2 DEF Form, Texts
  <2>4. /\ form' \in Form /\ form'.open /\ ~form'.spinner
        /\ form'.profile = form.profile /\ form'.fresh = form.fresh
    BY <1>2, <2>2, <2>3 DEF Form
  <2> QED BY <1>1, <1>2, <1>3, <2>4, EditStep
<1>5. CASE PickImage
  <2>1. /\ form' \in Form /\ form'.open /\ ~form'.spinner
        /\ form'.profile = form.profile /\ form'.fresh = form.fresh
    BY <1>2, <1>5 DEF PickImage, Form
  <2> QED BY <1>1, <1>2, <1>3, <2>1, EditStep
<1>6. CASE SwitchEmail
  <2>1. PICK on \in BOOLEAN, note \in BOOLEAN :
          form' = [form EXCEPT
            !.updateEmail = on,
            !.showAlert = note,
            !.message = IF note THEN "note" ELSE @,
            !.fields = IF on = form.updateEmail THEN @
                       ELSE [f \in Fields |-> IF ~on \/ f = "email" THEN Copy ELSE @[f]],
            !.profile = IF form.updateEmail /\ ~on THEN vm.user ELSE @,
            !.fresh = @ \/ (form.updateEmail /\ ~on)]
    BY <1>6 DEF SwitchEmail
  <2> DEFINE message == IF note THEN "note" ELSE form.message
             fields == IF on = form.updateEmail THEN form.fields
                       ELSE [f \in Fields |->
                               IF ~on \/ f = "email" THEN Copy ELSE form.fields[f]]
             again == form.updateEmail /\ ~on
             profile == IF again THEN vm.user ELSE form.profile
             fresh == form.fresh \/ again
  <2>2. Copy \in Texts /\ vm.user \in Maybe
    BY CopyIsText DEF ProfileInv, TypeOK, ViewModel
  <2>3. /\ message \in Messages /\ fields \in [Fields -> Texts]
        /\ profile \in Maybe /\ fresh \in BOOLEAN
    BY <1>2, <2>2 DEF Form, Messages
  <2>4. profile # Nil /\ fresh => vm.user = profile
    BY <1>3
  <2>5. form' = [form EXCEPT !.updateEmail = on, !.showAlert = note, !.message = message,
                             !.fields = fields, !.profile = profile, !.fresh = fresh]
    BY <2>1
  <2> HIDE DEF message, fields, profile, fresh
  <2>6. /\ form' \in Form /\ form'.open /\ ~form'.spinner
        /\ form'.profile = profile /\ form'.fresh = fresh
    BY <1>2, <2>3, <2>5 DEF Form
  <2> QED BY <1>1, <1>2, <2>4, <2>6, EditStep
<1> QED BY <1>4, <1>5, <1>6

(* An alert is closed over a form without a spinner, or not at all.          *)
LEMMA CloseAlertStep ==
  ASSUME ProfileInv, CloseAlert
  PROVE  ProfileInv'
<1>1. /\ form' = [form EXCEPT !.showAlert = FALSE]
      /\ UNCHANGED <<vm, calls, leaving>>
  BY DEF CloseAlert
<1>2. form \in Form
  BY DEF ProfileInv, TypeOK
<1>3. /\ form' \in Form /\ ~form'.showAlert
      /\ form'.open = form.open /\ form'.spinner = form.spinner
      /\ form'.fields = form.fields /\ form'.updateEmail = form.updateEmail
      /\ form'.profile = form.profile /\ form'.fresh = form.fresh
  BY <1>1, <1>2 DEF Form
<1> USE DEF ProfileInv
<1>4. TypeOK'
  BY <1>1, <1>3 DEF TypeOK, Waiting
<1>5. UserIsHeard' /\ FormIsShown'
  BY <1>1, <1>3 DEF UserIsHeard, FormIsShown
<1>6. SpinnerIsCall' /\ CallSavesShown' /\ FilledFormHasUser'
  BY <1>1, <1>3 DEF SpinnerIsCall, CallSavesShown, Saves, FilledFormHasUser, Waiting
<1> QED BY <1>4, <1>5, <1>6

-----------------------------------------------------------------------------
(* The calls of Update Info.                                                 *)

(* What toggling the spinner and putting up an alert do to a form.           *)
LEMMA TogglesForm ==
  ASSUME NEW f \in Form
  PROVE  /\ Toggles(f) \in Form
         /\ Toggles(f).spinner = ~f.spinner
         /\ Toggles(f).showAlert = f.showAlert
         /\ Toggles(f).open = f.open
         /\ Toggles(f).fields = f.fields
         /\ Toggles(f).updateEmail = f.updateEmail
         /\ Toggles(f).profile = f.profile
         /\ Toggles(f).fresh = f.fresh
BY DEF Toggles, Form

LEMMA AlertsForm ==
  ASSUME NEW f \in Form, NEW message \in Messages
  PROVE  /\ Alerts(f, message) \in Form
         /\ Alerts(f, message).spinner = f.spinner
         /\ Alerts(f, message).open = f.open
         /\ Alerts(f, message).profile = f.profile
         /\ Alerts(f, message).fresh = f.fresh
BY DEF Alerts, Form

LEMMA TapBlankStep ==
  ASSUME ProfileInv, TapBlank
  PROVE  ProfileInv'
<1>1. /\ Touchable /\ UNCHANGED <<vm, calls, leaving>>
      /\ form' = Alerts(Toggles(Toggles(form)), "error")
  BY DEF TapBlank
<1>2. /\ form \in Form /\ form.open /\ ~form.spinner
      /\ vm.shown
      /\ \A c \in Calls : ~Waiting(c)
  BY <1>1, TouchableIsIdle
<1>3. Toggles(Toggles(form)) \in Form /\ Toggles(form) \in Form
  BY <1>2, TogglesForm
<1>4. /\ form' \in Form /\ form'.open /\ ~form'.spinner
      /\ form'.profile = form.profile /\ form'.fresh = form.fresh
  <2> DEFINE f == Toggles(form)
             g == Toggles(f)
  <2>1. f \in Form /\ g \in Form /\ "error" \in Messages
    BY <1>3 DEF Messages
  <2>2. /\ f.open /\ f.spinner
        /\ f.profile = form.profile /\ f.fresh = form.fresh
    BY <1>2, TogglesForm
  <2>3. /\ g.open /\ ~g.spinner
        /\ g.profile = form.profile /\ g.fresh = form.fresh
    <3> HIDE DEF f
    <3> QED BY <2>1, <2>2, TogglesForm
  <2>4. form' = Alerts(g, "error")
    BY <1>1
  <2> HIDE DEF g
  <2> QED BY <2>1, <2>3, <2>4, AlertsForm
<1>5. form.profile # Nil /\ form.fresh => vm.user = form.profile
  BY <1>2 DEF ProfileInv, FilledFormHasUser
<1> QED BY <1>1, <1>2, <1>4, <1>5, EditStep

LEMMA TapUpdateStep ==
  ASSUME ProfileInv, NEW c \in Calls, TapUpdate(c)
  PROVE  ProfileInv'
<1>1. /\ Touchable /\ vm.user # Nil
      /\ form' = Toggles(form)
      /\ UNCHANGED <<vm, leaving>>
  BY DEF TapUpdate
<1>2. PICK step \in {"sent", "lost"} :
        calls' = [calls EXCEPT ![c] =
          [step |-> step, doc |-> vm.user, saves |-> Saves,
           updateEmail |-> form.updateEmail]]
  BY DEF TapUpdate
<1>3. /\ form \in Form /\ form.open /\ ~form.spinner /\ ~form.showAlert
      /\ \A d \in Calls : ~Waiting(d)
  BY <1>1, TouchableIsIdle
<1>4. /\ form' \in Form /\ form'.open /\ form'.spinner /\ ~form'.showAlert
      /\ form'.fields = form.fields /\ form'.updateEmail = form.updateEmail
      /\ form'.profile = form.profile /\ form'.fresh = form.fresh
  BY <1>1, <1>3, TogglesForm DEF Form
<1>5. vm.user \in Users
  BY <1>1 DEF ProfileInv, TypeOK, ViewModel, Maybe
<1>6. [step |-> step, doc |-> vm.user, saves |-> Saves,
       updateEmail |-> form.updateEmail] \in Call
  <2>1. Saves \in [Fields -> Texts \cup {"unsaved"}] /\ form.updateEmail \in BOOLEAN
    BY <1>3 DEF Saves, Form
  <2> QED BY <1>5, <2>1 DEF Call, Maybe
<1>7. calls' \in [Calls -> Call]
  BY <1>2, <1>6 DEF ProfileInv, TypeOK
<1>8. /\ calls'[c].step # "none" /\ calls'[c].doc = vm.user
      /\ calls'[c].saves = Saves /\ calls'[c].updateEmail = form.updateEmail
      /\ \A d \in Calls : d # c => calls'[d].step = "none"
  BY <1>2, <1>3 DEF ProfileInv, TypeOK, Waiting
<1>9. TypeOK'
  BY <1>1, <1>4, <1>5, <1>7, <1>8 DEF ProfileInv, TypeOK, Waiting
<1>10. UserIsHeard' /\ FormIsShown'
  BY <1>1, <1>3, <1>4 DEF ProfileInv, UserIsHeard, FormIsShown
<1>11. Saves' = Saves
  BY <1>4 DEF Saves
<1>12. form.fresh /\ form.profile # Nil => vm.user = form.profile
  BY <1>3 DEF ProfileInv, FilledFormHasUser
<1>13. SpinnerIsCall'
  BY <1>4, <1>8 DEF SpinnerIsCall, Waiting
<1>14. CallSavesShown'
  BY <1>4, <1>8, <1>11, <1>12 DEF CallSavesShown, Waiting
<1>15. FilledFormHasUser'
  BY <1>1, <1>3, <1>4 DEF ProfileInv, FilledFormHasUser
<1> QED BY <1>9, <1>10, <1>13, <1>14, <1>15 DEF ProfileInv

(* A call that is waited for is the only one, of an open form whose spinner  *)
(* runs and that shows no alert.                                             *)
LEMMA WaitingIsShown ==
  ASSUME ProfileInv, NEW c \in Calls, Waiting(c)
  PROVE  /\ form \in Form /\ form.open /\ form.spinner /\ ~form.showAlert
         /\ vm.shown /\ calls[c].doc \in Users
         /\ \A d \in Calls : Waiting(d) => d = c
BY DEF ProfileInv, TypeOK, FormIsShown, SpinnerIsCall

LEMMA EndStep ==
  ASSUME ProfileInv, NEW c \in Calls, Fails(c) \/ Succeeds(c)
  PROVE  ProfileInv'
<1>1. /\ Waiting(c)
      /\ calls' = [calls EXCEPT ![c] = NoCall]
      /\ UNCHANGED <<vm, leaving>>
  BY DEF Fails, Succeeds, Ends, Waiting
<1>2. /\ form \in Form /\ form.open /\ form.spinner /\ ~form.showAlert
      /\ vm.shown /\ calls[c].doc \in Users
      /\ \A d \in Calls : Waiting(d) => d = c
  BY <1>1, WaitingIsShown
<1>3. PICK message \in Messages : form' = Alerts(Toggles(form), message)
  BY <1>2 DEF Fails, Succeeds, Messages
<1>4. /\ form' \in Form /\ form'.open /\ ~form'.spinner
      /\ form'.profile = form.profile /\ form'.fresh = form.fresh
  <2> DEFINE f == Toggles(form)
  <2>1. /\ f \in Form /\ f.open /\ ~f.spinner
        /\ f.profile = form.profile /\ f.fresh = form.fresh
    BY <1>2, TogglesForm
  <2> HIDE DEF f
  <2>2. form' = Alerts(f, message)
    BY <1>3 DEF f
  <2> QED BY <2>1, <2>2, AlertsForm
<1>5. NoCall \in Call /\ NoCall.step = "none"
  BY DEF NoCall, Call, Closed, Texts, Maybe
<1>6. calls' \in [Calls -> Call] /\ \A d \in Calls : calls'[d].step = "none"
  BY <1>1, <1>2, <1>5 DEF ProfileInv, TypeOK, Waiting
<1> USE DEF ProfileInv
<1>7. TypeOK'
  BY <1>1, <1>4, <1>6 DEF TypeOK, Waiting
<1>8. UserIsHeard' /\ FormIsShown'
  BY <1>1, <1>2, <1>4 DEF UserIsHeard, FormIsShown
<1>9. SpinnerIsCall' /\ CallSavesShown'
  BY <1>4, <1>6 DEF SpinnerIsCall, CallSavesShown, Waiting
<1>10. FilledFormHasUser'
  BY <1>1, <1>2, <1>4 DEF FilledFormHasUser
<1> QED BY <1>7, <1>8, <1>9, <1>10

(* A changed address leaves the spinner running: LoginView is drawn next, or *)
(* the sign-out was caught and nobody hears of the call.                     *)
LEMMA EmailSucceedsStep ==
  ASSUME ProfileInv, NEW c \in Calls, EmailSucceeds(c)
  PROVE  ProfileInv'
<1> USE DEF ProfileInv
<1>1. PICK step \in {"leaves", "lost"} : calls' = [calls EXCEPT ![c].step = step]
  BY DEF EmailSucceeds, SignsOut, SignOutCaught
<1>2. calls[c].step = "sent" /\ leaving' \in {leaving, TRUE} /\ UNCHANGED <<vm, form>>
  BY DEF EmailSucceeds, SignsOut, SignOutCaught
<1>3. [calls[c] EXCEPT !.step = step] \in Call
  BY DEF TypeOK, Call
<1>4. calls' \in [Calls -> Call]
  BY <1>1, <1>3 DEF TypeOK
<1>5. \A d \in Calls : /\ calls'[d].step # "none" <=> calls[d].step # "none"
                       /\ calls'[d].doc = calls[d].doc
                       /\ calls'[d].saves = calls[d].saves
                       /\ calls'[d].updateEmail = calls[d].updateEmail
  BY <1>1, <1>2 DEF TypeOK, Call
<1>6. TypeOK'
  BY <1>2, <1>4, <1>5 DEF TypeOK, Waiting
<1>7. UserIsHeard' /\ FormIsShown' /\ FilledFormHasUser'
  BY <1>2 DEF UserIsHeard, FormIsShown, FilledFormHasUser
<1>8. SpinnerIsCall' /\ CallSavesShown'
  BY <1>2, <1>5 DEF SpinnerIsCall, CallSavesShown, Saves, Waiting
<1> QED BY <1>6, <1>7, <1>8

LEMMA ProfileStep == ProfileInv /\ [Next]_vars => ProfileInv'
<1> SUFFICES ASSUME ProfileInv, [Next]_vars PROVE ProfileInv'
  OBVIOUS
<1>1. CASE Hear \/ UserChanges \/ DrawCategory \/ SignOut
  BY <1>1, ViewModelStep
<1>2. CASE DrawLogin \/ TapWithoutUser
  BY <1>2, NothingOpen DEF DrawLogin, TapWithoutUser
<1>3. CASE Open
  BY <1>3, OpenStep
<1>4. CASE Back
  BY <1>4, BackStep
<1>5. CASE Type \/ PickImage \/ SwitchEmail
  BY <1>5, TouchStep
<1>6. CASE CloseAlert
  BY <1>6, CloseAlertStep
<1>7. CASE TapBlank
  BY <1>7, TapBlankStep
<1>8. CASE \E c \in Calls : TapUpdate(c) \/ Answers(c)
  BY <1>8, TapUpdateStep, EndStep, EmailSucceedsStep DEF Answers
<1>9. CASE UNCHANGED vars
  BY <1>9 DEF vars, ProfileInv, TypeOK, UserIsHeard, FormIsShown, SpinnerIsCall,
              CallSavesShown, Saves, FilledFormHasUser, Waiting
<1> QED BY <1>1, <1>2, <1>3, <1>4, <1>5, <1>6, <1>7, <1>8, <1>9 DEF Next, Draw

-----------------------------------------------------------------------------
(* What else is true of the reset form.  It lies on LoginView; the open form *)
(* waits for one reset at most; and a reset whose directions were mailed has *)
(* its address among those the server mailed to, whether or not its form was *)
(* left.                                                                     *)
Awaited(c) == Reset!Waiting(c) /\ ~resets[c].left

OneIsAwaited == \A c, d \in Resets : Awaited(c) /\ Awaited(d) => c = d

MailedIsMailed == \A c \in Resets : resets[c].step = "mailed" => resets[c].email \in mailed

ResetFormInv ==
  /\ SpinnerIsReset
  /\ SuccessIsMailed
  /\ OneIsAwaited
  /\ MailedIsMailed
  /\ ~reset.open => ~reset.spinner

ResetInv == ResetFormInv /\ (reset.open => ~vm.shown)

LEMMA ResetInit == FormsInit => ResetInv
<1> SUFFICES ASSUME FormsInit PROVE ResetInv
  OBVIOUS
<1> USE DEF FormsInit, Init, LoginShown, Reset!Init, Reset!Fresh, Reset!NoCall,
            Reset!Waiting
<1>1. Reset!TypeOK
  BY DEF Reset!TypeOK, Reset!Form, Reset!Call, Reset!Texts
<1>2. Reset!SpinnerIsReset /\ SuccessIsMailed
  BY DEF Reset!SpinnerIsReset, SuccessIsMailed, Reset!SuccessIsMailed
<1>3. OneIsAwaited /\ MailedIsMailed
  BY DEF OneIsAwaited, MailedIsMailed, Awaited
<1> QED BY <1>1, <1>2, <1>3 DEF ResetInv, ResetFormInv, SpinnerIsReset

(* An open form without a spinner awaits no reset: what it shows may change, *)
(* and what it says, unless it claims a success.                             *)
LEMMA ResetEditStep ==
  ASSUME ResetFormInv, UNCHANGED <<resets, mailed>>,
         reset' \in Reset!Form, ~reset.spinner, ~reset'.spinner,
         reset'.title = "Success!" => reset'.about \in mailed
  PROVE  ResetFormInv'
<1> USE DEF ResetFormInv
<1>1. Reset!TypeOK'
  BY DEF SpinnerIsReset, Reset!TypeOK, Reset!Waiting
<1>2. Reset!SpinnerIsReset'
  BY DEF SpinnerIsReset, Reset!SpinnerIsReset, Reset!Waiting
<1>3. SuccessIsMailed'
  BY DEF SuccessIsMailed, Reset!SuccessIsMailed
<1>4. OneIsAwaited' /\ MailedIsMailed'
  BY DEF OneIsAwaited, MailedIsMailed, Awaited, Reset!Waiting
<1> QED BY <1>1, <1>2, <1>3, <1>4 DEF SpinnerIsReset

LEMMA ResetTouchStep ==
  ASSUME ResetFormInv, Reset!Open \/ Reset!Type \/ Reset!TapBlank
  PROVE  ResetFormInv'
<1>1. UNCHANGED <<resets, mailed>> /\ reset \in Reset!Form /\ ~reset.spinner
  BY DEF ResetFormInv, SpinnerIsReset, Reset!TypeOK, Reset!Open, Reset!Type,
         Reset!TapBlank, Reset!Touchable
<1>2. CASE Reset!Open
  <2>1. reset' \in Reset!Form /\ ~reset'.spinner /\ reset'.title = ""
    BY <1>2 DEF Reset!Open, Reset!Fresh, Reset!Form, Reset!Texts
  <2> QED BY <1>1, <2>1, ResetEditStep
<1>3. CASE Reset!Type
  <2>1. PICK t \in Reset!Texts : reset' = [reset EXCEPT !.email = t]
    BY <1>3 DEF Reset!Type
  <2>2. /\ reset' \in Reset!Form /\ ~reset'.spinner
        /\ reset'.title = reset.title /\ reset'.about = reset.about
    BY <1>1, <2>1 DEF Reset!Form
  <2>3. reset'.title = "Success!" => reset'.about \in mailed
    BY <2>2 DEF ResetFormInv, SuccessIsMailed, Reset!SuccessIsMailed
  <2> QED BY <1>1, <2>2, <2>3, ResetEditStep
<1>4. CASE Reset!TapBlank
  <2>1. /\ reset' \in Reset!Form /\ ~reset'.spinner
        /\ reset'.title = "Error!"
    BY <1>1, <1>4 DEF Reset!TapBlank, Reset!Alerts, Reset!Toggles, Reset!Form, Reset!Texts
  <2> QED BY <1>1, <2>1, ResetEditStep
<1> QED BY <1>2, <1>3, <1>4

LEMMA ResetCloseAlertStep ==
  ASSUME ResetFormInv, Reset!CloseAlert
  PROVE  ResetFormInv'
<1> USE DEF ResetFormInv
<1>1. /\ reset' = [reset EXCEPT !.showAlert = FALSE]
      /\ UNCHANGED <<resets, mailed>>
      /\ reset \in Reset!Form
  BY DEF Reset!CloseAlert, SpinnerIsReset, Reset!TypeOK
<1>2. /\ reset' \in Reset!Form /\ ~reset'.showAlert
      /\ reset'.open = reset.open /\ reset'.spinner = reset.spinner
      /\ reset'.email = reset.email
      /\ reset'.title = reset.title /\ reset'.about = reset.about
  BY <1>1 DEF Reset!Form
<1>3. Reset!TypeOK'
  BY <1>1, <1>2 DEF SpinnerIsReset, Reset!TypeOK, Reset!Waiting
<1>4. Reset!SpinnerIsReset'
  BY <1>1, <1>2 DEF SpinnerIsReset, Reset!SpinnerIsReset, Reset!Waiting
<1>5. SuccessIsMailed'
  BY <1>1, <1>2 DEF SuccessIsMailed, Reset!SuccessIsMailed
<1>6. OneIsAwaited' /\ MailedIsMailed'
  BY <1>1 DEF OneIsAwaited, MailedIsMailed, Awaited, Reset!Waiting
<1> QED BY <1>2, <1>3, <1>4, <1>5, <1>6 DEF SpinnerIsReset

(* Leaving the form leaves its reset to the server: nobody awaits any.       *)
LEMMA LeaveStep ==
  ASSUME ResetFormInv, Reset!Leave
  PROVE  ResetFormInv' /\ ~reset'.open
<1> USE DEF ResetFormInv
<1>1. /\ reset' = [Reset!Fresh EXCEPT !.open = FALSE]
      /\ resets' = [c \in Resets |-> [resets[c] EXCEPT !.left = Reset!Waiting(c)]]
      /\ UNCHANGED mailed
  BY DEF Reset!Leave
<1>2. /\ reset' \in Reset!Form /\ ~reset'.open /\ ~reset'.spinner
      /\ reset'.title = ""
  BY <1>1 DEF Reset!Fresh, Reset!Form, Reset!Texts
<1>3. \A c \in Resets : resets[c] \in Reset!Call /\ Reset!Waiting(c) \in BOOLEAN
  BY DEF SpinnerIsReset, Reset!TypeOK, Reset!Waiting
<1>4. \A c \in Resets : /\ resets'[c] \in Reset!Call
                        /\ resets'[c].step = resets[c].step
                        /\ resets'[c].email = resets[c].email
                        /\ resets'[c].left = Reset!Waiting(c)
  <2> SUFFICES ASSUME NEW c \in Resets
               PROVE  /\ resets'[c] \in Reset!Call
                      /\ resets'[c].step = resets[c].step
                      /\ resets'[c].email = resets[c].email
                      /\ resets'[c].left = Reset!Waiting(c)
    OBVIOUS
  <2> DEFINE waits == Reset!Waiting(c)
  <2>1. resets'[c] = [resets[c] EXCEPT !.left = waits] /\ waits \in BOOLEAN
    BY <1>1, <1>3
  <2> HIDE DEF waits
  <2>2. resets[c] \in Reset!Call
    BY <1>3
  <2>3. /\ resets'[c] \in Reset!Call
        /\ resets'[c].step = resets[c].step
        /\ resets'[c].email = resets[c].email
        /\ resets'[c].left = waits
    BY <2>1, <2>2 DEF Reset!Call
  <2> QED BY <2>3 DEF waits
<1>5. Reset!TypeOK'
  BY <1>1, <1>2, <1>4 DEF SpinnerIsReset, Reset!TypeOK, Reset!Waiting
<1>6. \A c \in Resets : ~Awaited(c)'
  BY <1>4 DEF Awaited, Reset!Waiting
<1>7. Reset!SpinnerIsReset' /\ OneIsAwaited'
  BY <1>2, <1>6 DEF Reset!SpinnerIsReset, OneIsAwaited, Awaited
<1>8. SuccessIsMailed'
  BY <1>2 DEF SuccessIsMailed, Reset!SuccessIsMailed
<1>9. mailed' = mailed
  BY <1>1
<1>10. MailedIsMailed'
  BY <1>4, <1>9 DEF MailedIsMailed
<1> QED BY <1>2, <1>5, <1>7, <1>8, <1>10 DEF SpinnerIsReset

LEMMA TapResetStep ==
  ASSUME ResetFormInv, NEW c \in Resets, Reset!TapReset(c)
  PROVE  ResetFormInv'
<1> USE DEF ResetFormInv
<1>1. /\ reset.open /\ ~reset.spinner /\ ~reset.showAlert /\ reset.email # Empty
      /\ reset \in Reset!Form
      /\ reset' = [reset EXCEPT !.spinner = ~reset.spinner]
      /\ resets' = [resets EXCEPT ![c] =
                      [Reset!NoCall EXCEPT !.step = "sent", !.email = reset.email]]
      /\ UNCHANGED mailed
  BY DEF Reset!TapReset, Reset!Touchable, Reset!Toggles, SpinnerIsReset, Reset!TypeOK
<1>2. /\ reset' \in Reset!Form /\ reset'.spinner /\ reset'.open /\ ~reset'.showAlert
      /\ reset'.email = reset.email
      /\ reset'.title = reset.title /\ reset'.about = reset.about
      /\ reset.email \in Addresses
  BY <1>1 DEF Reset!Form, Reset!Texts
<1>3. resets'[c] = [step |-> "sent", email |-> reset.email, left |-> FALSE]
  BY <1>1 DEF SpinnerIsReset, Reset!TypeOK, Reset!NoCall
<1>4. \A d \in Resets : d # c => resets'[d] = resets[d]
  BY <1>1 DEF SpinnerIsReset, Reset!TypeOK
<1>5. resets'[c] \in Reset!Call
  BY <1>2, <1>3 DEF Reset!Call, Reset!Texts
<1>6. resets' \in [Resets -> Reset!Call]
  BY <1>1, <1>4, <1>5 DEF SpinnerIsReset, Reset!TypeOK
<1>7. Reset!TypeOK'
  BY <1>1, <1>2, <1>3, <1>4, <1>6 DEF SpinnerIsReset, Reset!TypeOK, Reset!Waiting
<1>8. \A d \in Resets : ~Awaited(d)
  BY <1>1 DEF SpinnerIsReset, Reset!SpinnerIsReset, Awaited
<1>9. \A d \in Resets : Awaited(d)' <=> d = c
  BY <1>3, <1>4, <1>8 DEF Awaited, Reset!Waiting
<1>10. Reset!SpinnerIsReset' /\ OneIsAwaited'
  BY <1>2, <1>3, <1>9 DEF Reset!SpinnerIsReset, OneIsAwaited, Awaited
<1>11. SuccessIsMailed' /\ MailedIsMailed'
  BY <1>1, <1>2, <1>3, <1>4 DEF SuccessIsMailed, Reset!SuccessIsMailed, MailedIsMailed
<1> QED BY <1>2, <1>7, <1>10, <1>11 DEF SpinnerIsReset

LEMMA MailStep ==
  ASSUME ResetFormInv, NEW c \in Resets, Reset!Mail(c)
  PROVE  ResetFormInv'
<1> USE DEF ResetFormInv
<1>1. /\ resets[c].step = "sent"
      /\ resets' = [resets EXCEPT ![c].step = "mailed"]
      /\ mailed' = mailed \cup {resets[c].email}
      /\ UNCHANGED reset
  BY DEF Reset!Mail
<1>2. resets \in [Resets -> Reset!Call] /\ resets[c].email \in Addresses
  BY <1>1 DEF SpinnerIsReset, Reset!TypeOK, Reset!Waiting
<1>3. [resets[c] EXCEPT !.step = "mailed"] \in Reset!Call
  BY <1>2 DEF Reset!Call
<1>4. resets' \in [Resets -> Reset!Call]
  BY <1>1, <1>2, <1>3
<1>5. /\ resets'[c].step = "mailed"
      /\ \A d \in Resets : /\ d # c => resets'[d].step = resets[d].step
                           /\ resets'[d].email = resets[d].email
                           /\ resets'[d].left = resets[d].left
  BY <1>1, <1>2 DEF Reset!Call
<1>6. Reset!TypeOK'
  BY <1>1, <1>2, <1>4, <1>5 DEF SpinnerIsReset, Reset!TypeOK, Reset!Waiting
<1>7. \A d \in Resets : /\ Reset!Waiting(d)' <=> Reset!Waiting(d)
                        /\ Awaited(d)' <=> Awaited(d)
  BY <1>1, <1>5 DEF Awaited, Reset!Waiting
<1>8. Reset!SpinnerIsReset' /\ OneIsAwaited'
  BY <1>1, <1>5, <1>7 DEF SpinnerIsReset, Reset!SpinnerIsReset, OneIsAwaited, Awaited
<1>9. SuccessIsMailed' /\ MailedIsMailed'
  BY <1>1, <1>5 DEF SuccessIsMailed, Reset!SuccessIsMailed, MailedIsMailed
<1> QED BY <1>1, <1>6, <1>8, <1>9 DEF SpinnerIsReset

(* The answer of a reset whose form was left changes nothing that is seen;   *)
(* the awaited one stops the spinner, and nothing is awaited any more.       *)
LEMMA ResetAnswerStep ==
  ASSUME ResetFormInv, NEW c \in Resets, Reset!Answers(c)
  PROVE  ResetFormInv'
<1> USE DEF ResetFormInv
<1>1. /\ Reset!Waiting(c)
      /\ resets' = [resets EXCEPT ![c] = Reset!NoCall]
      /\ UNCHANGED mailed
  BY DEF Reset!Answers, Reset!Succeeds, Reset!Fails, Reset!Ends, Reset!Waiting
<1>2. /\ resets \in [Resets -> Reset!Call] /\ reset \in Reset!Form
      /\ resets[c].email \in Addresses
  BY <1>1 DEF SpinnerIsReset, Reset!TypeOK
<1>3. Reset!NoCall \in Reset!Call
  BY DEF Reset!NoCall, Reset!Call, Reset!Texts
<1>4. resets' \in [Resets -> Reset!Call]
  BY <1>1, <1>2, <1>3
<1>5. /\ ~Reset!Waiting(c)' /\ resets'[c].step = "none"
      /\ \A d \in Resets : d # c => resets'[d] = resets[d]
  BY <1>1, <1>2 DEF Reset!Waiting, Reset!NoCall
<1>6. mailed' = mailed
  BY <1>1
<1>7. MailedIsMailed'
  BY <1>5, <1>6 DEF MailedIsMailed
<1>8. OneIsAwaited'
  BY <1>5 DEF OneIsAwaited, Awaited, Reset!Waiting
<1>9. mailed' \subseteq Addresses
      /\ \A d \in Resets : Reset!Waiting(d)' => resets'[d].email \in Addresses
  BY <1>5, <1>6 DEF SpinnerIsReset, Reset!TypeOK, Reset!Waiting
<1>10. CASE resets[c].left
  <2>1. reset' = reset
    BY <1>10 DEF Reset!Answers, Reset!Succeeds, Reset!Fails
  <2>2. Reset!TypeOK'
    BY <1>2, <1>4, <1>9, <2>1 DEF Reset!TypeOK
  <2>3. \A d \in Resets : Awaited(d)' <=> Awaited(d)
    BY <1>5, <1>10 DEF Awaited, Reset!Waiting
  <2>4. Reset!SpinnerIsReset'
    BY <1>5, <2>1, <2>3 DEF SpinnerIsReset, Reset!SpinnerIsReset, Awaited
  <2>5. SuccessIsMailed'
    BY <1>6, <2>1 DEF SuccessIsMailed, Reset!SuccessIsMailed
  <2> QED BY <1>7, <1>8, <2>1, <2>2, <2>4, <2>5 DEF SpinnerIsReset
<1>11. CASE ~resets[c].left
  <2>1. reset.spinner /\ Awaited(c)
    BY <1>1, <1>11 DEF SpinnerIsReset, Reset!SpinnerIsReset, Awaited
  <2>2. \A d \in Resets : ~Awaited(d)'
    BY <1>5, <2>1 DEF OneIsAwaited, Awaited, Reset!Waiting
  <2>3. /\ reset' \in Reset!Form /\ ~reset'.spinner
        /\ reset'.title = "Success!" => reset'.about \in mailed
    <3>1. CASE Reset!Succeeds(c)
      <4>1. resets[c].email \in mailed
        BY <3>1 DEF Reset!Succeeds, MailedIsMailed
      <4>2. reset' = [reset EXCEPT !.spinner = ~reset.spinner, !.email = Empty,
                        !.title = "Success!", !.address = Empty,
                        !.about = resets[c].email, !.showAlert = ~reset.showAlert]
        BY <1>2, <1>11, <3>1 DEF Reset!Succeeds, Reset!Alerts, Reset!Toggles, Reset!Form
      <4> QED BY <1>2, <2>1, <4>1, <4>2 DEF Reset!Form, Reset!Texts
    <3>2. CASE Reset!Fails(c)
      <4>1. reset' = [reset EXCEPT !.spinner = ~reset.spinner,
                        !.title = "Error!", !.address = Empty,
                        !.about = resets[c].email, !.showAlert = ~reset.showAlert]
        BY <1>2, <1>11, <3>2 DEF Reset!Fails, Reset!Alerts, Reset!Toggles, Reset!Form
      <4> QED BY <1>2, <2>1, <4>1 DEF Reset!Form, Reset!Texts
    <3> QED BY <3>1, <3>2 DEF Reset!Answers
  <2>4. Reset!TypeOK'
    BY <1>4, <1>9, <2>3 DEF Reset!TypeOK
  <2>5. Reset!SpinnerIsReset'
    BY <2>2, <2>3 DEF Reset!SpinnerIsReset, Awaited
  <2>6. SuccessIsMailed'
    BY <1>6, <2>3 DEF SuccessIsMailed, Reset!SuccessIsMailed
  <2> QED BY <1>7, <1>8, <2>3, <2>4, <2>5, <2>6 DEF SpinnerIsReset
<1> QED BY <1>10, <1>11

(* The process that died awaited no reset: its form was taken away before    *)
(* CategoryView was drawn.                                                   *)
LEMMA CrashStep ==
  ASSUME ResetFormInv, ~reset.open, Crash
  PROVE  ResetFormInv'
<1> USE DEF ResetFormInv
<1>1. /\ resets' = [c \in Resets |-> Reset!NoCall]
      /\ reset' = reset /\ mailed' = mailed
  BY DEF Crash
<1>2. Reset!NoCall \in Reset!Call /\ Reset!NoCall.step = "none"
  BY DEF Reset!NoCall, Reset!Call, Reset!Texts
<1>3. Reset!TypeOK'
  BY <1>1, <1>2 DEF SpinnerIsReset, Reset!TypeOK, Reset!Waiting
<1>4. \A c \in Resets : resets'[c].step = "none"
  BY <1>1, <1>2
<1>5. Reset!SpinnerIsReset' /\ OneIsAwaited' /\ MailedIsMailed'
  BY <1>1, <1>4 DEF Reset!SpinnerIsReset, OneIsAwaited, MailedIsMailed, Awaited,
                    Reset!Waiting
<1>6. SuccessIsMailed'
  BY <1>1 DEF SuccessIsMailed, Reset!SuccessIsMailed
<1> QED BY <1>1, <1>3, <1>5, <1>6 DEF SpinnerIsReset

-----------------------------------------------------------------------------
(* The two forms together.                                                   *)
FormsInv == ProfileInv /\ ResetInv

LEMMA FormsInvInit == FormsInit => FormsInv
BY ProfileInit, ResetInit DEF FormsInit, FormsInv

(* Every step of the two forms is a step of the profile form, or none.       *)
LEMMA FormsStepIsProfileStep == [FormsNext]_formsVars => [Next]_vars
BY DEF FormsNext, formsVars, ProfileNext, DrawCategoryOver, Crash, Next, Draw

(* Only drawing CategoryView leaves LoginView.                               *)
LEMMA ScreenStays ==
  ASSUME ProfileNext
  PROVE  vm'.shown => vm.shown
<1>1. CASE Hear
  BY <1>1 DEF Hear
<1>2. CASE DrawLogin
  BY <1>2 DEF DrawLogin, LoginShown
<1>3. CASE /\ ~Hear
           /\ ~DrawLogin
  <2>1. vm' = vm
    BY <1>3 DEF ProfileNext, UserChanges, Open, Back, SignOut, Type, PickImage, SwitchEmail,
                CloseAlert, TapBlank, TapUpdate, Answers, Fails, Succeeds, EmailSucceeds
  <2> QED BY <2>1
<1> QED BY <1>1, <1>2, <1>3

LEMMA ResetStep == FormsInv /\ [FormsNext]_formsVars => ResetInv'
<1> SUFFICES ASSUME ProfileInv, ResetInv, [FormsNext]_formsVars PROVE ResetInv'
  BY DEF FormsInv
<1> USE DEF ResetInv
<1>1. ASSUME UNCHANGED resetVars PROVE ResetFormInv'
  BY <1>1 DEF resetVars, ResetFormInv, SpinnerIsReset, Reset!TypeOK, Reset!SpinnerIsReset,
              Reset!Waiting, SuccessIsMailed, Reset!SuccessIsMailed, OneIsAwaited, Awaited,
              MailedIsMailed
<1>2. CASE ProfileNext /\ UNCHANGED resetVars
  BY <1>1, <1>2, ScreenStays DEF resetVars
<1>3. CASE DrawCategoryOver
  <2>1. CASE reset.open
    BY <1>3, <2>1, LeaveStep DEF DrawCategoryOver
  <2>2. CASE ~reset.open
    BY <1>1, <1>3, <2>2 DEF DrawCategoryOver, resetVars
  <2> QED BY <2>1, <2>2
<1>4. CASE Crash
  <2>1. ~reset.open
    BY <1>4 DEF Crash, TapWithoutUser, Touchable, ProfileInv, FormIsShown
  <2> QED BY <1>4, <2>1, CrashStep DEF Crash
<1>5. CASE ResetNext /\ UNCHANGED vars
  <2>1. vm' = vm
    BY <1>5 DEF vars
  <2>2. CASE OpenReset
    BY <2>1, <2>2, ResetTouchStep DEF OpenReset
  <2>3. CASE Reset!Leave
    BY <2>3, LeaveStep
  <2>4. CASE Reset!Type \/ Reset!TapBlank
    <3>1. reset'.open => reset.open
      BY <2>4 DEF Reset!Type, Reset!TapBlank, Reset!Touchable
    <3> QED BY <2>1, <2>4, <3>1, ResetTouchStep
  <2>5. CASE Reset!CloseAlert
    <3>1. reset'.open => reset.open
      BY <2>5 DEF Reset!CloseAlert, ResetFormInv, SpinnerIsReset, Reset!TypeOK, Reset!Form
    <3> QED BY <2>1, <2>5, <3>1, ResetCloseAlertStep
  <2>6. ASSUME NEW c \in Resets, Reset!TapReset(c) PROVE ResetInv'
    BY <2>1, <2>6, TapResetStep DEF Reset!TapReset, Reset!Touchable
  <2>7. ASSUME NEW c \in Resets, Reset!Mail(c) PROVE ResetInv'
    BY <2>1, <2>7, MailStep DEF Reset!Mail
  <2>8. ASSUME NEW c \in Resets, Reset!Answers(c) PROVE ResetInv'
    <3>1. reset'.open => reset.open
      <4>1. reset \in Reset!Form
        BY DEF ResetFormInv, SpinnerIsReset, Reset!TypeOK
      <4> QED BY <2>8, <4>1 DEF Reset!Answers, Reset!Succeeds, Reset!Fails, Reset!Alerts,
                                Reset!Toggles, Reset!Form
    <3> QED BY <2>1, <2>8, <3>1, ResetAnswerStep
  <2> QED BY <1>5, <2>2, <2>3, <2>4, <2>5, <2>6, <2>7, <2>8 DEF ResetNext
<1>6. CASE UNCHANGED formsVars
  <2>1. UNCHANGED resetVars /\ UNCHANGED vars
    BY <1>6 DEF formsVars
  <2> QED BY <1>1, <2>1 DEF vars, resetVars
<1> QED BY <1>2, <1>3, <1>4, <1>5, <1>6 DEF FormsNext

LEMMA FormsInvStep == FormsInv /\ [FormsNext]_formsVars => FormsInv'
BY FormsStepIsProfileStep, ProfileStep, ResetStep DEF FormsInv

(* Both forms keep their invariants, whatever is done with the other.        *)
THEOREM FormsKeepInvariant == FormsSpec => []FormsInv
BY FormsInvInit, FormsInvStep, PTL DEF FormsSpec

(* The spinner of UserProfileView runs exactly while its form waits for its  *)
(* one call, and no alert is up that the completion would take away.         *)
THEOREM SpinnerFollowsCall == FormsSpec => []SpinnerIsCall
<1>1. FormsInv => SpinnerIsCall
  BY DEF FormsInv, ProfileInv
<1> QED BY <1>1, FormsKeepInvariant, PTL

(* A running call saves what the form shows of the fields its kind of update *)
(* carries and nothing else, in the document that filled the form, for any   *)
(* number of calls.                                                          *)
THEOREM ShownIsSaved == FormsSpec => []CallSavesShown
<1>1. FormsInv => CallSavesShown
  BY DEF FormsInv, ProfileInv
<1> QED BY <1>1, FormsKeepInvariant, PTL

(* A form filled from a document finds that document's user in its view      *)
(* model as long as that was not replaced.                                   *)
THEOREM FilledFormKeepsUser == FormsSpec => []FilledFormHasUser
<1>1. FormsInv => FilledFormHasUser
  BY DEF FormsInv, ProfileInv
<1> QED BY <1>1, FormsKeepInvariant, PTL

(* The spinner of ResetPasswordView runs exactly while the open form awaits  *)
(* its reset, although forms that were left have resets under way.           *)
THEOREM SpinnerFollowsReset == FormsSpec => []SpinnerIsReset
<1>1. FormsInv => SpinnerIsReset
  BY DEF FormsInv, ResetInv, ResetFormInv
<1> QED BY <1>1, FormsKeepInvariant, PTL

(* "Success!" is said only of an address that directions were mailed to.     *)
THEOREM SuccessWasMailed == FormsSpec => []SuccessIsMailed
<1>1. FormsInv => SuccessIsMailed
  BY DEF FormsInv, ResetInv, ResetFormInv
<1> QED BY <1>1, FormsKeepInvariant, PTL
=============================================================================
