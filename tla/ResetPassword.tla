----------------------------- MODULE ResetPassword -----------------------------
(***************************************************************************)
(* ResetPasswordView and ResetPasswordService: the address is sent to      *)
(* Auth's server, which mails directions to an account it knows; the       *)
(* answer ends the spinner and puts up an alert.  LoadingView disables the *)
(* content while the spinner runs, but Back leaves it, and a login that    *)
(* was under way may replace the whole screen.                             *)
(***************************************************************************)
EXTENDS FiniteSets

CONSTANTS
  Addresses, Known,  \* what may be typed; the addresses of accounts
  Empty,             \* ""
  Calls              \* bound: resets in flight

VARIABLES
  form,   \* the @State of the view
  calls,  \* resets
  mailed  \* server: addresses that directions were sent to

vars == <<form, calls, mailed>>

Texts == Addresses \cup {Empty}
(* The last message names `address'; `about' is the reset it is about.       *)
Form == [open : BOOLEAN, email : Texts, spinner : BOOLEAN, showAlert : BOOLEAN,
         title : {"", "Error!", "Success!"}, address : Texts, about : Texts]
Fresh == [open |-> TRUE, email |-> Empty, spinner |-> FALSE, showAlert |-> FALSE,
          title |-> "", address |-> Empty, about |-> Empty]

(* left: the form that made the call is gone.                                *)
Call == [step : {"none", "sent", "mailed"}, email : Texts, left : BOOLEAN]
NoCall == [step |-> "none", email |-> Empty, left |-> FALSE]
Waiting(c) == calls[c].step # "none"

Init ==
  /\ form = [Fresh EXCEPT !.open = FALSE]
  /\ calls = [c \in Calls |-> NoCall]
  /\ mailed = {}

-----------------------------------------------------------------------------
Open ==
  /\ ~form.open
  /\ form' = Fresh
  /\ UNCHANGED <<calls, mailed>>

(* Back, or HomeView draws CategoryView.                                     *)
Leave ==
  /\ form.open
  /\ form' = [Fresh EXCEPT !.open = FALSE]
  /\ calls' = [c \in Calls |-> [calls[c] EXCEPT !.left = Waiting(c)]]
  /\ UNCHANGED mailed

Touchable == form.open /\ ~form.spinner /\ ~form.showAlert

Type ==
  /\ Touchable
  /\ \E t \in Texts : form' = [form EXCEPT !.email = t]
  /\ UNCHANGED <<calls, mailed>>

CloseAlert ==
  /\ form.showAlert
  /\ form' = [form EXCEPT !.showAlert = FALSE]
  /\ UNCHANGED <<calls, mailed>>

Toggles(f) == [f EXCEPT !.spinner = ~@]
Alerts(f, title, address, about) ==
  [f EXCEPT !.title = title, !.address = address, !.about = about, !.showAlert = ~@]

TapBlank ==
  /\ Touchable /\ form.email = Empty
  /\ form' = Alerts(Toggles(Toggles(form)), "Error!", Empty, Empty)
  /\ UNCHANGED <<calls, mailed>>

(* Mutant of TapReset: the spinner starts with the answer.                   *)
TapResetUnseen(c) ==
  /\ Touchable /\ form.email # Empty
  /\ ~Waiting(c)
  /\ calls' = [calls EXCEPT ![c] = [NoCall EXCEPT !.step = "sent", !.email = form.email]]
  /\ UNCHANGED <<form, mailed>>

TapReset(c) ==
  /\ Touchable /\ form.email # Empty
  /\ ~Waiting(c)
  /\ form' = Toggles(form)
  /\ calls' = [calls EXCEPT ![c] = [NoCall EXCEPT !.step = "sent", !.email = form.email]]
  /\ UNCHANGED mailed

(* Auth's server. *)
Mail(c) ==
  /\ calls[c].step = "sent" /\ calls[c].email \in Known
  /\ calls' = [calls EXCEPT ![c].step = "mailed"]
  /\ mailed' = mailed \cup {calls[c].email}
  /\ UNCHANGED form

Ends(c) ==
  /\ calls' = [calls EXCEPT ![c] = NoCall]
  /\ UNCHANGED mailed

(* Mutant of Succeeds: the service does not look at the error.               *)
SucceedsEarly(c) ==
  /\ Waiting(c)
  /\ Ends(c)
  /\ form' = IF calls[c].left THEN form
             ELSE Alerts([Toggles(form) EXCEPT !.email = Empty],
                         "Success!", Empty, calls[c].email)

(* The completion with `true': the message is put together after the address *)
(* was cleared.                                                              *)
Succeeds(c) ==
  /\ calls[c].step = "mailed"
  /\ Ends(c)
  /\ LET cleared == [Toggles(form) EXCEPT !.email = Empty]
     IN  form' = IF calls[c].left THEN form
                 ELSE Alerts(cleared, "Success!", cleared.email, calls[c].email)

(* ... with `false': the account is unknown, the request or the response was *)
(* lost.                                                                     *)
Fails(c) ==
  /\ Waiting(c)
  /\ Ends(c)
  /\ form' = IF calls[c].left THEN form
             ELSE Alerts(Toggles(form), "Error!", Empty, calls[c].email)

Answers(c) == Succeeds(c) \/ Fails(c)

-----------------------------------------------------------------------------
TypeOK ==
  /\ form \in Form
  /\ calls \in [Calls -> Call]
  /\ \A c \in Calls : Waiting(c) => calls[c].email \in Addresses
  /\ mailed \subseteq Addresses

(* The spinner runs exactly while the form that is open waits, for one       *)
(* reset of the address it still shows, and without an alert that the        *)
(* completion would take away (ResetPasswordView.swift:38-66).               *)
SpinnerIsReset ==
  /\ form.spinner <=> \E c \in Calls : Waiting(c) /\ ~calls[c].left
  /\ form.spinner => ~form.showAlert
  /\ \A c \in Calls : Waiting(c) /\ ~calls[c].left => calls[c].email = form.email

(* "Success!" is only said of an address that directions were mailed to,     *)
(* also when resets of forms that were left are still under way, and the     *)
(* address is gone from the form (ResetPasswordView.swift:50-55).            *)
SuccessIsMailed ==
  form.title = "Success!" => form.about \in mailed
=============================================================================
