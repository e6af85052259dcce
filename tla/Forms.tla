--------------------------------- MODULE Forms ---------------------------------
(***************************************************************************)
(* The two forms with a spinner of their own: UserProfileView, reached from *)
(* CategoryView (module ProfileForm), and ResetPasswordView, reached from   *)
(* LoginView (module ResetPassword).  HomeView decides which of the two     *)
(* screens is drawn, and takes away the form that lies on the other one.    *)
(***************************************************************************)
EXTENDS ProfileForm

CONSTANTS Addresses, Known, Empty, Resets

ASSUME ResetAssumption == Empty \notin Addresses /\ Known \subseteq Addresses

VARIABLES reset, resets, mailed

Reset == INSTANCE ResetPassword WITH form <- reset, calls <- resets, Calls <- Resets

resetVars == <<reset, resets, mailed>>
formsVars == <<vars, resetVars>>

FormsInit == Init /\ Reset!Init

OpenReset == ~vm.shown /\ Reset!Open

(* A session while LoginView is shown takes the reset form away.             *)
DrawCategoryOver ==
  /\ DrawCategory
  /\ IF reset.open THEN Reset!Leave ELSE UNCHANGED resetVars

(* The process dies: nobody waits for an answer any more.                    *)
Crash ==
  /\ TapWithoutUser
  /\ resets' = [c \in Resets |-> Reset!NoCall]
  /\ UNCHANGED <<reset, mailed>>

ProfileNext ==
  \/ Hear \/ UserChanges \/ DrawLogin
  \/ Open \/ Back \/ SignOut \/ Type \/ PickImage \/ SwitchEmail \/ CloseAlert
  \/ TapBlank
  \/ \E c \in Calls : TapUpdate(c) \/ Answers(c)

ResetNext ==
  \/ OpenReset \/ Reset!Leave \/ Reset!Type \/ Reset!CloseAlert \/ Reset!TapBlank
  \/ \E c \in Resets : Reset!TapReset(c) \/ Reset!Mail(c) \/ Reset!Answers(c)

FormsNext ==
  \/ ProfileNext /\ UNCHANGED resetVars
  \/ DrawCategoryOver
  \/ Crash
  \/ ResetNext /\ UNCHANGED vars

(* What is fair of the profile form, whatever the reset form does.           *)
FormsSpec == FormsInit /\ [][FormsNext]_formsVars
FairForms == FormsSpec /\ Fairness

-----------------------------------------------------------------------------
(* The reset form keeps its types, and its spinner runs exactly while the    *)
(* open form waits for its reset (ResetPasswordView.swift:38-66), see        *)
(* ResetPassword!SpinnerIsReset; a form that was left, also by the login     *)
(* that draws CategoryView over it, never comes back with its answer.        *)
SpinnerIsReset == Reset!TypeOK /\ Reset!SpinnerIsReset

(* What the reset form says of an address (ResetPasswordView.swift:50-55),   *)
(* see ResetPassword!SuccessIsMailed.                                        *)
SuccessIsMailed == Reset!SuccessIsMailed
=============================================================================
