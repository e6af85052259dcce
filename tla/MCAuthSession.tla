---------------------------- MODULE MCAuthSession ----------------------------
(* A small instance of AuthSession for TLC.  The history variable `revoked'  *)
(* tells whether FIRAuth has dropped a user by force in this launch: what    *)
(* LoginView promises of its spinner holds until then.                       *)
EXTENDS AuthSession

VARIABLE revoked

mcVars == <<vars, revoked>>

MCInit == Init /\ revoked = FALSE
MCNext ==
  /\ Next
  /\ revoked' =
       \/ revoked /\ ~(\E arrived \in SUBSET Requests, loaded \in MaybeUser :
                         Relaunch(arrived, loaded))
       \/ \E saved \in BOOLEAN : ForcedSignOut(saved)

MCSpec == MCInit /\ [][MCNext]_mcVars
MCFairSpec == MCSpec /\ Fairness

-----------------------------------------------------------------------------
(* Until a token is revoked, a spinning LoginView has a reason to stop:      *)
(* LoginService.logUserIn never calls back on success, so only the failed    *)
(* reply or the change of screen can end the spinner.                        *)
SpinnerHasCauseUnrevoked == ~revoked => SpinnerHasCause
=============================================================================
