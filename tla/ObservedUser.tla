----------------------------- MODULE ObservedUser -----------------------------
(***************************************************************************)
(* What SessionStore promises: `session' is a view of FIRAuth's current    *)
(* user that may lag behind it, takes only values the current user has at  *)
(* that moment, and catches up when the current user stays.                *)
(***************************************************************************)
CONSTANT Values
VARIABLES current, session

ovars == <<current, session>>

Init == current \in Values /\ session = current

(* Auth changes the user. *)
Change == current' \in Values /\ UNCHANGED session

(* A listener looks. *)
Observe == session' = current /\ UNCHANGED current

(* A new launch begins with both equal (SessionStore.swift:15). *)
Restart == current' \in Values /\ session' = current'

Next == Change \/ Observe \/ Restart

SafeSpec == Init /\ [][Next]_ovars
Spec == SafeSpec /\ WF_ovars(Observe)
=============================================================================
