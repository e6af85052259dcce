---------------------------- MODULE SetDataPromise ----------------------------
(***************************************************************************)
(* What DocumentReference.setData promises its caller, whatever becomes of *)
(* the network, the signed-in user and the process: the completion runs at *)
(* most once, without an error only after the server took the write, and   *)
(* a write that was reported as failed is not taken afterwards.  A         *)
(* relaunch forgets every completion but not the writes.                   *)
(***************************************************************************)
CONSTANT WriteIds
VARIABLES outcome, landed

pvars == <<outcome, landed>>

Outcome == {"new", "asked", "ok", "failed", "forgotten"}

Init == outcome = [w \in WriteIds |-> "new"] /\ landed = {}

Call(w) ==
  /\ outcome[w] = "new"
  /\ outcome' = [outcome EXCEPT ![w] = "asked"]
  /\ UNCHANGED landed

(* The server takes a write that nobody was told about yet.                  *)
Land(w) ==
  /\ outcome[w] \in {"asked", "forgotten"}
  /\ landed' = landed \cup {w}
  /\ UNCHANGED outcome

Tell(w) ==
  /\ outcome[w] = "asked"
  /\ \/ w \in landed /\ outcome' = [outcome EXCEPT ![w] = "ok"]
     \/ outcome' = [outcome EXCEPT ![w] = "failed"]
  /\ UNCHANGED landed

Forget ==
  /\ outcome' = [w \in WriteIds |->
                   IF outcome[w] = "asked" THEN "forgotten" ELSE outcome[w]]
  /\ UNCHANGED landed

Next == Forget \/ \E w \in WriteIds : Call(w) \/ Land(w) \/ Tell(w)

Spec == Init /\ [][Next]_pvars
=============================================================================
