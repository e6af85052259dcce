----------------------------- MODULE MCWriteStream -----------------------------
(* WriteStream on a small instance, and its liveness.                        *)
EXTENDS WriteStream, TLC

(* The queues and timers run, FIRAuth answers and so does the server, on a   *)
(* stream that stays: MaxCloses also bounds how often one is lost.           *)
FairSpec ==
  /\ Spec
  /\ WF_streamVars(Client)
  /\ WF_streamVars(\E r \in requests : AuthReads(r))
  /\ WF_streamVars(\E r \in requests, owner \in People : AuthReplies(r, owner))
  /\ WF_streamVars(OnWriteStreamHandshakeComplete)

(* A pending write is sent at last, unless the client changes user.          *)
PendingIsSent == queue[user] > 0 ~> (stream.sent > 0 \/ queue[user] = 0)
=============================================================================
