-------------------------- MODULE MCDocumentListener --------------------------
(* Small instances of DocumentListener for TLC.  The network may go down for *)
(* good at any moment, also before the first snapshot: `net' tells.          *)
EXTENDS DocumentListener, TLC

CONSTANTS v1, v2, w1, w2, ua

VARIABLE net

mcVars == <<vars, net>>

(* What happens without a network: the app listens and writes, streams break *)
(* or time out, the user changes and the app is launched again.              *)
OfflineNext ==
  \/ \E m \in ViewModels : AddListener(m)
  \/ \E w \in Write : SetData(w)
  \/ WatchStreamBreaks \/ OnlineTimeout \/ WriteStreamBreaks
  \/ \E u \in Users : ChangeUser(u) \/ Relaunch(u)
LoseNetwork == net /\ net' = FALSE /\ UNCHANGED vars

(* View models and writes have no identity of their own: the first one that  *)
(* is used is called v1, or w1.                                              *)
InOrder ==
  /\ phase[v2] # "none" => phase[v1] # "none"
  /\ ~Unused(w2) => ~Unused(w1)

(* Bounds: a write sets one field; where a second view model listens, one    *)
(* user writes and the document has two versions.                            *)
Field(v, f) == IF history[v] = Missing THEN Absent ELSE history[v][f]
OneFieldEach ==
  /\ \A u \in Users : \A i \in 1..Len(queue[u]) : Cardinality(queue[u][i].fields) = 1
  /\ \A v \in 2..Latest :
       Cardinality({f \in Fields : Field(v, f) # Field(v - 1, f)}) < 2
SecondListens ==
  phase[v2] # "none" =>
    Latest < MaxVersions /\ \A u \in Users \ {ua} : fsUser # u /\ queue[u] = <<>>

MCNext ==
  /\ \/ net /\ Next /\ UNCHANGED net
     \/ ~net /\ OfflineNext /\ UNCHANGED net
     \/ LoseNetwork
  /\ (InOrder /\ OneFieldEach /\ SecondListens)'
(* The document does not exist at first; another device may create it before *)
(* this one listens.                                                         *)
MCInit == Init /\ history = <<Missing>> /\ net \in BOOLEAN
MCSpec == MCInit /\ [][MCNext]_mcVars

(* While there is a network the watch stream does not break for ever before  *)
(* it has brought the latest version, and writes are answered and handled.   *)
(* Without one the timers of OnlineStateTracker and of the stream run.  (The *)
(* equalities that come first follow from the actions; TLC finds there early *)
(* that a step is not one of them.)                                          *)
SnapshotOfLatest ==
  /\ net /\ net' = net
  /\ stream' = [has |-> Latest, current |-> TRUE]
  /\ history' = history /\ queue' = queue
  /\ WatchSnapshot(Latest, TRUE)
AnswerHandled ==
  /\ net /\ net' = net
  /\ history' = history /\ stream' = stream
  /\ HandleAnswer
OthersGoOn ==
  /\ net' = net /\ cache' = cache
  /\ IF net THEN ServerCommits \/ ServerRefuses ELSE WatchStreamBreaks \/ OnlineTimeout

FairSpec ==
  /\ MCSpec
  /\ SF_mcVars(SnapshotOfLatest)
  /\ SF_mcVars(AnswerHandled)
  /\ WF_mcVars(OthersGoOn)

(* Whatever order answers, refusals, broken streams, changes of user and     *)
(* relaunches come in, the view keeps returning to the server's document     *)
(* while there is a network: nothing the view waits for                      *)
(* (ShouldWaitForSyncedDocument) or ignores (ApplyRemoteEvent) is lost.      *)
ViewCatchesUp ==
  []<>(~net \/ view = Unknown \/ (queue[fsUser] = <<>> /\ view.doc = history[Latest]))

(* A listener hears something even if the server is never reached: what is   *)
(* cached, or that nothing is.  No listener waits for ever.                  *)
FirstEventComes == []<>(\A m \in ViewModels : phase[m] # "waiting")
=============================================================================
