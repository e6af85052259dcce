------------------------- MODULE ProfileUpdates_proofs -------------------------
(***************************************************************************)
(* Proofs about ProfileUpdates for any users and updates: the runs check   *)
(* the liveness with one user, these theorems hold for any number of them. *)
(***************************************************************************)
EXTENDS ProfileUpdates, FirestoreWrites_proofs

-----------------------------------------------------------------------------
(* The inductive invariant.  Whatever bears the name of a picture, a URL in  *)
(* the hand of an update, in a queued write or in a document, names one that *)
(* was uploaded for the same user, whose picture is an uploaded one since.   *)
UrlFits(x, u) ==
  /\ x \in ImageOps
  /\ op[x].step # "idle" /\ op[x].user = u
  /\ images[u] \in ImageOps

AppTypeOK ==
  /\ emails \in [Users -> Values]
  /\ images \in [Users -> Values]
  /\ current \in MaybeUser
  /\ signingIn \subseteq Users
  /\ shown \in MaybeUser
  /\ op \in [Ops -> Op]

(* What an update has behind it at each step.                                *)
OpFits(o) ==
  /\ op[o].step # "idle" => op[o].user \in Users
  /\ op[o].step \in {"upload", "stored", "url"} => o \in ImageOps
  /\ op[o].step = "stored" => images[op[o].user] \in ImageOps
  /\ op[o].step = "url" => UrlFits(op[o].url, op[o].user)
  /\ op[o].step \in {"auth", "changed"} => o \in EmailOps
  /\ op[o].step \in {"auth", "changed", "done"} => o \in landed
  /\ o \in EmailOps /\ op[o].step \in {"auth", "changed", "done"} => op[o].target \in Users
  /\ o \in EmailOps /\ op[o].step \in {"changed", "done"} => emails[op[o].target] \in EmailOps

AccountFits(u) ==
  /\ emails[u] = u \/ (emails[u] \in EmailOps /\ emails[u] \in landed)
  /\ images[u] = u \/ UrlFits(images[u], u)
WriteFits(w) == w.merge = TRUE /\ (w.data.url = Absent \/ UrlFits(w.data.url, w.doc))
DocumentFits(u) == docs[u].url = u \/ UrlFits(docs[u].url, u)

Inv ==
  /\ FsInv
  /\ AppTypeOK
  /\ \A o \in Ops : OpFits(o)
  /\ \A u \in Users : AccountFits(u) /\ DocumentFits(u)
  /\ \A w \in Write : Queued(w) => WriteFits(w)

(* What no step takes back.                                                  *)
Kept ==
  /\ \A o \in Ops : op[o].step # "idle" => op'[o].step # "idle" /\ op'[o].user = op[o].user
  /\ \A u \in Users : images[u] \in ImageOps => images'[u] \in ImageOps
  /\ \A u \in Users : emails[u] \in EmailOps => emails'[u] \in EmailOps
  /\ landed \subseteq landed'

LEMMA KeptUrl ==
  ASSUME Kept, NEW x, NEW u \in Users, UrlFits(x, u)
  PROVE  UrlFits(x, u)'
BY DEF Kept, UrlFits, Ops

(* What a step leaves alone still fits.                                      *)
LEMMA KeptFacts ==
  ASSUME Inv, Kept
  PROVE  /\ \A o \in Ops : op'[o] = op[o] => OpFits(o)'
         /\ \A u \in Users : emails'[u] = emails[u] /\ images'[u] = images[u] => AccountFits(u)'
         /\ \A w \in Write : Queued(w) => WriteFits(w)'
         /\ \A u \in Users : docs'[u] = docs[u] => DocumentFits(u)'
<1>1. \A x : \A u \in Users : UrlFits(x, u) => UrlFits(x, u)'
  BY KeptUrl
<1>2. ASSUME NEW o \in Ops, op'[o] = op[o] PROVE OpFits(o)'
  <2>1. OpFits(o)
    BY DEF Inv
  <2> QED BY <1>1, <1>2, <2>1 DEF OpFits, Kept
<1>3. ASSUME NEW u \in Users, emails'[u] = emails[u], images'[u] = images[u] PROVE AccountFits(u)'
  BY <1>1, <1>3 DEF Inv, AccountFits, Kept
<1>4. ASSUME NEW w \in Write, Queued(w) PROVE WriteFits(w)'
  BY <1>1, <1>4 DEF Inv, WriteFits, Write
<1>5. ASSUME NEW u \in Users, docs'[u] = docs[u] PROVE DocumentFits(u)'
  BY <1>1, <1>5 DEF Inv, DocumentFits
<1> QED BY <1>2, <1>3, <1>4, <1>5

-----------------------------------------------------------------------------
LEMMA InitInv == Init => Inv
<1> SUFFICES ASSUME Init PROVE Inv
  OBVIOUS
<1> DEFINE first == [u \in Users |-> [f \in Fields |-> u]]
<1>1. first \in [Users -> Document] /\ NoUser \in MaybeUser
  BY ProfileAssumption DEF Document, MaybeUser
<1>2. FsInit(NoUser, first)
  BY DEF Init
<1>3. FsInv /\ \A w : ~Queued(w)
  BY <1>1, <1>2, FsInitFacts
<1>4. docs = first
  BY <1>2 DEF FsInit
<1>5. AppTypeOK
  BY <1>1, ProfileAssumption DEF Init, AppTypeOK, Idle, Op, Steps
<1>6. \A o \in Ops : op[o].step = "idle"
  BY DEF Init, Idle
<1>7. \A o \in Ops : OpFits(o)
  BY <1>6 DEF OpFits
<1>8. \A u \in Users : AccountFits(u) /\ DocumentFits(u)
  BY <1>4, ProfileAssumption DEF Init, AccountFits, DocumentFits
<1> QED BY <1>3, <1>5, <1>7, <1>8 DEF Inv

(* One update moves on, with what its step did to the accounts and pictures. *)
LEMMA MoveInv ==
  ASSUME Inv, FsInv', AppTypeOK', Kept, NEW o \in Ops,
         \A p \in Ops : p # o => op'[p] = op[p],
         OpFits(o)', \A u \in Users : AccountFits(u)',
         UNCHANGED docs,
         \A w \in Write : Queued(w)' => Queued(w) \/ WriteFits(w)'
  PROVE  Inv'
<1>1. \A p \in Ops : OpFits(p)'
  BY KeptFacts
<1>2. \A u \in Users : DocumentFits(u)'
  BY KeptFacts
<1>3. \A w \in Write : Queued(w)' => WriteFits(w)'
  BY KeptFacts
<1> QED BY <1>1, <1>2, <1>3 DEF Inv

(* A step that leaves updates, accounts and pictures alone.                  *)
LEMMA RestInv ==
  ASSUME Inv, FsInv', current' \in MaybeUser, shown' \in MaybeUser, signingIn' \subseteq Users,
         UNCHANGED <<docs, landed, emails, images, op>>,
         \A w : Queued(w)' => Queued(w)
  PROVE  Inv'
<1>1. Kept
  BY DEF Kept
<1>2. AppTypeOK'
  BY DEF Inv, AppTypeOK
<1>3. \A p \in Ops : OpFits(p)'
  BY <1>1, KeptFacts
<1>4. \A u \in Users : AccountFits(u)' /\ DocumentFits(u)'
  BY <1>1, KeptFacts
<1>5. \A w \in Write : Queued(w)' => WriteFits(w)'
  BY <1>1, KeptFacts
<1> QED BY <1>2, <1>3, <1>4, <1>5 DEF Inv
(* A tap on Update Info starts an update that was idle, for a user.          *)
LEMMA BeginFacts ==
  ASSUME Inv, NEW o \in Ops, NEW to \in Steps, to # "idle", Begins(o, to)
  PROVE  /\ shown \in Users
         /\ op' \in [Ops -> Op]
         /\ op'[o].user = shown /\ op'[o].step = to
         /\ op[o].step = "idle"
         /\ \A p \in Ops : p # o => op'[p] = op[p]
<1>1. shown \in MaybeUser /\ shown # NoUser /\ op \in [Ops -> Op]
  BY DEF Inv, AppTypeOK, Begins
<1>2. shown \in Users
  BY <1>1 DEF MaybeUser
<1> DEFINE new == [Idle EXCEPT !.user = shown, !.step = to]
<1>3. new.user = shown /\ new.step = to
  BY DEF Idle
<1>4. op' = [op EXCEPT ![o] = new] /\ op[o].step = "idle"
  BY DEF Begins
<1>5. new \in Op
  BY <1>1 DEF Idle, Op, MaybeUser
<1> HIDE DEF new
<1>6. op' \in [Ops -> Op] /\ op'[o] = new /\ \A p \in Ops : p # o => op'[p] = op[p]
  BY <1>1, <1>4, <1>5
<1> QED BY <1>2, <1>3, <1>4, <1>6

(* The write of a merge.                                                     *)
LEMMA MergeFacts ==
  ASSUME FsInv, NEW o \in Ops, NEW u \in Users, NEW data, Merge(o, u, data),
         \A f \in Fields \cap DOMAIN data : data[f] \in Values \cup {Absent}
  PROVE  /\ FsInv'
         /\ UNCHANGED <<docs, landed, fsUser, credQ, callbacks>>
         /\ \A w : Queued(w)' =>
              \/ Queued(w)
              \/ /\ w.doc = u /\ w.merge = TRUE
                 /\ w.data.url = IF "url" \in DOMAIN data THEN data["url"] ELSE Absent
<1> DEFINE d == [f \in Fields |-> IF f \in DOMAIN data THEN data[f] ELSE Absent]
           new == [id |-> o, doc |-> u, merge |-> TRUE, data |-> d]
<1>1. d \in Document
  BY DEF Document
<1>2. d["url"] = IF "url" \in DOMAIN data THEN data["url"] ELSE Absent
  BY ProfileAssumption
<1> HIDE DEF d
<1>3. new \in Write
  BY <1>1, ProfileAssumption DEF Write
<1>4. SetData(new)
  BY DEF Merge, d
<1>5. new.doc = u /\ new.merge = TRUE /\ new.data = d
  OBVIOUS
<1> HIDE DEF new
<1> QED BY <1>2, <1>3, <1>4, <1>5, SetDataFacts

LEMMA TapInv ==
  ASSUME Inv, NEW o \in Ops, TapEmail(o) \/ TapInfo(o) \/ TapImage(o)
  PROVE  Inv'
<1>1. UNCHANGED <<emails, images, session>>
  BY DEF TapEmail, TapInfo, TapImage
<1>2. PICK to \in {"doc", "upload", "silent"} : Begins(o, to) /\ (to = "upload" => o \in ImageOps)
  BY DEF TapEmail, TapInfo, TapImage
<1>3. to \in Steps /\ to # "idle"
  BY DEF Steps
<1>4. /\ shown \in Users
      /\ op' \in [Ops -> Op]
      /\ op'[o].user = shown /\ op'[o].step = to
      /\ op[o].step = "idle"
      /\ \A p \in Ops : p # o => op'[p] = op[p]
  BY <1>2, <1>3, BeginFacts
<1>5. /\ FsInv' /\ UNCHANGED <<docs, landed>>
      /\ \A w : Queued(w)' => Queued(w) \/ (w.merge = TRUE /\ w.data.url = Absent)
  <2>1. CASE TapEmail(o)
    <3> DEFINE data == [email |-> o]
    <3>1. Merge(o, shown, data)
      BY <2>1 DEF TapEmail
    <3>2. \A f \in Fields \cap DOMAIN data : data[f] \in Values \cup {Absent}
      BY ProfileAssumption
    <3>3. "url" \notin DOMAIN data
      OBVIOUS
    <3> HIDE DEF data
    <3>4. shown \in Users /\ FsInv
      BY <1>4 DEF Inv
    <3>5. /\ FsInv' /\ UNCHANGED <<docs, landed>>
          /\ \A w : Queued(w)' =>
               \/ Queued(w)
               \/ /\ w.doc = shown /\ w.merge = TRUE
                  /\ w.data.url = IF "url" \in DOMAIN data THEN data["url"] ELSE Absent
      BY <3>1, <3>2, <3>4, MergeFacts
    <3> QED BY <3>3, <3>5
  <2>2. CASE TapInfo(o)
    <3> DEFINE data == [name |-> o]
    <3>1. Merge(o, shown, data)
      BY <2>2 DEF TapInfo
    <3>2. \A f \in Fields \cap DOMAIN data : data[f] \in Values \cup {Absent}
      BY ProfileAssumption
    <3>3. "url" \notin DOMAIN data
      OBVIOUS
    <3> HIDE DEF data
    <3>4. shown \in Users /\ FsInv
      BY <1>4 DEF Inv
    <3>5. /\ FsInv' /\ UNCHANGED <<docs, landed>>
          /\ \A w : Queued(w)' =>
               \/ Queued(w)
               \/ /\ w.doc = shown /\ w.merge = TRUE
                  /\ w.data.url = IF "url" \in DOMAIN data THEN data["url"] ELSE Absent
      BY <3>1, <3>2, <3>4, MergeFacts
    <3> QED BY <3>3, <3>5
  <2>3. CASE TapImage(o)
    <3>1. UNCHANGED fsVars
      BY <2>3 DEF TapImage
    <3> QED BY <3>1, StillFacts DEF Inv, fsVars, Queued
  <2> QED BY <2>1, <2>2, <2>3
<1>6. AppTypeOK'
  BY <1>1, <1>4 DEF Inv, AppTypeOK, session
<1>7. Kept
  BY <1>1, <1>4, <1>5 DEF Kept
<1>8. OpFits(o)'
  BY <1>2, <1>4 DEF OpFits
<1>9. \A u \in Users : AccountFits(u)'
  BY <1>1, <1>7, KeptFacts
<1>10. \A w \in Write : Queued(w)' => Queued(w) \/ WriteFits(w)'
  BY <1>5 DEF WriteFits
<1> QED BY <1>4, <1>5, <1>6, <1>7, <1>8, <1>9, <1>10, MoveInv

(* An update takes one step on, and keeps its user.                          *)
LEMMA StepFacts ==
  ASSUME Inv, NEW o \in Ops, NEW to \in Steps, op' = [op EXCEPT ![o].step = to]
  PROVE  /\ op' \in [Ops -> Op]
         /\ op'[o].step = to /\ op'[o].user = op[o].user
         /\ op'[o].target = op[o].target /\ op'[o].url = op[o].url
         /\ \A p \in Ops : p # o => op'[p] = op[p]
BY DEF Inv, AppTypeOK, Op

(* The picture and its URL.                                                  *)
LEMMA ImageInv ==
  ASSUME Inv, NEW o \in Ops, StoreImage(o) \/ AskUrl(o) \/ StepFails(o)
  PROVE  Inv'
<1>1. /\ FsInv' /\ UNCHANGED <<docs, landed, emails, session>>
      /\ \A w : Queued(w)' => Queued(w)
  <2>1. UNCHANGED <<fsVars, emails, session>>
    BY DEF StoreImage, AskUrl, StepFails
  <2> QED BY <2>1, StillFacts DEF Inv, fsVars, Queued
<1>2. /\ op \in [Ops -> Op] /\ emails \in [Users -> Values] /\ images \in [Users -> Values]
      /\ OpFits(o)
  BY DEF Inv, AppTypeOK
<1>3. "stored" \in Steps /\ "failed" \in Steps /\ "url" \in Steps
  BY DEF Steps
<1>4. /\ Users \cap Ops = {} /\ Ops \subseteq Values /\ ImageOps \subseteq Ops
      /\ o \in ImageOps => o \notin EmailOps
  BY ProfileAssumption DEF Ops
<1>5. CASE StoreImage(o)
  <2>1. /\ op[o].step = "upload" /\ op' = [op EXCEPT ![o].step = "stored"]
        /\ images' = [images EXCEPT ![op[o].user] = o]
    BY <1>5 DEF StoreImage, Moves
  <2>2. op[o].user \in Users /\ o \in ImageOps
    BY <1>2, <2>1 DEF OpFits
  <2>3. /\ op' \in [Ops -> Op]
        /\ op'[o].step = "stored" /\ op'[o].user = op[o].user
        /\ \A p \in Ops : p # o => op'[p] = op[p]
    BY <1>3, <2>1, StepFacts
  <2>4. /\ images' \in [Users -> Values] /\ images'[op[o].user] = o
        /\ \A u \in Users : u # op[o].user => images'[u] = images[u]
    BY <1>2, <1>4, <2>1, <2>2
  <2>5. AppTypeOK'
    BY <1>1, <2>3, <2>4 DEF Inv, AppTypeOK, session
  <2>6. Kept
    BY <1>1, <2>1, <2>2, <2>3, <2>4 DEF Kept
  <2>7. OpFits(o)'
    BY <1>4, <2>2, <2>3, <2>4 DEF OpFits
  <2>8. \A u \in Users : AccountFits(u)'
    <3> SUFFICES ASSUME NEW u \in Users PROVE AccountFits(u)'
      OBVIOUS
    <3>1. CASE u = op[o].user
      <4>1. AccountFits(u)
        BY DEF Inv
      <4> QED BY <1>1, <2>2, <2>3, <2>4, <3>1, <4>1 DEF AccountFits, UrlFits
    <3>2. CASE u # op[o].user
      BY <1>1, <2>4, <2>6, <3>2, KeptFacts
    <3> QED BY <3>1, <3>2
  <2> QED BY <1>1, <2>3, <2>5, <2>6, <2>7, <2>8, MoveInv
<1>6. CASE AskUrl(o)
  <2>1. /\ op[o].step = "stored" /\ UNCHANGED images
        /\ op' = [op EXCEPT ![o].step = "url", ![o].url = images[op[o].user]]
    BY <1>6 DEF AskUrl
  <2>2. PICK u \in Users : u = op[o].user
    BY <1>2, <2>1 DEF OpFits
  <2>3. PICK x \in ImageOps : x = images[u]
    BY <1>2, <2>1, <2>2 DEF OpFits
  <2>4. /\ op' \in [Ops -> Op]
        /\ op'[o].step = "url" /\ op'[o].user = u /\ op'[o].url = x
        /\ \A p \in Ops : p # o => op'[p] = op[p]
    BY <1>2, <1>3, <1>4, <2>1, <2>2, <2>3 DEF Op
  <2>5. AppTypeOK'
    BY <1>1, <2>1, <2>4 DEF Inv, AppTypeOK, session
  <2>6. Kept
    BY <1>1, <2>1, <2>2, <2>4 DEF Kept
  <2>7. UrlFits(x, u)
    <3>1. AccountFits(u)
      BY DEF Inv
    <3> QED BY <1>4, <2>3, <3>1 DEF AccountFits
  <2>8. UrlFits(x, u)'
    BY <2>6, <2>7, KeptUrl
  <2>9. OpFits(o)'
    <3>1. o \in ImageOps
      BY <1>2, <2>1 DEF OpFits
    <3> QED BY <2>4, <2>8, <3>1 DEF OpFits
  <2>10. \A v \in Users : AccountFits(v)'
    BY <1>1, <2>1, <2>6, KeptFacts
  <2> QED BY <1>1, <2>4, <2>5, <2>6, <2>9, <2>10, MoveInv
<1>7. CASE StepFails(o)
  <2>1. /\ op[o].step \in {"upload", "stored"} /\ op' = [op EXCEPT ![o].step = "failed"]
        /\ UNCHANGED images
    BY <1>7 DEF StepFails, Moves
  <2>2. /\ op' \in [Ops -> Op]
        /\ op'[o].step = "failed" /\ op'[o].user = op[o].user
        /\ \A p \in Ops : p # o => op'[p] = op[p]
    BY <1>3, <2>1, StepFacts
  <2>3. AppTypeOK'
    BY <1>1, <2>1, <2>2 DEF Inv, AppTypeOK, session
  <2>4. Kept
    BY <1>1, <2>1, <2>2 DEF Kept
  <2>5. OpFits(o)'
    BY <1>2, <2>1, <2>2 DEF OpFits
  <2>6. \A u \in Users : AccountFits(u)'
    BY <1>1, <2>1, <2>4, KeptFacts
  <2> QED BY <1>1, <2>2, <2>3, <2>4, <2>5, <2>6, MoveInv
<1> QED BY <1>5, <1>6, <1>7
(* The document with the URL: that of a picture of the document's user.      *)
LEMMA WriteInv ==
  ASSUME Inv, NEW o \in Ops, WriteWithUrl(o)
  PROVE  Inv'
<1>1. /\ op[o].step = "url" /\ op' = [op EXCEPT ![o].step = "doc"]
      /\ Merge(o, op[o].user, [name |-> o, url |-> op[o].url])
      /\ UNCHANGED <<emails, images, session>>
  BY DEF WriteWithUrl, Moves
<1>2. OpFits(o)
  BY DEF Inv
<1>3. PICK u \in Users : u = op[o].user
  BY <1>1, <1>2 DEF OpFits
<1>4. PICK x : x = op[o].url
  OBVIOUS
<1>5. o \in ImageOps /\ UrlFits(x, u)
  BY <1>1, <1>2, <1>3, <1>4 DEF OpFits
<1>6. o \in Values /\ x \in Values /\ o \notin EmailOps
  BY <1>5, ProfileAssumption DEF UrlFits, Ops
<1> DEFINE data == [name |-> o, url |-> x]
<1>7. Merge(o, u, data)
  BY <1>1, <1>3, <1>4
<1>8. \A f \in Fields \cap DOMAIN data : data[f] \in Values \cup {Absent}
  BY <1>6
<1>9. "url" \in DOMAIN data /\ data["url"] = x
  OBVIOUS
<1> HIDE DEF data
<1>10. /\ FsInv' /\ UNCHANGED <<docs, landed>>
       /\ \A w : Queued(w)' =>
            \/ Queued(w)
            \/ /\ w.doc = u /\ w.merge = TRUE
               /\ w.data.url = IF "url" \in DOMAIN data THEN data["url"] ELSE Absent
  <2>1. FsInv
    BY DEF Inv
  <2> QED BY <1>7, <1>8, <2>1, MergeFacts
<1>11. /\ op' \in [Ops -> Op]
       /\ op'[o].step = "doc" /\ op'[o].user = u
       /\ \A p \in Ops : p # o => op'[p] = op[p]
  <2>1. "doc" \in Steps
    BY DEF Steps
  <2> QED BY <1>1, <1>3, <2>1, StepFacts
<1>12. AppTypeOK'
  BY <1>1, <1>11 DEF Inv, AppTypeOK, session
<1>13. Kept
  BY <1>1, <1>3, <1>10, <1>11 DEF Kept
<1>14. OpFits(o)'
  BY <1>6, <1>11 DEF OpFits
<1>15. \A v \in Users : AccountFits(v)'
  BY <1>1, <1>13, KeptFacts
<1>16. UrlFits(x, u)'
  BY <1>5, <1>13, KeptUrl
<1>17. \A w \in Write : Queued(w)' => Queued(w) \/ WriteFits(w)'
  BY <1>9, <1>10, <1>16 DEF WriteFits
<1> QED BY <1>10, <1>11, <1>12, <1>13, <1>14, <1>15, <1>17, MoveInv

(* The document's completion: an address goes on with some user.             *)
LEMMA AnsweredInv ==
  ASSUME Inv, DocumentAnswered
  PROVE  Inv'
<1> DEFINE c == Head(callbacks)
           next == IF ~c.ok THEN "failed"
                   ELSE IF c.id \notin EmailOps THEN "done"
                   ELSE IF current = NoUser THEN "silent" ELSE "auth"
           user == IF next = "auth" THEN current ELSE NoUser
<1>1. FsInv' /\ UNCHANGED <<docs, landed, queue>>
  BY TakeFacts DEF Inv, DocumentAnswered
<1>2. c \in Callback
  BY TakeFacts DEF Inv, DocumentAnswered
<1>3. c.ok => c.id \in landed
  BY TakeFacts DEF Inv, DocumentAnswered
<1>4. /\ op[c.id].step = "doc"
      /\ op' = [op EXCEPT ![c.id].step = next, ![c.id].target = user]
      /\ UNCHANGED <<emails, images, session>>
  BY DEF DocumentAnswered
<1>5. current \in MaybeUser /\ NoUser \in MaybeUser /\ op \in [Ops -> Op]
  BY DEF Inv, AppTypeOK, MaybeUser
<1>6. /\ next \in Steps \ {"idle", "upload", "stored", "url", "changed"} /\ user \in MaybeUser
      /\ next \in {"auth", "done"} => c.ok
      /\ next = "auth" => c.id \in EmailOps /\ user \in Users
      /\ next = "done" => c.id \notin EmailOps
  BY <1>5 DEF Steps, MaybeUser
<1> HIDE DEF next, user
<1>7. PICK o \in Ops : o = c.id
  BY <1>2, ProfileAssumption DEF Callback
<1>8. /\ op' \in [Ops -> Op]
      /\ op'[o].step = next /\ op'[o].target = user /\ op'[o].user = op[o].user
      /\ \A p \in Ops : p # o => op'[p] = op[p]
  BY <1>4, <1>5, <1>6, <1>7 DEF Op
<1> HIDE DEF c
<1>9. AppTypeOK'
  BY <1>4, <1>8 DEF Inv, AppTypeOK, session
<1>10. Kept
  BY <1>1, <1>4, <1>6, <1>8 DEF Kept
<1>11. OpFits(o)'
  <2>1. op[o].user \in Users
    BY <1>4, <1>7 DEF Inv, OpFits
  <2> QED BY <1>1, <1>3, <1>6, <1>7, <1>8, <2>1 DEF OpFits
<1>12. \A v \in Users : AccountFits(v)'
  BY <1>4, <1>10, KeptFacts
<1>13. \A w \in Write : Queued(w)' => Queued(w) \/ WriteFits(w)'
  BY <1>1 DEF Queued
<1> QED BY <1>1, <1>8, <1>9, <1>10, <1>11, <1>12, <1>13, MoveInv

(* The account's address.                                                    *)
LEMMA AddressInv ==
  ASSUME Inv, NEW o \in Ops, ChangeAddress(o) \/ AddressChanged(o) \/ AddressFails(o)
  PROVE  Inv'
<1>1. /\ emails \in [Users -> Values] /\ current \in MaybeUser /\ NoUser \in MaybeUser
      /\ OpFits(o) /\ o \in Values
  BY ProfileAssumption DEF Inv, AppTypeOK, MaybeUser
<1>2. {"changed", "done", "failed", "silent"} \subseteq Steps
  BY DEF Steps
<1>3. CASE ChangeAddress(o)
  <2>1. /\ op[o].step = "auth" /\ op' = [op EXCEPT ![o].step = "changed"]
        /\ emails' = [emails EXCEPT ![op[o].target] = o]
        /\ UNCHANGED <<fsVars, images, session>>
    BY <1>3 DEF ChangeAddress, Moves
  <2>2. FsInv' /\ UNCHANGED <<docs, landed, queue>>
    BY <2>1, StillFacts DEF Inv, fsVars
  <2>3. PICK u \in Users : u = op[o].target
    BY <1>1, <2>1 DEF OpFits
  <2>4. o \in EmailOps /\ o \in landed
    BY <1>1, <2>1 DEF OpFits
  <2>5. /\ emails' \in [Users -> Values] /\ emails'[u] = o
        /\ \A v \in Users : v # u => emails'[v] = emails[v]
    BY <1>1, <2>1, <2>3
  <2>6. /\ op' \in [Ops -> Op]
        /\ op'[o].step = "changed" /\ op'[o].user = op[o].user /\ op'[o].target = u
        /\ \A p \in Ops : p # o => op'[p] = op[p]
    BY <1>2, <2>1, <2>3, StepFacts
  <2>7. AppTypeOK'
    BY <2>1, <2>5, <2>6 DEF Inv, AppTypeOK, session
  <2>8. Kept
    BY <2>1, <2>2, <2>4, <2>5, <2>6 DEF Kept
  <2>9. OpFits(o)'
    BY <1>1, <2>1, <2>2, <2>3, <2>4, <2>5, <2>6 DEF OpFits
  <2>10. ASSUME NEW v \in Users PROVE AccountFits(v)'
    <3>1. CASE v = u
      <4>1. AccountFits(v)
        BY DEF Inv
      <4>2. \A x : UrlFits(x, v) => UrlFits(x, v)'
        BY <2>8, KeptUrl
      <4> QED BY <2>1, <2>2, <2>4, <2>5, <3>1, <4>1, <4>2 DEF AccountFits
    <3>2. CASE v # u
      BY <2>1, <2>5, <2>8, <3>2, KeptFacts
    <3> QED BY <3>1, <3>2
  <2>11. \A w \in Write : Queued(w)' => Queued(w) \/ WriteFits(w)'
    BY <2>2 DEF Queued
  <2> QED BY <2>2, <2>6, <2>7, <2>8, <2>9, <2>10, <2>11, MoveInv
<1>4. CASE AddressChanged(o) \/ AddressFails(o)
  <2>1. PICK to \in {"done", "failed", "silent"} :
          /\ op' = [op EXCEPT ![o].step = to]
          /\ op[o].step \in {"auth", "changed"} /\ (to = "done" => op[o].step = "changed")
    BY <1>4 DEF AddressChanged, AddressFails, Moves
  <2>2. /\ UNCHANGED <<others, emails, images, signingIn, shown>>
        /\ UNCHANGED <<current, credQ>> \/ (current' = NoUser /\ PostCredential(NoUser))
    BY <1>4 DEF AddressChanged, AddressFails, BecomeUser
  <2>3. FsInv' /\ UNCHANGED <<docs, landed, queue>>
    <3>1. FsInv
      BY DEF Inv
    <3>2. CASE UNCHANGED <<current, credQ>>
      BY <2>2, <3>1, <3>2, StillFacts DEF others, fsVars
    <3>3. CASE PostCredential(NoUser)
      BY <1>1, <2>2, <3>1, <3>3, PostFacts DEF others
    <3> QED BY <2>2, <3>2, <3>3
  <2>4. /\ op' \in [Ops -> Op]
        /\ op'[o].step = to /\ op'[o].user = op[o].user /\ op'[o].target = op[o].target
        /\ \A p \in Ops : p # o => op'[p] = op[p]
    BY <1>2, <2>1, StepFacts
  <2>5. AppTypeOK'
    BY <1>1, <2>2, <2>4 DEF Inv, AppTypeOK
  <2>6. Kept
    BY <2>1, <2>2, <2>3, <2>4 DEF Kept
  <2>7. OpFits(o)'
    <3>1. op[o].user \in Users
      BY <1>1, <2>1 DEF OpFits
    <3>2. op[o].step = "changed" => emails[op[o].target] \in EmailOps
      BY <1>1, <2>1 DEF OpFits
    <3>3. op[o].target \in Users /\ o \in landed
      BY <1>1, <2>1 DEF OpFits
    <3> QED BY <2>1, <2>2, <2>3, <2>4, <3>1, <3>2, <3>3 DEF OpFits
  <2>8. \A v \in Users : AccountFits(v)'
    BY <2>2, <2>6, KeptFacts
  <2>9. \A w \in Write : Queued(w)' => Queued(w) \/ WriteFits(w)'
    BY <2>3 DEF Queued
  <2> QED BY <2>3, <2>4, <2>5, <2>6, <2>7, <2>8, <2>9, MoveInv
<1> QED BY <1>3, <1>4
(* The server merges a write into the document.                              *)
LEMMA StoresInv ==
  ASSUME Inv, ServerStores, UNCHANGED app
  PROVE  Inv'
<1>1. FsInv' /\ UNCHANGED <<queue, fsUser, credQ, callbacks>>
  BY StoresFacts DEF Inv
<1>2. PICK w \in Write : /\ Queued(w)
                         /\ docs' = [docs EXCEPT ![w.doc] = Apply(docs[w.doc], w)]
                         /\ landed' = landed \cup {w.id}
  BY StoresFacts DEF Inv
<1>3. UNCHANGED <<emails, images, current, signingIn, shown, op>>
  BY DEF app, session
<1>4. WriteFits(w) /\ w.doc \in Users /\ docs \in [Users -> Document]
  BY <1>2 DEF Inv, Write, FsInv, FsTypeOK
<1>5. AppTypeOK'
  BY <1>3 DEF Inv, AppTypeOK
<1>6. Kept
  BY <1>2, <1>3 DEF Kept
<1>7. \A o \in Ops : OpFits(o)'
  BY <1>3, <1>6, KeptFacts
<1>8. \A u \in Users : AccountFits(u)'
  BY <1>3, <1>6, KeptFacts
<1>9. ASSUME NEW u \in Users PROVE DocumentFits(u)'
  <2>1. CASE u = w.doc
    <3>1. docs'[u] = Apply(docs[u], w)
      BY <1>2, <1>4, <2>1
    <3>2. docs'[u].url = IF w.data.url = Absent THEN docs[u].url ELSE w.data.url
      BY <1>4, <3>1, ProfileAssumption DEF Apply, WriteFits
    <3>3. DocumentFits(u) /\ \A x : UrlFits(x, u) => UrlFits(x, u)'
      BY <1>6, KeptUrl DEF Inv
    <3> QED BY <1>4, <2>1, <3>2, <3>3 DEF DocumentFits, WriteFits
  <2>2. CASE u # w.doc
    <3>1. docs'[u] = docs[u]
      BY <1>2, <1>4, <2>2
    <3> QED BY <1>6, <3>1, KeptFacts
  <2> QED BY <2>1, <2>2
<1>10. \A v \in Write : Queued(v)' => WriteFits(v)'
  BY <1>1, <1>6, KeptFacts DEF Queued
<1> QED BY <1>1, <1>5, <1>7, <1>8, <1>9, <1>10 DEF Inv

(* Over a relaunch what is queued stays, and requests may still arrive.      *)
LEMMA RelaunchInv ==
  ASSUME Inv, NEW arrived \in SUBSET Ops, Relaunch(arrived)
  PROVE  Inv'
<1> DEFINE ea == CHOOSE o \in arrived : op[o].step = "auth"
           im == CHOOSE o \in arrived : op[o].step = "upload"
<1>1. /\ \A o, p \in arrived : op[o].step = op[p].step => o = p
      /\ FsRelaunch(current)
      /\ emails' = [u \in Users |->
           IF \E o \in arrived : op[o].step = "auth" /\ op[o].target = u THEN ea ELSE emails[u]]
      /\ images' = [u \in Users |->
           IF \E o \in arrived : op[o].step = "upload" /\ op[o].user = u THEN im ELSE images[u]]
      /\ shown' = current /\ signingIn' = {} /\ current' = current
      /\ op' = [o \in Ops |->
           IF op[o].step \in Ended \cup {"idle"} THEN op[o]
           ELSE [op[o] EXCEPT !.step = "killed"]]
  BY DEF Relaunch
<1>2. /\ current \in MaybeUser /\ op \in [Ops -> Op]
      /\ emails \in [Users -> Values] /\ images \in [Users -> Values]
  BY DEF Inv, AppTypeOK
<1>3. FsInv' /\ UNCHANGED <<docs, landed, queue>>
  BY <1>1, <1>2, RelaunchFacts DEF Inv
<1>4. \A u \in Users : \/ emails'[u] = emails[u]
                       \/ /\ emails'[u] \in arrived /\ op[emails'[u]].step = "auth"
  <2>1. \A o \in arrived : op[o].step = "auth" => ea \in arrived /\ op[ea].step = "auth"
    OBVIOUS
  <2> HIDE DEF ea
  <2> QED BY <1>1, <2>1
<1>5. \A u \in Users : \/ images'[u] = images[u]
                       \/ /\ images'[u] \in arrived /\ op[images'[u]].step = "upload"
                          /\ op[images'[u]].user = u
  <2>1. \A o \in arrived : op[o].step = "upload" => im \in arrived /\ op[im].step = "upload"
    OBVIOUS
  <2> HIDE DEF im
  <2>2. \A o \in arrived : op[o].step = "upload" => o = im
    BY <1>1, <2>1
  <2> QED BY <1>1, <2>1, <2>2
<1> HIDE DEF ea, im
<1>6. /\ op' \in [Ops -> Op]
      /\ \A o \in Ops : \/ op'[o] = op[o]
                        \/ /\ op'[o].step = "killed" /\ op'[o].user = op[o].user
                           /\ op[o].step # "idle"
  BY <1>1, <1>2 DEF Op, Steps
<1>7. \A o \in Ops : op[o].step = "auth" => o \in EmailOps /\ o \in landed
  BY DEF Inv, OpFits
<1>8. \A o \in Ops : op[o].step = "upload" => o \in ImageOps
  BY DEF Inv, OpFits
<1>9. Ops \subseteq Values
  BY ProfileAssumption
<1>10. AppTypeOK'
  <2>1. emails' \in [Users -> Values]
    BY <1>1, <1>2, <1>4, <1>9
  <2>2. images' \in [Users -> Values]
    BY <1>1, <1>2, <1>5, <1>9
  <2> QED BY <1>1, <1>2, <1>6, <2>1, <2>2 DEF Inv, AppTypeOK
<1>11. Kept
  BY <1>3, <1>4, <1>5, <1>6, <1>7, <1>8 DEF Kept
<1>12. ASSUME NEW o \in Ops PROVE OpFits(o)'
  <2>1. CASE op'[o] = op[o]
    BY <1>11, <2>1, KeptFacts
  <2>2. CASE op'[o].step = "killed" /\ op'[o].user = op[o].user /\ op[o].step # "idle"
    <3>1. op[o].user \in Users
      BY <2>2 DEF Inv, OpFits
    <3> QED BY <2>2, <3>1 DEF OpFits
  <2> QED BY <1>6, <2>1, <2>2
<1>13. ASSUME NEW u \in Users PROVE AccountFits(u)' /\ DocumentFits(u)'
  <2>1. AccountFits(u) /\ \A x : UrlFits(x, u) => UrlFits(x, u)'
    BY <1>11, KeptUrl DEF Inv
  <2>2. (emails[u] = u \/ (emails[u] \in EmailOps /\ emails[u] \in landed))'
    BY <1>3, <1>4, <1>7, <2>1 DEF AccountFits
  <2>3. images'[u] = u \/ UrlFits(images[u], u)'
    <3>1. CASE images'[u] = images[u]
      BY <2>1, <3>1 DEF AccountFits, UrlFits
    <3>2. CASE images'[u] # images[u]
      <4>1. PICK x \in arrived : x = images'[u] /\ op[x].step = "upload" /\ op[x].user = u
        BY <1>5, <3>2
      <4>2. x \in ImageOps /\ op'[x].step # "idle" /\ op'[x].user = u
        BY <1>6, <1>8, <4>1
      <4> QED BY <4>1, <4>2 DEF UrlFits
    <3> QED BY <3>1, <3>2
  <2>4. DocumentFits(u)'
    BY <1>3, <1>11, KeptFacts
  <2> QED BY <2>2, <2>3, <2>4 DEF AccountFits
<1>14. \A w \in Write : Queued(w)' => WriteFits(w)'
  BY <1>3, <1>11, KeptFacts DEF Queued
<1> QED BY <1>3, <1>10, <1>12, <1>13, <1>14 DEF Inv

LEMMA NextInv ==
  ASSUME Inv, [Next]_vars
  PROVE  Inv'
<1> USE DEF others, session, app
<1>1. /\ current \in MaybeUser /\ shown \in MaybeUser /\ signingIn \subseteq Users
      /\ NoUser \in MaybeUser /\ Users \subseteq MaybeUser
  BY DEF Inv, AppTypeOK, MaybeUser
<1>2. ASSUME NEW o \in Ops, TapEmail(o) \/ TapInfo(o) \/ TapImage(o) PROVE Inv'
  BY <1>2, TapInv
<1>3. ASSUME NEW o \in Ops, Responds(o) PROVE Inv'
  BY <1>3, ImageInv, WriteInv, AddressInv DEF Responds
<1>4. CASE DocumentAnswered
  BY <1>4, AnsweredInv
<1>5. CASE Observe
  <2>1. FsInv' /\ UNCHANGED <<docs, landed, queue>>
    BY <1>5, CredentialFacts DEF Inv, Observe
  <2> QED BY <1>1, <1>5, <2>1, RestInv DEF Observe, Queued
<1>6. CASE SignOut
  <2>1. FsInv'
    BY <1>1, <1>6, PostFacts DEF Inv, SignOut, BecomeUser
  <2> QED BY <1>1, <1>6, <2>1, RestInv DEF SignOut, BecomeUser, Queued
<1>7. ASSUME NEW u \in Users, LogInSucceeds(u) PROVE Inv'
  <2>1. FsInv'
    BY <1>1, <1>7, PostFacts DEF Inv, LogInSucceeds, BecomeUser
  <2> QED BY <1>1, <1>7, <2>1, RestInv DEF LogInSucceeds, BecomeUser, Queued
<1>8. ASSUME NEW u \in Users, TapLogIn(u) \/ LogInFails(u) PROVE Inv'
  <2>1. UNCHANGED <<fsVars, emails, images, current, shown, op>> /\ signingIn' \subseteq Users
    BY <1>1, <1>8 DEF TapLogIn, LogInFails
  <2>2. FsInv'
    BY <2>1, StillFacts DEF Inv
  <2> QED BY <1>1, <2>1, <2>2, RestInv DEF fsVars, Queued
<1>9. ASSUME NEW arrived \in SUBSET Ops, Relaunch(arrived) PROVE Inv'
  BY <1>9, RelaunchInv
<1>10. CASE Internal
  <2>1. CASE ServerStores
    BY <1>10, <2>1, StoresInv DEF Internal
  <2>2. CASE ServerDenies \/ StreamBreaks
    <3>1. FsInv' /\ UNCHANGED <<docs, landed, queue>>
      BY <2>2, DeniesFacts DEF Inv
    <3> QED BY <1>1, <1>10, <3>1, RestInv DEF Internal, Queued
  <2>3. CASE HandleResponse
    <3>1. FsInv' /\ UNCHANGED <<docs, landed>> /\ \A w : Queued(w)' => Queued(w)
      BY <2>3, HandleFacts DEF Inv
    <3> QED BY <1>1, <1>10, <3>1, RestInv DEF Internal
  <2> QED BY <1>10, <2>1, <2>2, <2>3 DEF Internal, FsInternal
<1>11. CASE UNCHANGED vars
  <2>1. FsInv'
    BY <1>11, StillFacts DEF Inv, vars
  <2> QED BY <1>1, <1>11, <2>1, RestInv DEF vars, fsVars, Queued
<1> QED
  BY <1>2, <1>3, <1>4, <1>5, <1>6, <1>7, <1>8, <1>9, <1>10, <1>11 DEF Next

-----------------------------------------------------------------------------
(* The updates of UserViewModel keep the inductive invariant, however they   *)
(* overlap, whoever is signed in when, and whenever the process is killed.   *)
THEOREM ProfileInvariant == Spec => []Inv
<1>1. Init => Inv
  BY InitInv
<1>2. Inv /\ [Next]_vars => Inv'
  BY NextInv
<1> QED BY <1>1, <1>2, PTL DEF Spec

(* The state of the updates and of the services keeps its type.              *)
THEOREM ProfileTypes == Spec => []TypeOK
<1>1. Inv => TypeOK
  BY DEF Inv, FsInv, AppTypeOK, TypeOK
<1> QED BY <1>1, ProfileInvariant, PTL

(* An account has a new address only when some document had it before.       *)
THEOREM AuthAfterDocument == Spec => []AuthFollowsDocument
<1>1. Inv => AuthFollowsDocument
  BY ProfileAssumption DEF Inv, AccountFits, AuthFollowsDocument, Ops
<1> QED BY <1>1, ProfileInvariant, PTL

(* A document's URL names a picture that was uploaded for its own user.      *)
THEOREM UrlsWereStored == Spec => []UrlWasStored
<1>1. Inv => UrlWasStored
  BY DEF Inv, DocumentFits, UrlFits, UrlWasStored
<1> QED BY <1>1, ProfileInvariant, PTL

(* Success is reported only for what the servers have taken.                 *)
THEOREM SuccessLanded == Spec => []SuccessIsLanded
<1>1. Inv => SuccessIsLanded
  <2> SUFFICES ASSUME Inv, NEW o \in Ops, op[o].step = "done"
               PROVE  o \in landed /\ (o \in EmailOps => emails[op[o].target] # op[o].target)
    BY DEF SuccessIsLanded
  <2>1. OpFits(o)
    BY DEF Inv
  <2>2. Users \cap EmailOps = {}
    BY ProfileAssumption DEF Ops
  <2> QED BY <2>1, <2>2 DEF OpFits
<1> QED BY <1>1, ProfileInvariant, PTL
=============================================================================
