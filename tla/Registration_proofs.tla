-------------------------- MODULE Registration_proofs --------------------------
(***************************************************************************)
(* Proofs about Registration for any users, attempts and fields.           *)
(***************************************************************************)
EXTENDS Registration, FirestoreWrites_proofs

-----------------------------------------------------------------------------
(* The inductive invariant.  An address registers at most once, so that at   *)
(* most one attempt is beyond the account for each user; what waits in a     *)
(* queue, perhaps since a former launch, is the document of that attempt,    *)
(* and nobody else will write it.                                            *)
Active == {"created", "signedIn", "upload", "stored", "url", "doc", "done"}
WithImage == {"stored", "url", "doc", "done"}
Written == {"doc", "done", "failed", "killed"}

AppTypeOK ==
  /\ accounts \subseteq Users
  /\ images \subseteq accounts
  /\ current \in MaybeUser
  /\ signingIn \subseteq Users
  /\ shown \in MaybeUser
  /\ attempt \in [Attempts -> Attempt]
  /\ \A a \in Attempts : attempt[a].step # "idle" => attempt[a].user \in Users

ActiveHasAccount ==
  \A a \in Attempts : attempt[a].step \in Active => attempt[a].user \in accounts
OneActive ==
  \A a, b \in Attempts :
    /\ attempt[a].step \in Active /\ attempt[b].step \in Active
    /\ attempt[a].user = attempt[b].user
    => a = b
ImageUploaded ==
  \A a \in Attempts : attempt[a].step \in WithImage => attempt[a].user \in images

(* The document of attempt a.                                                *)
DocumentOf(a) == [f \in Fields |-> a]

Fits(w) ==
  /\ attempt[w.id].step \in Written
  /\ attempt[w.id].user = w.doc
  /\ w.doc \in images
  /\ w.data = DocumentOf(w.id) /\ w.merge = FALSE
  /\ \A b \in Attempts : attempt[b].step \in Active /\ attempt[b].user = w.doc => b = w.id
QueuedFits == \A w \in Write : Queued(w) => Fits(w)

LandedFits ==
  \A a \in landed :
    /\ attempt[a].step \in Written
    /\ attempt[a].step \in {"doc", "done"} => docs[attempt[a].user] = DocumentOf(a)
DoneLanded == \A a \in Attempts : attempt[a].step = "done" => a \in landed
DocumentHasImage == \A u \in Users : docs[u] # Missing => u \in images

Inv ==
  /\ FsInv
  /\ AppTypeOK
  /\ ActiveHasAccount
  /\ OneActive
  /\ ImageUploaded
  /\ QueuedFits
  /\ LandedFits
  /\ DoneLanded
  /\ DocumentHasImage

-----------------------------------------------------------------------------
LEMMA InitInv == Init => Inv
<1> SUFFICES ASSUME Init PROVE Inv
  OBVIOUS
<1>1. [u \in Users |-> Missing] \in [Users -> Document] /\ NoUser \in MaybeUser
  BY DEF Missing, Document, MaybeUser
<1>2. FsInv /\ \A w : ~Queued(w)
  BY <1>1, FsInitFacts DEF Init
<1>3. docs = [u \in Users |-> Missing] /\ landed = {}
  BY DEF Init, FsInit
<1>4. AppTypeOK
  BY <1>1 DEF Init, AppTypeOK, Attempt, Steps
<1>5. \A a \in Attempts : attempt[a].step = "idle"
  BY DEF Init
<1>6. ActiveHasAccount /\ OneActive /\ ImageUploaded /\ DoneLanded
  BY <1>5 DEF ActiveHasAccount, OneActive, ImageUploaded, DoneLanded, Active, WithImage
<1>7. QueuedFits /\ LandedFits /\ DocumentHasImage
  BY <1>2, <1>3 DEF QueuedFits, LandedFits, DocumentHasImage
<1> QED BY <1>2, <1>4, <1>6, <1>7 DEF Inv

(* A step that leaves the attempts and what the server has.                  *)
LEMMA RestInv ==
  ASSUME Inv, FsInv', current' \in MaybeUser, shown' \in MaybeUser, signingIn' \subseteq Users,
         UNCHANGED <<docs, landed, accounts, images, attempt>>,
         \A w : Queued(w)' => Queued(w)
  PROVE  Inv'
<1>1. AppTypeOK'
  BY DEF Inv, AppTypeOK
<1>2. QueuedFits'
  BY DEF Inv, QueuedFits, Fits
<1> QED
  BY <1>1, <1>2 DEF Inv, ActiveHasAccount, OneActive, ImageUploaded, LandedFits, DoneLanded,
     DocumentHasImage

(* An attempt moves on, with the effects that its step had on Auth and       *)
(* Storage.                                                                  *)
LEMMA MoveInv ==
  ASSUME Inv, FsInv', NEW a \in Attempts, NEW to \in Steps,
         attempt' = [attempt EXCEPT ![a].step = to],
         UNCHANGED <<docs, landed>>, \A w : Queued(w)' => Queued(w),
         current' \in MaybeUser, UNCHANGED <<shown, signingIn>>,
         attempt[a].step \notin {"idle"} \cup Ended,
         accounts \subseteq accounts', accounts' \subseteq Users,
         images \subseteq images', images' \subseteq accounts',
         attempt[a].step = "doc" => to \in Written,
         to \in Active =>
           /\ attempt[a].user \in accounts'
           /\ attempt[a].step \in Active \/ attempt[a].user \notin accounts,
         to \in WithImage => attempt[a].user \in images',
         to \in {"doc", "done"} => attempt[a].step = "doc",
         to = "done" => a \in landed,
         to # "idle"
  PROVE  Inv'
<1>1. /\ attempt \in [Attempts -> Attempt] /\ attempt' \in [Attempts -> Attempt]
      /\ \A b \in Attempts : attempt'[b].user = attempt[b].user
      /\ \A b \in Attempts : b # a => attempt'[b].step = attempt[b].step
      /\ attempt'[a].step = to
  BY DEF Inv, AppTypeOK, Attempt
<1>2. AppTypeOK'
  BY <1>1 DEF Inv, AppTypeOK
<1>3. ActiveHasAccount'
  BY <1>1 DEF Inv, ActiveHasAccount
<1>4. OneActive'
  <2> SUFFICES ASSUME NEW b \in Attempts, NEW c \in Attempts,
                      attempt'[b].step \in Active, attempt'[c].step \in Active,
                      attempt'[b].user = attempt'[c].user
               PROVE  b = c
    BY DEF OneActive
  <2>1. CASE attempt[a].step \in Active
    BY <1>1, <2>1 DEF Inv, OneActive
  <2>2. CASE attempt[a].step \notin Active
    BY <1>1, <2>2 DEF Inv, OneActive, ActiveHasAccount
  <2> QED BY <2>1, <2>2
<1>5. ImageUploaded'
  BY <1>1 DEF Inv, ImageUploaded
<1>6. QueuedFits'
  <2> SUFFICES ASSUME NEW w \in Write, Queued(w) PROVE Fits(w)'
    BY DEF QueuedFits
  <2>1. Fits(w) /\ w.id \in Attempts /\ w.doc \in accounts
    BY DEF Inv, QueuedFits, Fits, Write, Attempts, AppTypeOK
  <2>2. attempt'[w.id].step \in Written
    BY <1>1, <2>1 DEF Fits, Written, Ended
  <2>3. \A b \in Attempts : attempt'[b].step \in Active /\ attempt'[b].user = w.doc => b = w.id
    BY <1>1, <2>1 DEF Fits
  <2> QED BY <1>1, <2>1, <2>2, <2>3 DEF Fits
<1>7. LandedFits'
  <2> SUFFICES ASSUME NEW b \in landed
               PROVE  /\ attempt'[b].step \in Written
                      /\ attempt'[b].step \in {"doc", "done"} =>
                           docs[attempt'[b].user] = DocumentOf(b)
    BY DEF LandedFits, DocumentOf
  <2>1. b \in Attempts
    BY DEF Inv, FsInv, FsTypeOK, Attempts
  <2> QED BY <1>1, <2>1 DEF Inv, LandedFits, Written, Ended
<1>8. DoneLanded'
  BY <1>1 DEF Inv, DoneLanded
<1>9. DocumentHasImage'
  BY DEF Inv, DocumentHasImage
<1> QED BY <1>2, <1>3, <1>4, <1>5, <1>6, <1>7, <1>8, <1>9 DEF Inv

(* A new attempt has touched nothing yet.                                    *)
LEMMA RegisterInv ==
  ASSUME Inv, NEW a \in Attempts, NEW u \in Users, TapRegister(a, u)
  PROVE  Inv'
<1>1. /\ attempt[a].step = "idle"
      /\ attempt' = [attempt EXCEPT ![a] = [user |-> u, step |-> "auth"]]
      /\ UNCHANGED <<fsVars, accounts, images, session>>
  BY DEF TapRegister
<1>2. /\ attempt \in [Attempts -> Attempt] /\ attempt' \in [Attempts -> Attempt]
      /\ \A b \in Attempts : b # a => attempt'[b] = attempt[b]
      /\ attempt'[a].step = "auth" /\ attempt'[a].user = u
  BY <1>1 DEF Inv, AppTypeOK, Attempt, Steps, MaybeUser
<1>3. FsInv' /\ UNCHANGED <<docs, landed, queue>>
  BY <1>1, StillFacts DEF Inv, fsVars
<1>4. AppTypeOK'
  BY <1>1, <1>2 DEF Inv, AppTypeOK, session
<1>5. ActiveHasAccount' /\ OneActive' /\ ImageUploaded' /\ DoneLanded' /\ DocumentHasImage'
  BY <1>1, <1>2, <1>3 DEF Inv, ActiveHasAccount, OneActive, ImageUploaded, DoneLanded,
     DocumentHasImage, Active, WithImage
<1>6. QueuedFits'
  <2> SUFFICES ASSUME NEW w \in Write, Queued(w) PROVE Fits(w)'
    BY <1>3 DEF QueuedFits, Queued
  <2>1. Fits(w) /\ w.id \in Attempts
    BY DEF Inv, QueuedFits, Write, Attempts
  <2>2. w.id # a
    BY <1>1, <2>1 DEF Fits, Written
  <2> QED BY <1>1, <1>2, <2>1, <2>2 DEF Fits, Active, DocumentOf
<1>7. LandedFits'
  <2>1. landed \subseteq Attempts
    BY DEF Inv, FsInv, FsTypeOK, Attempts
  <2>2. a \notin landed
    BY <1>1 DEF Inv, LandedFits, Written
  <2> QED BY <1>2, <1>3, <2>1, <2>2 DEF Inv, LandedFits, DocumentOf
<1> QED BY <1>3, <1>4, <1>5, <1>6, <1>7 DEF Inv

(* The document of an attempt is queued: no other attempt is about its user. *)
LEMMA DocumentInv ==
  ASSUME Inv, NEW a \in Attempts, WriteDocument(a)
  PROVE  Inv'
<1> DEFINE new == [id |-> a, doc |-> attempt[a].user, data |-> DocumentOf(a), merge |-> FALSE]
<1>1. /\ attempt[a].step = "url" /\ attempt' = [attempt EXCEPT ![a].step = "doc"]
      /\ SetData(new)
      /\ UNCHANGED <<accounts, images, session>>
  BY DEF WriteDocument, Moves, DocumentOf
<1>2. /\ attempt \in [Attempts -> Attempt] /\ attempt' \in [Attempts -> Attempt]
      /\ \A b \in Attempts : attempt'[b].user = attempt[b].user
      /\ \A b \in Attempts : b # a => attempt'[b].step = attempt[b].step
      /\ attempt'[a].step = "doc"
  BY <1>1 DEF Inv, AppTypeOK, Attempt, Steps
<1>3. attempt[a].user \in Users /\ attempt[a].user \in images /\ attempt[a].user \in accounts
  BY <1>1 DEF Inv, AppTypeOK, ImageUploaded, ActiveHasAccount, Active, WithImage
<1>4. new \in Write /\ new.id = a /\ new.doc = attempt[a].user
      /\ new.data = DocumentOf(a) /\ new.merge = FALSE
  <2>1. DocumentOf(a) \in Document
    BY RegistrationAssumption DEF DocumentOf, Document, Attempts
  <2> QED BY <1>3, <2>1 DEF Write, Attempts
<1> HIDE DEF new
<1>5. /\ FsInv' /\ \A w : Queued(w)' => Queued(w) \/ w = new
      /\ UNCHANGED <<docs, landed, fsUser, credQ, callbacks>>
  BY <1>1, <1>4, SetDataFacts DEF Inv
<1>6. AppTypeOK'
  BY <1>1, <1>2 DEF Inv, AppTypeOK, session
<1>7. ActiveHasAccount' /\ ImageUploaded' /\ DoneLanded' /\ DocumentHasImage'
  BY <1>1, <1>2, <1>3, <1>5 DEF Inv, ActiveHasAccount, ImageUploaded, DoneLanded,
     DocumentHasImage
<1>8. \A b \in Attempts : attempt'[b].step \in Active <=> attempt[b].step \in Active
  BY <1>1, <1>2 DEF Active
<1>9. OneActive'
  BY <1>2, <1>8 DEF Inv, OneActive
<1>10. QueuedFits'
  <2> SUFFICES ASSUME NEW w \in Write, Queued(w) \/ w = new PROVE Fits(w)'
    BY <1>5 DEF QueuedFits
  <2>1. CASE Queued(w)
    <3>1. Fits(w) /\ w.id \in Attempts
      BY <2>1 DEF Inv, QueuedFits, Write, Attempts
    <3>2. w.id # a
      BY <1>1, <3>1 DEF Fits, Written
    <3> QED BY <1>1, <1>2, <1>8, <3>1, <3>2 DEF Fits, DocumentOf
  <2>2. CASE w = new
    <3>1. \A b \in Attempts : attempt[b].step \in Active /\ attempt[b].user = attempt[a].user => b = a
      BY <1>1 DEF Inv, OneActive, Active
    <3> QED BY <1>1, <1>2, <1>3, <1>4, <1>8, <2>2, <3>1 DEF Fits, DocumentOf, Written
  <2> QED BY <2>1, <2>2
<1>11. LandedFits'
  <2>1. landed \subseteq Attempts
    BY DEF Inv, FsInv, FsTypeOK, Attempts
  <2>2. a \notin landed
    BY <1>1 DEF Inv, LandedFits, Written
  <2> QED BY <1>2, <1>5, <2>1, <2>2 DEF Inv, LandedFits, DocumentOf
<1> QED BY <1>5, <1>6, <1>7, <1>9, <1>10, <1>11 DEF Inv

(* The server stores a document, perhaps one of a former launch.             *)
LEMMA StoresInv ==
  ASSUME Inv, ServerStores, UNCHANGED app
  PROVE  Inv'
<1>1. FsInv' /\ UNCHANGED <<queue, fsUser, credQ, callbacks>>
  BY StoresFacts DEF Inv
<1>2. PICK w \in Write : /\ Queued(w)
                         /\ docs' = [docs EXCEPT ![w.doc] = Apply(docs[w.doc], w)]
                         /\ landed' = landed \cup {w.id}
  BY StoresFacts DEF Inv
<1>3. UNCHANGED <<accounts, images, current, signingIn, shown, attempt>>
  BY DEF app, session
<1>4. Fits(w) /\ w.id \in Attempts /\ w.doc \in Users
  BY <1>2 DEF Inv, QueuedFits, Write, Attempts
<1>5. docs \in [Users -> Document] /\ landed \subseteq Attempts
  BY DEF Inv, FsInv, FsTypeOK, Attempts
<1>6. Apply(docs[w.doc], w) = DocumentOf(w.id)
  BY <1>4 DEF Fits, Apply
<1>7. docs'[w.doc] = DocumentOf(w.id) /\ \A u \in Users : u # w.doc => docs'[u] = docs[u]
  BY <1>2, <1>4, <1>5, <1>6
<1>8. AppTypeOK' /\ ActiveHasAccount' /\ OneActive' /\ ImageUploaded'
  BY <1>3 DEF Inv, AppTypeOK, ActiveHasAccount, OneActive, ImageUploaded
<1>9. QueuedFits'
  BY <1>1, <1>3 DEF Inv, QueuedFits, Queued, Fits, DocumentOf
<1>10. LandedFits'
  <2> SUFFICES ASSUME NEW a \in landed'
               PROVE  /\ attempt[a].step \in Written
                      /\ attempt[a].step \in {"doc", "done"} =>
                           docs'[attempt[a].user] = DocumentOf(a)
    BY <1>3 DEF LandedFits, DocumentOf
  <2>1. a \in Attempts
    BY <1>2, <1>4, <1>5
  <2>2. attempt[a].step \in Written
    BY <1>2, <1>4 DEF Inv, LandedFits, Fits
  <2>3. ASSUME attempt[a].step \in {"doc", "done"}
        PROVE  docs'[attempt[a].user] = DocumentOf(a)
    <3>1. CASE a = w.id
      BY <1>4, <1>7, <3>1 DEF Fits
    <3>2. CASE a # w.id
      <4>1. a \in landed /\ docs[attempt[a].user] = DocumentOf(a)
        BY <1>2, <2>3, <3>2 DEF Inv, LandedFits
      <4>2. attempt[a].user # w.doc
        BY <1>4, <2>1, <2>3, <3>2 DEF Fits, Active
      <4>3. attempt[a].user \in Users
        BY <2>1, <2>3 DEF Inv, AppTypeOK
      <4> QED BY <1>7, <4>1, <4>2, <4>3
    <3> QED BY <3>1, <3>2
  <2> QED BY <2>2, <2>3
<1>11. DoneLanded'
  BY <1>2, <1>3 DEF Inv, DoneLanded
<1>12. DocumentHasImage'
  BY <1>3, <1>4, <1>7 DEF Inv, DocumentHasImage, Fits, Missing
<1> QED BY <1>1, <1>8, <1>9, <1>10, <1>11, <1>12 DEF Inv

(* Over a relaunch what is queued stays, and requests may still arrive.      *)
LEMMA RelaunchInv ==
  ASSUME Inv, NEW arrived \in SUBSET Attempts, Relaunch(arrived)
  PROVE  Inv'
<1> DEFINE made == {attempt[a].user : a \in {b \in arrived : attempt[b].step = "auth"}}
           sent == {attempt[a].user : a \in {b \in arrived : attempt[b].step = "upload"}}
<1>1. /\ FsRelaunch(current)
      /\ accounts' = accounts \cup made
      /\ images' = images \cup sent
      /\ shown' = current /\ signingIn' = {} /\ current' = current
      /\ attempt' = [a \in Attempts |->
           IF attempt[a].step \in Ended \cup {"idle"} THEN attempt[a]
           ELSE [attempt[a] EXCEPT !.step = "killed"]]
  BY DEF Relaunch
<1>2. current \in MaybeUser /\ attempt \in [Attempts -> Attempt]
  BY DEF Inv, AppTypeOK
<1>3. FsInv' /\ UNCHANGED <<docs, landed, queue>>
  BY <1>1, <1>2, RelaunchFacts DEF Inv
<1>4. /\ attempt' \in [Attempts -> Attempt]
      /\ \A a \in Attempts : attempt'[a].user = attempt[a].user
      /\ \A a \in Attempts : attempt'[a].step = attempt[a].step \/ attempt'[a].step = "killed"
      /\ \A a \in Attempts : attempt[a].step = "idle" => attempt'[a].step = "idle"
  BY <1>1, <1>2 DEF Attempt, Steps
<1>5. made \subseteq Users /\ sent \subseteq accounts
  BY DEF Inv, AppTypeOK, ActiveHasAccount, Active
<1> HIDE DEF made, sent
<1>6. AppTypeOK'
  BY <1>1, <1>2, <1>4, <1>5 DEF Inv, AppTypeOK
<1>7. ActiveHasAccount' /\ OneActive' /\ ImageUploaded' /\ DoneLanded' /\ DocumentHasImage'
  BY <1>1, <1>3, <1>4 DEF Inv, ActiveHasAccount, OneActive, ImageUploaded, DoneLanded,
     DocumentHasImage, Active, WithImage
<1>8. QueuedFits'
  <2> SUFFICES ASSUME NEW w \in Write, Queued(w) PROVE Fits(w)'
    BY <1>3 DEF QueuedFits, Queued
  <2>1. Fits(w) /\ w.id \in Attempts
    BY DEF Inv, QueuedFits, Write, Attempts
  <2>2. attempt'[w.id].step \in Written
    BY <1>4, <2>1 DEF Fits, Written
  <2>3. \A b \in Attempts : attempt'[b].step \in Active /\ attempt'[b].user = w.doc => b = w.id
    BY <1>4, <2>1 DEF Fits, Active
  <2> QED BY <1>1, <1>4, <2>1, <2>2, <2>3 DEF Fits, DocumentOf
<1>9. LandedFits'
  <2>1. landed \subseteq Attempts
    BY DEF Inv, FsInv, FsTypeOK, Attempts
  <2> QED BY <1>3, <1>4, <2>1 DEF Inv, LandedFits, Written, DocumentOf
<1> QED BY <1>3, <1>6, <1>7, <1>8, <1>9 DEF Inv

(* A service answers an attempt.                                             *)
LEMMA RespondsInv ==
  ASSUME Inv, NEW a \in Attempts, Responds(a)
  PROVE  Inv'
<1>1. /\ accounts \subseteq Users /\ images \subseteq accounts /\ current \in MaybeUser
      /\ attempt[a].step # "idle" => attempt[a].user \in Users
      /\ attempt[a].user \in Users => attempt[a].user \in MaybeUser
  BY DEF Inv, AppTypeOK, MaybeUser
<1>2. CASE CreateAccount(a)
  <2>1. /\ attempt[a].step = "auth" /\ attempt[a].user \notin accounts
        /\ attempt' = [attempt EXCEPT ![a].step = "created"]
        /\ accounts' = accounts \cup {attempt[a].user}
        /\ UNCHANGED <<fsVars, images, session>>
    BY <1>2 DEF CreateAccount, Moves
  <2>2. FsInv' /\ UNCHANGED <<docs, landed>> /\ \A w : Queued(w)' => Queued(w)
    BY <2>1, StillFacts DEF Inv, fsVars, Queued
  <2>3. "created" \in Steps /\ "created" \notin WithImage
    BY DEF Steps, WithImage
  <2> QED BY <1>1, <2>1, <2>2, <2>3, MoveInv DEF session, Ended
<1>3. CASE SignIn(a)
  <2>1. /\ attempt[a].step = "created"
        /\ attempt' = [attempt EXCEPT ![a].step = "signedIn"]
        /\ current' = attempt[a].user /\ PostCredential(attempt[a].user)
        /\ UNCHANGED <<docs, landed, queue, fsUser, waiting, responses, callbacks>>
        /\ UNCHANGED <<accounts, images, signingIn, shown>>
    BY <1>3 DEF SignIn, Moves, BecomeUser, others
  <2>2. FsInv' /\ \A w : Queued(w)' => Queued(w)
    BY <1>1, <2>1, PostFacts DEF Inv, Queued
  <2>3. "signedIn" \in Steps /\ "signedIn" \notin WithImage /\ attempt[a].user \in accounts
    BY <2>1 DEF Steps, WithImage, Inv, ActiveHasAccount, Active
  <2> QED BY <1>1, <2>1, <2>2, <2>3, MoveInv DEF Ended, Active
<1>4. CASE StartUpload(a)
  <2>1. PICK to \in {"upload", "silent"} :
          /\ attempt[a].step = "signedIn"
          /\ attempt' = [attempt EXCEPT ![a].step = to]
          /\ UNCHANGED <<fsVars, accounts, images, session>>
    BY <1>4 DEF StartUpload, Moves
  <2>2. FsInv' /\ UNCHANGED <<docs, landed>> /\ \A w : Queued(w)' => Queued(w)
    BY <2>1, StillFacts DEF Inv, fsVars, Queued
  <2>3. to \in Steps /\ to \notin WithImage /\ attempt[a].user \in accounts
    BY <2>1 DEF Steps, WithImage, Inv, ActiveHasAccount, Active
  <2> QED BY <1>1, <2>1, <2>2, <2>3, MoveInv DEF session, Ended, Active
<1>5. CASE StoreImage(a)
  <2>1. /\ attempt[a].step = "upload"
        /\ attempt' = [attempt EXCEPT ![a].step = "stored"]
        /\ images' = images \cup {attempt[a].user}
        /\ UNCHANGED <<fsVars, accounts, session>>
    BY <1>5 DEF StoreImage, Moves
  <2>2. FsInv' /\ UNCHANGED <<docs, landed>> /\ \A w : Queued(w)' => Queued(w)
    BY <2>1, StillFacts DEF Inv, fsVars, Queued
  <2>3. "stored" \in Steps /\ attempt[a].user \in accounts
    BY <2>1 DEF Steps, Inv, ActiveHasAccount, Active
  <2> QED BY <1>1, <2>1, <2>2, <2>3, MoveInv DEF session, Ended, Active
<1>6. CASE AskUrl(a)
  <2>1. /\ attempt[a].step = "stored"
        /\ attempt' = [attempt EXCEPT ![a].step = "url"]
        /\ UNCHANGED <<fsVars, accounts, images, session>>
    BY <1>6 DEF AskUrl, Moves
  <2>2. FsInv' /\ UNCHANGED <<docs, landed>> /\ \A w : Queued(w)' => Queued(w)
    BY <2>1, StillFacts DEF Inv, fsVars, Queued
  <2>3. "url" \in Steps /\ attempt[a].user \in accounts /\ attempt[a].user \in images
    BY <2>1 DEF Steps, Inv, ActiveHasAccount, Active, ImageUploaded, WithImage
  <2> QED BY <1>1, <2>1, <2>2, <2>3, MoveInv DEF session, Ended, Active
<1>7. CASE WriteDocument(a)
  BY <1>7, DocumentInv
<1>8. CASE StepFails(a)
  <2>1. /\ attempt[a].step \in {"auth", "created", "upload", "stored", "url"}
        /\ attempt' = [attempt EXCEPT ![a].step = "failed"]
        /\ UNCHANGED <<fsVars, accounts, images, session>>
    BY <1>8 DEF StepFails, Moves
  <2>2. FsInv' /\ UNCHANGED <<docs, landed>> /\ \A w : Queued(w)' => Queued(w)
    BY <2>1, StillFacts DEF Inv, fsVars, Queued
  <2>3. "failed" \in Steps /\ "failed" \notin WithImage /\ "failed" \notin Active
    BY DEF Steps, WithImage, Active
  <2> QED BY <1>1, <2>1, <2>2, <2>3, MoveInv DEF session, Ended
<1> QED BY <1>2, <1>3, <1>4, <1>5, <1>6, <1>7, <1>8 DEF Responds

(* The document's completion: without error only if the server has it.       *)
LEMMA AnsweredInv ==
  ASSUME Inv, DocumentAnswered
  PROVE  Inv'
<1>1. FsInv' /\ UNCHANGED <<docs, landed, queue>>
  BY TakeFacts DEF Inv, DocumentAnswered
<1>2. PICK a \in Attempts, to \in {"done", "failed"} :
        /\ attempt[a].step = "doc"
        /\ attempt' = [attempt EXCEPT ![a].step = to]
        /\ to = "done" => a \in landed
        /\ UNCHANGED <<accounts, images, session>>
  <2> DEFINE c == Head(callbacks)
  <2>1. c.ok => c.id \in landed
    BY TakeFacts DEF Inv, DocumentAnswered
  <2>2. c \in Callback
    BY TakeFacts DEF Inv, DocumentAnswered
  <2>3. c.id \in Attempts
    BY <2>2 DEF Callback, Attempts
  <2>4. CASE c.ok
    <3>1. attempt[c.id].step = "doc" /\ attempt' = [attempt EXCEPT ![c.id].step = "done"]
      BY <2>4 DEF DocumentAnswered, Moves
    <3> QED BY <2>1, <2>3, <2>4, <3>1 DEF DocumentAnswered
  <2>5. CASE ~c.ok
    <3>1. attempt[c.id].step = "doc" /\ attempt' = [attempt EXCEPT ![c.id].step = "failed"]
      BY <2>5 DEF DocumentAnswered, Moves
    <3> QED BY <2>3, <3>1 DEF DocumentAnswered
  <2> QED BY <2>4, <2>5
<1>3. \A w : Queued(w)' => Queued(w)
  BY <1>1 DEF Queued
<1>4. /\ attempt[a].user \in accounts /\ attempt[a].user \in images
      /\ accounts \subseteq Users /\ images \subseteq accounts /\ current \in MaybeUser
  BY <1>2 DEF Inv, AppTypeOK, ActiveHasAccount, ImageUploaded, Active, WithImage
<1>5. to \in Steps /\ to \in Written /\ to # "idle"
  BY DEF Steps, Written
<1> QED BY <1>1, <1>2, <1>3, <1>4, <1>5, MoveInv DEF session, Ended, Active

LEMMA NextInv ==
  ASSUME Inv, [Next]_vars
  PROVE  Inv'
<1> USE DEF others, session, app
<1>1. /\ current \in MaybeUser /\ shown \in MaybeUser /\ signingIn \subseteq Users
      /\ NoUser \in MaybeUser /\ Users \subseteq MaybeUser
  BY DEF Inv, AppTypeOK, MaybeUser
<1>2. ASSUME NEW a \in Attempts, NEW u \in Users, TapRegister(a, u) PROVE Inv'
  BY <1>2, RegisterInv
<1>3. ASSUME NEW a \in Attempts, Responds(a) PROVE Inv'
  BY <1>3, RespondsInv
<1>4. CASE DocumentAnswered
  BY <1>4, AnsweredInv
<1>5. CASE Observe
  <2>1. FsInv' /\ UNCHANGED <<docs, landed, queue>>
    BY <1>5, CredentialFacts DEF Inv, Observe
  <2> QED BY <1>1, <1>5, <2>1, RestInv DEF Observe, Queued
<1>6. CASE SignOut
  <2>1. FsInv'
    BY <1>1, <1>6, PostFacts DEF Inv, SignOut, BecomeUser
  <2> QED BY <1>1, <1>6, <2>1, RestInv DEF SignOut, BecomeUser, Queued
<1>7. ASSUME NEW u \in Users, LogInSucceeds(u) PROVE Inv'
  <2>1. FsInv'
    BY <1>1, <1>7, PostFacts DEF Inv, LogInSucceeds, BecomeUser
  <2> QED BY <1>1, <1>7, <2>1, RestInv DEF LogInSucceeds, BecomeUser, Queued
<1>8. ASSUME NEW u \in Users, TapLogIn(u) \/ LogInFails(u) PROVE Inv'
  <2>1. UNCHANGED <<fsVars, accounts, images, current, shown, attempt>> /\ signingIn' \subseteq Users
    BY <1>1, <1>8 DEF TapLogIn, LogInFails
  <2>2. FsInv'
    BY <2>1, StillFacts DEF Inv
  <2> QED BY <1>1, <2>1, <2>2, RestInv DEF fsVars, Queued
<1>9. ASSUME NEW arrived \in SUBSET Attempts, Relaunch(arrived) PROVE Inv'
  BY <1>9, RelaunchInv
<1>10. CASE Internal
  <2>1. CASE ServerStores
    BY <1>10, <2>1, StoresInv DEF Internal
  <2>2. CASE ServerDenies \/ StreamBreaks
    <3>1. FsInv' /\ UNCHANGED <<docs, landed, queue>>
      BY <2>2, DeniesFacts DEF Inv
    <3> QED BY <1>1, <1>10, <3>1, RestInv DEF Internal, Queued
  <2>3. CASE HandleResponse
    <3>1. FsInv' /\ UNCHANGED <<docs, landed>> /\ \A w : Queued(w)' => Queued(w)
      BY <2>3, HandleFacts DEF Inv
    <3> QED BY <1>1, <1>10, <3>1, RestInv DEF Internal
  <2> QED BY <1>10, <2>1, <2>2, <2>3 DEF Internal, FsInternal
<1>11. CASE UNCHANGED vars
  <2>1. FsInv'
    BY <1>11, StillFacts DEF Inv, vars
  <2> QED BY <1>1, <1>11, <2>1, RestInv DEF vars, fsVars, Queued
<1> QED
  BY <1>2, <1>3, <1>4, <1>5, <1>6, <1>7, <1>8, <1>9, <1>10, <1>11 DEF Next

-----------------------------------------------------------------------------
(* createUser keeps the inductive invariant, whatever the user, the servers  *)
(* and a kill of the process do between its steps.                           *)
THEOREM RegistrationInvariant == Spec => []Inv
<1>1. Init => Inv
  BY InitInv
<1>2. Inv /\ [Next]_vars => Inv'
  BY NextInv
<1> QED BY <1>1, <1>2, PTL DEF Spec

(* The state of the registration and of the services keeps its type.         *)
THEOREM RegistrationTypes == Spec => []TypeOK
<1>1. Inv => TypeOK
  BY DEF Inv, FsInv, AppTypeOK, TypeOK
<1> QED BY <1>1, RegistrationInvariant, PTL

(* Never a document without its image, nor an image without its account.     *)
THEOREM DocumentsAfterImages == Spec => []DocumentAfterImage
<1>1. Inv => DocumentAfterImage
  BY DEF Inv, AppTypeOK, DocumentHasImage, DocumentAfterImage
<1> QED BY <1>1, RegistrationInvariant, PTL

(* The caller hears of success only when the account, its image and this     *)
(* attempt's document are on the server, and they stay as they are.          *)
THEOREM SuccessComplete == Spec => []SuccessIsComplete
<1>1. Inv => SuccessIsComplete
  BY DEF Inv, ActiveHasAccount, ImageUploaded, LandedFits, DoneLanded, DocumentOf, Active,
     WithImage, SuccessIsComplete
<1> QED BY <1>1, RegistrationInvariant, PTL
=============================================================================
