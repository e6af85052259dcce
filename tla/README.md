# ToDoList: a TLA+ model of the app and of what it relies on

ToDoList is a SwiftUI application (about 1650 lines under
`src/ToDoList/ToDoList`) on top of Firebase: FirebaseAuth holds the accounts and
the current user, Firestore the user documents, Storage the profile pictures.
Its own logic is thin; what is hard is how it strings together three services
that answer asynchronously, each with its own idea of who is signed in. The
Firebase clients are vendored in `src/ToDoList/Pods`, so their behaviour is
modelled from their source too, as far as the app depends on it.

## 1. Inventory

Paths are relative to `src/ToDoList/ToDoList`; the clients' are under
`src/ToDoList/Pods`.

| Component | State | Operations | What makes it correct |
|---|---|---|---|
| SessionStore, HomeView, SceneDelegate | published `session`, listener handle | `listen` on every appearance; the body chooses CategoryView or LoginView | the session follows Auth's current user in spite of several listeners and concurrent changes; the screen follows the session |
| FirebaseAuth (`FIRAuth.m`, `FIRUser.m`) | current user, keychain copy, last notified token, observers | signIn, createUser, signOut, forced sign-out, token refresh, updateEmail | every change is posted; listeners filter by uid |
| LoginService, LoginView | spinner, call in flight | Login; the callback runs on error only | a spinner always has a cause that ends it |
| RegistrationService, RegistrationView | the call in flight | account, picture, URL, document, in that order | no document before its picture, no success before everything is stored, no orphan account |
| CategoryView, UserViewModel | document listener of one user | Sign Out; a new view model at each drawing | shows the session's user, and its newest document |
| UserProfileView | fields, spinner, alert, the view model passed in | Open, Back, typing, the email switch, Update Info, answers | spinner, alert and fields belong to the one call under way |
| UserViewModel's updates | updates in flight | address, names, picture | document and account agree; the right account is changed; success is honest |
| ResetPasswordView, ResetPasswordService | field, spinner, alert | Reset, answers, Back | "Success!" is only said of an address that was mailed to |
| Firestore writes (`sync_engine.cc`, `local_store.cc`) | mutation queue per user (LevelDB), completions (memory) | setData, answers, refusals, resends, credential change | completions exactly once while the process lives; order of writes kept |
| Write stream (`remote_store.cc`, `stream.cc`, the credentials provider) | stream state, token, pipeline, three queues | token, handshake, writes, answers, errors, backoff, idleness, user change | writes go out under their user's token; answers find their write; nothing stays unsent |
| Watch stream, OnlineStateTracker | stream, targets, online state, timer | listen, open, snapshots, errors, idleness, time-out | Online only over an open stream; listeners are served |
| Document listener (`local_store.cc`, `view.cc`, `query_listener.cc`) | cached document, target, view, listeners | snapshots, answers, local writes, user change | view models show one document, never an older one, and catch up |
| Storage client | a task per call | putData, downloadURL | effect or error |

Interaction. The main thread runs views and completions; FIRAuth works on a
serial queue of its own and posts notifications to the main queue; Firestore
works on a third, the worker queue, and posts completions and snapshots to the
main queue. A notification reaches both SessionStore's listeners (which read the
current user again) and Firestore's credentials provider (which uses the uid that
was captured when it was posted). Nothing else tells the parts who is signed in,
except that `UserViewModel` reads `Auth.auth().currentUser` whenever it needs it.

Hard behaviours: interleavings of those three queues, calls that survive the view
that made them (Back cancels nothing), calls that fail after their effect, a
process killed between two steps with writes left in LevelDB, writes resent by a
new stream, two streams that are not ordered with each other, completions that
never come. `PROJECT.json` lists them as hazards, each at its line.

## 2. Modules

    ObservedUser            abstract: a lagging view of a changing value
      ^ implemented by
    AuthSession             FIRAuth + SessionStore + HomeView + Login
      MCAuthSession           instances            AuthSession_proofs

    SetDataPromise          abstract: what setData promises its caller
      ^ implemented by
    FirestoreClient         EXTENDS FirestoreWrites: the most general caller
      MCFirestoreWrites       instances            FirestoreClient_proofs
    FirestoreWrites         the write path: a component
                                                   FirestoreWrites_proofs
      Registration          EXTENDS FirestoreWrites: the four steps
                                                   Registration_proofs
      ProfileUpdates        EXTENDS FirestoreWrites: the three updates
                                                   ProfileUpdates_proofs

    WriteStream             Auth's tokens, the provider, the write stream
      MCWriteStream           instances            WriteStream_proofs
    WatchStream             the watch stream and the online state
    DocumentListener        local store, view, listeners of a document
      MCDocumentListener      instances            Listening_proofs (of both)

    ProfileForm             UserProfileView and its view model
    ResetPassword           ResetPasswordView and its service
      Forms                 both forms under HomeView's choice of screen
                                                   Forms_proofs

**AuthSession.** `mainQ` is the main queue with three kinds of block: `Note` (a
posted change), `First(l)` (the first invocation that registering a listener
dispatches) and `Reply(r, ok)` (the completion of a call). `calling` is the
position inside one notification, so that the current user may change between
two listeners. `heard[l]` is `previousUserID` of
`addAuthStateDidChangeListener`. `session` and `dirty` are the published value
and "published since the body last ran"; `Render` is `HomeView.body` with
`onAppear`, which SwiftUI may or may not fire when the branch changes (both are
explored). `screen.owner` is the user to whose document the new `UserViewModel`
listens. `request` are calls in flight; `live` says whether the LoginView that
made a call still exists. A sign-in response, a token refresh, a forced sign-out
are steps of Auth's queue; `Relaunch` kills the process at any moment,
and a registration in flight may or may not have reached the server, the
keychain may or may not be readable. MCAuthSession adds `revoked`, whether a
token was revoked in this launch.

**ObservedUser.** The promise of `SessionStore`: `session` only ever takes the
value that the current user has at that moment, and catches up.

**FirestoreWrites.** `queue[u]` is the mutation queue of user `u` in LevelDB,
`fsUser` is `SyncEngine::current_user_`, `waiting[u]` is `mutation_callbacks_[u]`.
`responses` are answers on their way for the front of the current queue;
`ServerStores` appends one, also for a write it applied before. `StreamBreaks`
loses them, so the same writes are sent again. `HandleResponse` is
`HandleSuccessfulWrite`/`HandleRejectedWrite` with `NotifyUser`. `credQ` are
Auth's notifications with their captured uid; `CredentialChange` swaps queues and
restarts the stream.

**FirestoreClient, SetDataPromise.** `outcome[w]` is what the caller of write `w`
was told. The promise is that a completion runs at most once, without error only
after the server took the write, and that a write reported as failed is not taken
afterwards; a relaunch forgets completions, not writes.

**Registration.** `attempt[a].step` is the point that the nested completions of
`createUser` have reached. A step that answers with an error may have had its
effect (`StepFails` from "created", "stored"). `silent` is a `guard ... else
{ return }` that tells nobody, `killed` an attempt whose process died. The account
signs in before `createUser`'s completion runs (`SignIn`, then `StartUpload` once the
notification has been delivered). Logins of others are in flight independently.

**ProfileUpdates.** `op[o]` is one tap on Update Info. An address goes through
document, completion (which reads the current user into `target`),
`ChangeAddress` on the server, and a sign-out of whoever is signed in then, which
may throw and is caught ("silent"). A picture goes through upload, URL, document. Nothing but the spinner forbids a
second update, and Back leaves the spinner, so updates overlap.

In the last two modules the session is one step (`Observe`: a notification
reaches Firestore and SessionStore, HomeView redraws); that the real protocol
settles is what AuthSession shows. Completions and notifications come to the main
queue separately there, because Firestore's own queue may lag behind.

**WriteStream.** `main` and `worker` are the two queues in order, with notices of
a new user, replies to token requests, tokens, credential changes and writes as
blocks. `counter` is the provider's `token_counter_`: a reply whose counter is old is
turned into an error. A token for a stream that was closed since is ignored
(`closes` is `close_count_`). `stream` is a record: state of `Stream`,
token, handshake, number of writes sent, idle timer. `pipeline` holds the owners of
the writes in `write_pipeline_`.

**WatchStream.** `listening` is `listen_targets_`, `tracker` the
`OnlineStateTracker` with the number of its running timers, so that a timer started
twice is seen.

**DocumentListener.** `history` are the server's versions of one document. Each
field of a document names the write that set it, which is how values are told from
older ones. `Local` overlays the cached document with the mutation queue;
`Change`, `Changed` and `Emit` are `View::ComputeDocumentChanges`,
`ApplyChanges` and `QueryListener::OnViewSnapshot`. Watch snapshots and answers come
in any order, watch may repeat itself or lag, and MCDocumentListener lets the network
go away for good (`net`). The bound is one document: the app's only query is for
one.

**ProfileForm, ResetPassword, Forms.** The `@State` of each form as a record, a
call of ResetPassword as the step it has reached and whether the form that made it
was `left`. A call of ProfileForm also has what it saves, which is what its kind of
update carries (`Carried`), and its two ends that tell nobody: "leaves", an address
changed and the user signed out, and "lost", of which nothing will be heard.
`vm` is the `UserViewModel` that CategoryView passes, which is replaced
whenever HomeView's body runs. Forms puts them together: what draws CategoryView
takes the reset form away, and a crash (`user!` of a view model without
user) ends the calls of both.

## 3. Runs

| Run | Instance | Shows |
|---|---|---|
| `session` | 2 accounts with revocable tokens, 2 calls, 2 listeners, queue posts up to 2 | `SessionConverges`, `SpinnerHasCauseUnrevoked`, `ImplementsObservedUser` with its liveness, `ScreenFollows` |
| `writes` | 2 users and nobody, 2 writes, 1 credential change on its way | `AwaitedIsQueued`, `OkMeansLanded`, `CalledBackOnce`, `NoStaleOverwrite`, `KeepsPromise` (refinement), `QueueDrains` |
| `registration` | 2 addresses, 2 attempts, 2 notifications | `DocumentAfterImage`, `SuccessIsComplete`, `AttemptEnds` |
| `orphan_account` | 1 attempt | **violated** `AccountsComplete` |
| `profile` | 1 user and nobody, one update of each kind, all overlapping | `AuthFollowsDocument`, `UrlWasStored`, `SuccessIsLanded`, `UpdateEnds` |
| `email_split`, `email_of_other` | 2 users, 1 address update | **violated** `EmailsAgree`, `OnlyOwnEmail` |
| `document` | 2 users or 2 view models, 2 writes, 2 fields, 3 versions | `UserFollowsView`, `CacheIsVersion`, `NoGoingBack`, `ViewCatchesUp`, `FirstEventComes` |
| `write_stream` | 2 users and nobody, pipeline of 2, 3 pending writes, 2 notices of a change or a refresh, 2 closes | `TokenIsUsers`, `AnswersMatchPipeline`, `AssertsHold`, `NeverWedged`, `WritesKeepTheirUser`, `PendingIsSent` |
| `watch_stream` | 3 targets, 3 user changes | `AssertsHold`, `OnlineMeansOpen`, `ListenersAreServed`, `StateIsLearned` |
| `forms` | 2 users, 2 updates, 1 address, 2 resets | `SpinnerIsCall`, `CallSavesShown`, `FilledFormHasUser`, `SpinnerIsReset`, `SuccessIsMailed`, `SpinnerEnds` |

Why the bounds suffice. The properties are about one user against another, so two
users (and nobody) distinguish all cases. Two listeners show a filter that is
behind another's; two calls in flight a late answer after a sign-out. Two
writes give a resend with one write before the other. Two attempts allow two
addresses at a time and one address twice. The run `profile` takes one user so that
liveness can be checked of three overlapping updates; its safety properties are
proved for every number of users. `MaxQueue` and `MaxCredentials` bound how many
blocks wait on the main queue when another is posted; they are guards of the
posting actions only. In `forms` a second update could be made while the first runs,
were the content not disabled: that is what the part "one call" of `SpinnerIsCall`
is about.

In `document` a write sets one field (`OneFieldEach`), so that two writes can be
of the same field or of different ones; where a second view model listens, one
user writes and there are two versions (`SecondListens`): what it adds is a late
first event. `InOrder` names unused view models and writes in order, a symmetry.
Three versions are one that watch has, one it lags behind, one of an answer. In
`write_stream` the pipeline is shorter (2) than the queue (3), so that it fills; the
real limit is ten. `MaxCloses` bounds how often a stream is lost, and
`MaxChanges` how often the user changes or is refreshed; with both used up and nothing pending the
instance stops, which is why it alone does not check for deadlock.

What the violated runs say:

* `AccountsComplete`: any failure after the account was made leaves an account
  without picture and document, whose address cannot be registered again.
* `EmailsAgree`: Auth refuses an address that the document already has.
* `OnlyOwnEmail`: a sign-in completes between the document write and its
  completion, which then changes the other account.

Seen while reading, and not stated as a property because no doc or test of the
repository promises otherwise:

* An image update writes the names it was given after the upload, over names saved
  meanwhile (`UserViewModel.swift:160`), and replaces the picture at its path
  before the document is written (`:140`); if that fails, the document names a
  picture that is gone.
* The profile form shows the e-mail address among the names and lets it be edited
  there, but an ordinary update carries the names only (`UserProfileView.swift:162`,
  `:181`): an address typed there is not saved, and the user reads "Profile updated
  successfully!". `CallSavesShown` therefore speaks of the fields a call carries.
* A `signOut` that throws after a changed address is caught and printed
  (`UserViewModel.swift:122-126`): no completion and no change of user follows, and
  the spinner runs until Back. `SpinnerEnds` excepts it, like a picture without data
  (`:136`) or URL (`:153`).
* A profile form that stays open over a change of user saves its fields to, and
  reports success for, the new user (`CategoryView.swift:39`,
  `UserProfileView.swift:181-186`).
* CategoryView's view model listens to the document of Auth's user at the moment it
  is made, while HomeView draws for the session's (`CategoryView.swift:15`). When
  they differ, a notification is still queued, which draws HomeView again and makes a
  new view model. It does not if a third overlapping sign-in (of registrations left
  with Back) returns to the uid heard last before it is delivered: the filter of `addAuthStateDidChangeListener` holds the redraw back, and
  the screen of one user keeps listening to the document of another.
* A snapshot without data, or a refused listen, leaves the old user on the screen
  (`UserViewModel.swift:92-95`).
* The reset message lacks the address it was meant to name
  (`ResetPasswordView.swift:52-54`; `Succeeds` clears it first as the code does).

## 4. Fairness

* `WF(MainBlock)`, `WF(Observe)`, `WF(DocumentAnswered)`, `WF(RunCallback)`: the
  main run loop drains its queue. `WF(Client)` in `write_stream`: so do all three
  queues and the timers.
* `SF(Draw)`: between two blocks the run loop redraws what was published; a steady
  stream of blocks does not starve the drawing.
* `WF(Respond(r))`, `SF(Responds(a))`, `WF(Answers(c))`: every call answers or times
  out (URLSession and GTMSessionFetcher have timeouts). Strong in the modules where
  a step waits for room or for an earlier notification: the main queue is first in,
  first out, so later notifications cannot keep a completion back. In `forms` it
  is asked only while the user stays the same; what happens otherwise is
  ProfileUpdates'.
* `WF` of the Firestore server, `SF(HandleResponse)`: the stream may break any number
  of times, but not each time before an answer is handled. Firestore retries
  without limit, so an app that is offline for ever is the case excluded; `document`
  does not exclude it (`net`), and `FirstEventComes` holds there too.
* `SF(SnapshotOfLatest)`, `SF(AnswerHandled)` of `document`: the same for the two
  streams while there is a network.
* `WF(OnlineStateTimeout)` in `watch_stream`: the ten-second timer of
  `OnlineStateTracker` fires. Nothing is asked of the network.
* None for the user's taps, for failures, revocations, or a relaunch.

No property assumes that a user returns: a write of a user who never signs in
again stays in LevelDB, which is why `AttemptEnds` and `UpdateEnds` except a
stranded write.

## 5. Proofs

Each theorem holds for every value of the constants that satisfies the `ASSUME`s of
its module: sets of users, writes, view models of any size, any bounds. The
assumptions only say that names of different kinds differ (`NoUser \notin Users`,
`Missing \notin Contents`: that there is no document is not a document),
that bounds are numbers, and in Registration, ProfileUpdates and FirestoreClient
that a document can carry the name of the call that wrote it (`WriteIds \subseteq Values`;
in FirestoreClient also that it has fields at all, or all documents would be equal).

* **AuthSession_proofs**: `TypeCorrect`, `SessionConvergence`, `SpinnerStops`,
  `ObservesCurrentUser`. `SessionConverges` is not inductive: a delivered
  notification may reach a listener whose filter holds it back. `ConvergeInv` adds
  that every registered listener has heard the current user or is about to be
  called (`WillHear`), and that the session is what some listener heard last
  (`Told`). Each action leaves this alone, posts, or calls a listener.
  `SpinnerStops` has the hypothesis `Revocable = {}`: a revocation right after a
  good login leaves a spinner without cause. `SpinnerStopsUnrevoked` does without it,
  for MCAuthSession: it speaks of the states before the first revocation of a launch.
  Both rest on the same three lemmas, `SpinnerInit`, `SpinnerLaunch`, `SpinnerStep`.
  `ObservesCurrentUser` is the safety
  part of the refinement of ObservedUser.
* **FirestoreWrites_proofs, FirestoreClient_proofs**: what every operation of the
  component keeps (typing, `QueuedOnce`, `ResponsesMatch`: an answer belongs to
  the front of the current queue), as lemmas for whoever extends it. `ClientInv`
  relates the three places a write can be: in a queue it is known, answered it
  was asked for, awaited it is queued. From it `HandlersHaveWrites`,
  `SuccessHasLanded`, `DispatchedOnce`, and `ClientKeepsPromise`: every step is
  one of SetDataPromise or a stutter. `SuccessStays` is about the order of all calls
  ever made (`issued`). `OrderInv` says that each queue is a run of the calls of its
  user in that order (`QueueInOrder`) and up to the last one (`QueueIsSuffix`), so that
  everything older than what waits has been answered; and that no document that a
  write was granted for holds an older one (`GrantedIsFresh`). The last part is about
  granted writes, not about those reported: that is what a resend keeps.
* **Registration_proofs**: `DocumentsAfterImages`, `SuccessComplete`. A document
  may be written long after its attempt died, by a queue of a former launch, when
  the address could have been taken again. `OneActive` (one live attempt for each
  account), `QueuedFits` and `LandedFits` (what is queued or landed is the document of
  an attempt that got that far, and nobody else will write it) exclude it.
* **ProfileUpdates_proofs**: `AuthAfterDocument`, `UrlsWereStored`, `SuccessLanded`.
  `UrlFits` follows a picture's name through the update, the queued write and the
  document; `Kept` collects what no step takes back, so that facts about other
  updates survive a step with one lemma.
* **WriteStream_proofs**: `NoForeignToken`, `AnswersFindTheirWrite`,
  `WritesStayWithUser`. A token is asked for on one queue, read on the second, used
  on the third. `UserAt` says who the user will be when the queue is worked off up to a
  position; `TokensFollow`, `WritesFollow`, `RequestsFollow`, `RepliesFollow` say
  that each block on its way is of that user or will be refused by its counter.
  `StreamAsserts` and `StreamNeverWedged` need a second layer, `Going`, which is
  inductive only with the first. A stream that starts waits for a token, and what
  wedges it is to lose that token, or to be given two. The token's way is its
  ticket: a request with FIRAuth, a reply on the main queue or a token on the worker
  queue that bears the stream's `closes`. `Tickets` says that a starting stream has
  exactly one and that no ticket is of a stream to come; `GoesOn` that pending writes
  keep the stream started and that only an open stream with nothing to send is idle.
* **Listening_proofs**: of WatchStream `TrackerAssertsHold`, `OnlineIsConnected`,
  `ListenersHaveStream`, by `TimerHasStream`: while the timer runs the stream is
  started or being retried. Of DocumentListener `ListenerTypes`, `CacheHoldsVersion`,
  `UsersFollowView`. That a current target without its document means "missing" is
  sound by `StreamFits` and `TargetFits`: a stream or resume token past a version
  of the document has it among its keys. Documents under any number of mutations
  are typed by induction over the queue, as a smallest counterexample in the
  well-founded order of the naturals.
  `ShownOnlyForward` (`NoGoingBack`) is about the ages of values, and what has to be
  inductive is that a value which was shown may still have been shown: `Fits` says that
  it is refused, on its way in a queue, or cleared, that is, the cache is at a
  version no older than one that had it, and has a value of the same or of a newer
  version. That is kept (`FitsStay`) because overwritten values do not come back: between
  two versions that have a value, all have it from the cached version on (`Settled`), and
  from the version of its answer on for a write whose answer is on its way
  (`AnswersLand`). Only a write that is resent is exempt, and it is still queued. Answers
  come in the order of their versions, all after one that the cache was computed
  from (`AnswersAhead`), so an answer that finds the cache ahead finds a version
  that watch brought. `SeenInv` ties what was shown last to the view. What fits is no
  newer than what the local store has now (`FitsAge`), and that is what is shown next.
* **Forms_proofs**: `SpinnerFollowsCall`, `ShownIsSaved`, `FilledFormKeepsUser`,
  `SpinnerFollowsReset`, `SuccessWasMailed`. The spinners are toggled, never set, so
  each fact needs the others: that the spinner runs means that the content is
  disabled, hence that a form has one call, hence that its completion toggles the
  spinner off. `UserIsHeard` (a view model shows the document it listens to),
  `FormIsShown` (an open form lies on the screen that is drawn), `OneIsAwaited` and
  `MailedIsMailed` complete them. Every step of both forms is one of ProfileForm's or a
  stutter (`FormsStepIsProfileStep`), so the profile form is proved about alone.

Every invariant and action property that a passing run checks is the subject of a
theorem. Only model-checked: all liveness (fairness and ENABLED are out of the prover's
reach).

## 6. Abstractions

Names, addresses, pictures and documents are model values; a document write
bears the name of the call that made it, so that a document tells who wrote it.
Validation of text fields is "blank or not"; lower-casing, the wording of alerts
and logging are left out. Firestore's client is taken to exist from launch (the app
makes it at first use). The refresh of a token is posted like a change, to
SessionStore's listeners (AuthSession), which filter it out, and to the credentials
provider (WriteStream, WatchStream), where it counts and restarts the streams; in
Registration and ProfileUpdates all it could do is what `StreamBreaks` does. A user of
Auth is a uid: an account that changed its address is still the same user.

Firestore is modelled three times at different grain, each time with only what
the properties need. FirestoreWrites has queues and completions of several documents
and a stream that just answers or breaks; WriteStream has the stream and no
documents; DocumentListener has one document with watch and no completions. What
ties them is checked in the finer one: WriteStream's `AnswersMatchPipeline` and
`WritesKeepTheirUser` are what lets the other two take an answer for the front of
the current user's queue; WatchStream's `ListenersAreServed` and `StateIsLearned` are
what DocumentListener's fairness assumes.

## 7. Not modelled, and what is left

* Third-party code below those interfaces (gRPC, BoringSSL, LevelDB, abseil,
  SDWebImage): the great bulk of the repository's lines. The app reaches it only
  through the clients modelled here, and their transport and storage are
  exactly what the failures of the models (a stream that breaks, a call that fails with or
  without effect, what survives a relaunch) stand for.
* Firestore's queries over collections, limits, transactions, garbage collection and
  existence filters: the app reads one document by its path and writes with setData.
  The limbo listen of that document is left out, it brings the same document.
* The image picker and the app shell (no state of the app's), the user
  model's dictionaries (no state), AddCategoryView (a stub: this version has
  no to-do items), RegistrationView's fields and spinner (as LoginView's).

Left to do, in this order:

1. A refinement from WriteStream to FirestoreWrites' stream, so that section 6's
   argument becomes a checked one.
2. The whole app: AuthSession with Registration and ProfileUpdates on one main queue.
3. Storage's resumable upload with its backoff and cancellation.
