# UnireCycle for iOS: models, checks and proofs

UnireCycle is an iOS app (Swift, UIKit, Firebase) in which students start
recycling challenges, log an action a day, collect points ("SP") for them,
compare themselves on a leaderboard and spend the points on rewards. All state
lives in Firestore documents that every screen reads into memory, changes there
and writes back. There is no server code of its own, no transaction and no
listener: what keeps an account right is only the order in which callbacks,
taps and queued writes happen. That is what this project is about.

Underneath lie two vendored libraries whose behaviour the app leans on without
ever saying so: the Firestore client, which queues, persists and sends the
writes, and Firebase Auth. The write path of the first is modelled from its
source; of the second, the parts the app calls.

Paths below are relative to `src/unirecycle/unirecycle/`; `Pods/` is
`src/unirecycle/Pods/`.

## 1. Inventory

### Components, their state and operations

| component | state | operations | right when |
|---|---|---|---|
| **Account document** `users/<uid>` (`models/Account.swift`, `ViewModels/UserViewModel.swift`) | `activeChallenges`, `completedChallenges`, `coins`; a copy `userViewModel.user` on each device; the writes the Firestore client has queued | `fetchUser`, `updateActiveChallenge`, `updateDaysComplete`, `completeActiveChallenge`, `updateUserCoins` | no challenge, log or point is lost, doubled or made up; at most two challenges run |
| **ACTIVE tab and claim sheet** (`Challenges/StatusVC/ActiveViewController.swift`, `components/ClaimCoinsModal.swift`, `components/CaimCoinsPresentationVC.swift`) | `activeUser` (the rows), the sheet with the points it will credit | tap on a row, GET, tap beside the sheet, `updateView` | a row leads to the log page or the sheet, whichever is due; a claimed sheet closes |
| **Action log** (`Challenges/ActionLog/ActionLogViewController.swift`) | the challenge it was pushed with | log, back | one log a day |
| **Challenges tab** (`Challenges/ChallengeHomeViewController.swift`, `BrowseViewController.swift`) | segment BROWSE/ACTIVE, child controllers | appear, change segment | fetches are begun when lists may have changed |
| **Challenge start** (`Challenges/ChallengeStart/ChallengeStartViewController.swift`) | chosen days and difficulty | CONTINUE | the limit of two |
| **Reward claim** (`Reward/RewardClaimViewController.swift`) | the open question | CLAIM, YES, NO | no reward from points not in hand |
| **Home page** (`Home/HomeViewController.swift`) | "latest challenge", statistics | appear | shows a challenge that still counts |
| **Session** (`AppDelegate.swift`, `Intro/LoginViewController.swift`, `Home/NavigationBarHome.swift`, `Profile/SettingsViewController.swift`) | global view models | launch, log in, sign out, end of process | an accepted login opens the home page |
| **Leaderboard** (`ViewModels/LeaderboardViewModel.swift`, `Leaderboard/LeaderboardViewController.swift`) | a model object filled once by one query, replaced at login and claim; the tab's copies of it | load, replace, open tab, WEEK/MONTH | true ranks, own row listed, own claims counted by their end date |
| **Registration** (`helpers/FirebasAuthHelper.swift`, `Intro/Register*.swift`) | login, image upload, document | `completeClicked`, `register`, `uploadProfileImage`, `addUser` | no login without a document, no document replaced |
| **Category catalogue** (`ViewModels/CategoryViewModel.swift`, `BrowseViewController.swift`) | categories and challenges, filled one query at a time; the copy BROWSE made | load, open | every category once, the page shows what it copied |
| **Reward catalogue and filter** (`ViewModels/RewardViewModel.swift`, `Reward/RewardViewController.swift`, `components/CustomModal.swift`) | rewards, the list shown, slider, filter | load, slide, APPLY | the list is what the filter says |
| **Profile, settings** (`ViewModels/ProfileViewModel.swift`, `Profile/*`) | e-mail in the document and in the login | SAVE, sign out | document and login agree |
| **Firestore client: writes** (`Pods/FirebaseFirestore/Firestore/core/src/{core,local,remote}`) | worker queue, persisted batches, pipeline, stream, callbacks, document cache | write, change of login, send, acknowledge, refuse, break, relaunch | in order, under the own login, at least once, read back at once |
| Community page, cells, layout, Pods | none of their own | - | - |

### How they interact

* **Shared memory.** `userViewModel`, `leaderboardViewModel`, `categoryViewModel`
  and `rewardViewModel` are global variables. Every screen reads
  `userViewModel.user` when it likes; only the completion of `fetchUser`
  replaces it (and `updateSP`, which changes its balance).
* **Callbacks.** `fetchUser` asks for the document, then looks up every
  challenge of the answer in a `DispatchGroup`, then installs the result and
  calls its caller back. Several calls can be in flight; they install in the
  order in which their look-ups finish.
* **Writes.** A handler rebuilds a whole field (a list or the balance) from the
  copy in memory and hands it to `setData(merge: true)` or `updateData`. The
  Firestore client queues it, shows it to its own device's reads at once, sends
  it later, in order, and may lose the end of the queue when the process dies.
* **Two stores, no transaction.** Firebase Auth has an account's login and
  e-mail, Firestore its document. Registration and SAVE change one after the
  other, each in the callback of the call before, or without waiting at all.
* **Several devices** may be signed in to one account; they meet only in the
  document.

### What is hard here

Interleavings of taps with callbacks of older fetches; lists rebuilt from stale
copies overwriting each other; a claim split into three writes; a process that
dies between them; a second tap on a button whose first tap is still being
answered; comparisons of days of the month only; a leaderboard model replaced
while somebody is about to read it. `PROJECT.json` lists every such hazard at
its line, with the properties that watch over it.

## 2. The modules

```
ChallengeLedger      what an account promises (abstract)
UserAccount          document, devices, queue, screens: the whole account
  PatientAccount     the same for a user who waits; refines ChallengeLedger
    HastyAccount     promises that are broken
  UserAccountProofs  TLAPS: types, where every copy comes from, limit, order of logs, balance
  AccountLists       TLAPS: lists up to order, sums of points
    PatientProofs    TLAPS: fresh memory, one log a day, no overdraft
      LedgerProofs   TLAPS: PatientAccount implements ChallengeLedger
Leaderboard          model objects, ranking, tab
  LeaderboardProofs  TLAPS: own row, nobody dropped, true ranks, own claims
WriteChannel         what the app may expect of its writes (abstract)
FirestoreWrites      the write path of the Firestore client; refines WriteChannel
  FirestoreProofs    TLAPS: the pipeline, tokens, owners, answers, documents, and that refinement
SignUp               logins, documents, sessions, e-mail
Catalogue            categories, rewards, filter
  AppStart           SignUp and Catalogue, from launch to home
    AppStartProofs   TLAPS: the lists; types, documents of the logins
      SessionProofs  TLAPS: the two e-mail addresses, the session, the traps
MC*                  constants for TLC
```

### UserAccount

One module for the account, because its screens share every piece of state and
the interesting behaviour is between them.

| variable | code |
|---|---|
| `doc` | the three fields of `users/<uid>` that handlers rewrite |
| `queue[d]` | writes `setData`/`updateData` of device d not yet at the server |
| `session[d]` | signed out, waiting for the first fetch, home page only, Challenges tab created |
| `user[d]` | `userViewModel.user` |
| `rows[d]` | `ActiveViewController.activeUser.activeChallenges` |
| `logPage[d]` | the pushed `ActionLogViewController` |
| `modal[d]` | the claim sheet, or the question "Are you sure?" |
| `fetches[d]` | calls of `fetchUser`: who called, answered or not, the answer |
| `today` | the calendar |
| `writes`, `earned`, `spent` | bound and history: taps that wrote, points credited by sheets, prices paid |

An action is a whole handler. `StartChallenge` is CONTINUE: the test
`count != 2`, the rebuilt list, the write and the fetch that the pop to the root
begins. `Claim` is GET: three writes and the fetch; the sheet stays open with its
button enabled, as in the code. `InstallFetch` is `group.notify`: memory is replaced,
rows too if the ACTIVE tab called, the sheet is dismissed, and the follow-up
fetches of the caller begin. `AnswerFetch` takes the document *under the
device's own unsent writes* (Firestore's latency compensation), and replaces
each completion date by the day of reading, because `fetchUser` asks for
`"endDate"` where `completeActiveChallenge` wrote `"date"`. The order of the
look-ups is arbitrary, so `InstallFetch` permutes the lists. `ClaimTraps` is the
crash of `remove(at:)` out of bounds. `Kill` keeps any prefix of the queue.

What is abstracted: names, images and texts; the waste and CO2 figures; the
category look-up nested in the challenge look-up. `endDate` is `startDate` plus
seven days and is derived (`EndOf`).

### PatientAccount and ChallengeLedger

`ChallengeLedger` says in five atomic actions what the owner expects: start,
one log a day, finish not before the end date and be paid the value for every
day logged exactly once, spend from the balance. The app does not implement it for every user. It
does for a *patient* one: one device at a time, no tap while a fetch or a write of that device
is under way, no start of a challenge that is already running. `PatientSpec` is
`UserAccount` under exactly these three conditions on the environment, and
`ImplementsLedger` is the refinement: the mapping reads the document under the
unsent writes, running challenges as a set and payments as a bag, so the three
writes of a claim take effect in one step.

### HastyAccount and the findings

Dropping a condition breaks a promise. The violation runs show it:

* `log_twice`: a row that is not refreshed yet opens the log page again; two
  logs of one day, though the alert says "you have already logged an action for this day".
* `overdrawn`: a fetch begun before a reward was taken puts the old balance
  back; two rewards are paid with the points of one.
* `repeat_claim`: the same challenge started twice cannot be claimed:
  `remove(at: index)` is out of bounds and the app crashes.
* `completion_dates`: every claim rewrites the dates of the earlier completions,
  which decide what counts for "THIS WEEK" and for the leaderboard.

Other behaviour seen in the same model and not kept as runs: a second tap on GET
before its fetch returns credits the points twice; a log right after another
one, or a start next to a log, overwrites it; an older fetch installed last
leaves memory stale; starting a challenge twice makes one log count for both.

### Leaderboard

`model` is the current `LeaderboardViewModel`, `orphans` the number of replaced
ones whose query is still out (its answer can still crash the app), `screen`
the tab with its copies of both boards, `trap` what the last run of the app died of. `Load(users)` is the completion of
`getDocuments` for whichever users the server or the offline cache returns;
`LoadTraps` the crash with fewer than three; `OpenTabTraps` the crash of
`setRanks` on a board not loaded yet. `Board` is `createLeaderboard` with its
ranges, the literals 15, 17 and 30 written as `Half`, `Half + 2` and `2 * Half`.
Swift's sort keeps the order of equals in the toolchains the app builds with;
nothing that is checked or proved about ranks depends on which equal comes first.

A claim is dated with the *end* of its challenge (`UserViewModel.swift:220`), and the sheet opens on
any day from then on, so `Complete` takes any `end` up to today; the earlier completions,
rewritten by the same claim, get the day the copy in memory was read. `at` is the
day of the claim, which the document does not have: a copy that holds a
completion was read on that day or later. `ClaimsCounted` says what follows for the board: it is
never older than a claim of this device, and the own row is the sum of the completions
dated in the 7 or 30 days before the answer. A claim tapped
longer after its end date than that is not on the board, not even right after the tap; the next
claim, which dates it anew, can bring it there.

Run `leaderboard_opens` is the finding: the tab opened while a model created by
a login or a claim is still loading kills the app (`OpenTabTraps`; only this step sets `trap` to "open"). Also visible in the model:
the comment "top 30" (line 141) is not what the ranges give (29 persons for the first
three users, 5 for the one with index 16, and the third person twice for the
fourth user); `viewWillAppear` shows the week's rows even when the segment still says MONTH.

### FirestoreWrites and WriteChannel

`UserAccount` gives each device a queue of writes that is sent in order, shown
to its own reads, and cut at the end by a kill. `FirestoreWrites` is where that
comes from: the C++ client as one worker queue and the threads that feed it.

| variable | code (`Pods/FirebaseFirestore/Firestore/core/src/`) |
|---|---|
| `auth`, `current` | the login in `FirebaseCredentialsProvider`, and the account the worker last switched to (`SyncEngine::current_user_`) |
| `tasks` | `AsyncQueue`: writes, account changes and answered tokens, in order |
| `batches`, `nextId`, `cache` | `LevelDbMutationQueue` per account, its next id, the remote document cache |
| `callbacks` | `SyncEngine::mutation_callbacks_` |
| `pipeline` | `RemoteStore::write_pipeline_` |
| `stream`, `asked`, `handshake`, `idle` | `Stream::state_`, `GetToken` calls still out (valid or outdated by `close_count_`), `WriteStream::handshake_complete_`, the idle timer |
| `bearer` | whose token opened the stream |
| `toServer`, `toClient`, `server`, `snapshot` | the network and the documents |
| `issued`, `told`, `applied`, `refused`, `faults` | bounds and history |

Answers carry no batch id; they are taken for the first batch of the pipeline,
which is why order matters so much here. `WriteChannel` is the promise in seven actions: writes of an
account reach the document in the order of the taps, at least once, and a death
loses only a tail that was never sent. `SendsInOrder` is the refinement, for one account, `Observed`: its queue is what is persisted followed by what
the worker has not run yet, and `sent` counts the successes of its writes on the wire.

The link to the rest: `UserAccount`, `SignUp` and `Leaderboard` use the queue as
`WriteChannel` describes it, in its undisturbed form: each write applied
exactly once. Redelivery after a broken stream, which takes the document back to an
older value for a while, and refusals with their callbacks are in this module only.

Assumed of the server (code outside the repository): it handles the requests of
a stream in order; requests of a broken or stopped stream may still be applied until
the client opens its next one; a refused write may have been applied in an
earlier attempt. Once it has answered with a permanent error it reads nothing more: what the
client writes to such a stream before it hears of the error (`Send` while `Ended`) is lost. An
earlier form of the model kept those requests, and `AnswersMatchPipeline` was then false
for pipelines of three and more; the run, with two, had not shown it, the
search for the inductive invariant did. Stream tokens are not modelled. Somebody else writing the
document comes in as other versions in `WriteChannel` only (`Foreign`).

### SignUp

Registration, sign-in, first fetch, SAVE and sign-out on one device. Every tap on COMPLETE
or SIGN IN starts a chain of callbacks of its own (`work[t]`), because no button
is disabled meanwhile.

| variable | code |
|---|---|
| `login` | accounts and addresses at Firebase Auth |
| `docs` | `users/<uid>`: e-mail, whether there is an image, running challenges |
| `queue[u]` | writes made while u was signed in, not sent yet |
| `auth`, `session` | `Auth.currentUser` (kept in the keychain), and the sign-in that made the object |
| `model` | the global `userViewModel`: whose it is, whether a fetch has filled it |
| `page`, `error` | the page of the window, the error text of the login page |
| `work[t]` | the chain begun by tap t: its stage (creating, created, uploading, writing, written; signing; fetching, looking), whether its page is still shown, whether its model is the global one |
| `changes` | e-mail changes asked of Firebase Auth, serialised per `FIRUser` object |
| `overlapped`, `abandoned`, `apart`, `taps`, `faults` | history and bounds |

`CreateLogin` is the server's part of `createUser`, `TakeLogin` its completion;
between the two the answer can be lost. `AddUser` is the guard on whoever is signed in *by then* and the
write of the new account's document under that login. `FinishFetch` is
`group.notify`; `TrapOf` are the forced unwraps (`currentUser!`, `document("")`,
`imageLink!`), after which the app is launched again.

Two history variables name the excuses of the properties. `overlapped`: two chains were
under way together, unless they are taps on one button with one address, or a change of
address was under way with a chain. `apart[u]`: the login of u may differ from its document, because a
change was refused, lost or overtaken by one of another session, or was made before the account had a document
to write it to (SAVE then writes a document that holds an e-mail and nothing else).

Abstracted: RegisterViewController and RegisterDetailsViewController are one
page; the look-ups of a challenge and of its category are one step; those
for `completedChallenges` use the same mechanism and are left out; SAVE acts on the user of the
moment of the tap; a refused change that also signs out (`signOutIfTokenIsInvalid`) is
not modelled. The fetches of the home page belong to `UserAccount`. Each `ProfileViewModel` that a page creates reads
the document once more and traps on the same missing image as the first fetch; it changes nothing else.

### Catalogue and AppStart

`Catalogue` has the two lists the application delegate loads once per process,
and the pages that copy them when they load: `browse` (BROWSE) and `store`
(REWARDS) with the filter sheet, whose label (`slider`) and price bounds
(`filter`) are two pieces of state that can differ. Category and type of the filter are never
laid out on the sheet (`formLayout` is commented out), so they stay empty.

`AppStart` puts `SignUp` and `Catalogue` together: home appearing or going away makes new
pages, the end of the process new lists, and BROWSE opened before the first
category has arrived ends the process (`BrowseTraps`).

Seen in these modules and not kept as findings, as no text of the app promises otherwise:

* An upload that fails leaves a login without a document. Nothing repairs it:
  the address is taken, and signing in with it crashes the app (`document("")`).
* Two overlapping sign-ins, or a sign-in over a registration, can show the home page
  with the model of the other account.
* SAVE with an address that is taken changes the document and not the login.
* BROWSE opened before the categories have arrived crashes (`categories[0]`).
* The slider: with the upper handle back at 800 the filter keeps the maximum of
  before while the label prints 800 (`CustomModal.swift:202`); with both handles at
  0 it keeps the old minimum (line 199, which tests the upper handle too).

## 3. What the runs check

| run | question | properties |
|---|---|---|
| `account` | one device, every interleaving, kills included | `TypeOK`; `AtMostTwoActive`; `LogsInOrder`; `BalancesExplained` |
| `account_fair` | does what was begun end? | `ClaimSheetCloses`, `SignInOpensHome` |
| `patient` | does a patient user, taking turns on two devices, get the ledger? | `ImplementsLedger`, `OneLogPerDay`, `NeverOverdrawn`, `MemoryIsCurrent`, `LatestNotSuperseded` |
| `leaderboard` | ranks, ranges, cache and tab | `TypeOK`, `RanksTrue`, `OwnRowOnce`, `ClaimsCounted`, `NobodyDropped` |
| `firestore` | does the Firestore client keep what the other modules assume of it? | `SendsInOrder` (refinement of `WriteChannel`), `PipelineInOrder`, `AnswersMatchPipeline`, `NeverStranded`, `OneTokenAwaited`, `SentAsOwner`, `ReadYourWrites`, `SettlesOnLastWrite`, `CallbacksTrue`, `WritesArrive`, `TypeOK` |
| `sign_up` | which half-done registrations, sessions and changes of address can be left? | `LoginsGetDocuments`, `NeverReset`, `SessionAgrees`, `EmailsAgree`, `TrapsExplained` |
| `app_start` | are taps answered, and do the pages show the lists? | `SignInAnswered`, `RegistrationOpens`, `CategoriesOnce`, `BrowseIsPrefix`, `ShownAsPrinted`, `StartTypeOK` |
| `log_twice`, `overdrawn`, `repeat_claim`, `completion_dates`, `leaderboard_opens` | findings | one each |

* `AtMostTwoActive`, `LogsInOrder` and `BalancesExplained` speak of *every copy*
  of the account: document, memory, rows, answers in flight, queued writes. The
  limit is tested with `!=` on a copy that may be stale; had any copy ever three
  entries, the test would never stop a start again.
* `LatestNotSuperseded`: the home page folds the "latest" challenge by comparing
  a start with an *end*. It shows the later element of the list, not the newest
  challenge; what holds is that nothing in memory was started after the one
  shown had ended, and this rests on there being at most two.
* `MemoryIsCurrent`: once nothing is under way, memory and rows equal the
  document up to order.
* `LoginsGetDocuments`: every login has its document, queued or sent, or a
  registration still under way, *unless* it was given up in one of the ways the
  variable `abandoned` records; conversely no document is without a login.
  `NeverReset`: `addUser` replaces documents as a whole, and never meets one that exists.
* `SessionAgrees`, `EmailsAgree`, `TrapsExplained` name exactly the excuses under
  which they may fail (overlapping chains, a refused or lost change, a fault);
  everything not excused is covered.
* `ReadYourWrites` and `SettlesOnLastWrite` are what latency compensation means
  when acknowledgements and answers to older reads cross.
* What the properties do not catch. `BalancesExplained` is a bound: credits lost by a kill or
  an overwrite, or paid twice by a second tap, keep it. `ImplementsLedger` and `MemoryIsCurrent` are for a user who
  waits, whose claim is never cut in two and whose fetches never overtake each other.
  `LoginsGetDocuments`, `EmailsAgree`, `SessionAgrees`, `TrapsExplained`, `ShownAsPrinted` and the two
  properties of sign-in name what goes wrong in this code as excuses (`abandoned`, `apart`, `overlapped`,
  `faults`, the handle at an end): they show that nothing *else* does. The hazards in
  `PROJECT.json` carry a note where this is so.
* Each property has a mutant, a definition marked *Fault* next to the one it
  replaces: a dropped guard, a missing reset, a swapped comparison.

### Bounds, and why they are enough

* `MaxActive = 2` as in the code. `ChallengeDays` 1 and `MonthDays` 3 or 4
  instead of 7 and 30: what the code tells apart is only whether two days have
  the same day of the month and whether the end is reached. In `patient`,
  `MaxDay = 3 = MonthDays` lets the month wrap, so a day of the month recurs.
* One challenge identity where the identity does not matter (the same challenge
  can be started twice, so two entries still exist); two in `patient`.
* `MaxWrites` 3 to 5 taps that write. Four suffice for start, log, claim, reward
  or for two starts, a log and a claim; `patient` has five, enough for two challenges.
* `MaxFetches = 2` calls in flight: overtaking needs two. `log_twice` uses 3, as
  a log begins two fetches while an older one is pending.
* One device in `account`; that the same three properties hold for any number of
  devices writing one document from copies of their own is proved (`LimitHolds`,
  `OrderHolds`, `BalanceHolds`). `patient` has two interchangeable devices: its user takes
  turns on devices that were settled, and one that signs in starts from the document.
* `leaderboard`: `Half = 2` and five users reach every branch of the ranges
  (own index 0 to 4, window start at `Half + 2 = 4`); two completions give
  ties, a leader, and a user overtaken; `WeekDays = 0`, `MonthDays = 1` and
  two days make a completion leave the week while the month keeps it, so the two
  boards differ, and a claim on the second day for a challenge that ended on the first is late for the week.
  That a claim can be late for the month as well needs a third day; it is the same
  operator with another number, and `ClaimsAreCounted` is proved for all. One orphan: a second one behaves as the first.

* `firestore`: two accounts, three writes, `MaxPendingWrites = 2` instead of 10, so
  a third write has to wait for a slot; two faults (sign-ins, breaks, refusals, failed
  tokens, network changes, deaths), enough for a break followed by a change of
  account or a relaunch in the middle of a handshake. What a longer pipeline adds is
  covered by the theorems, which hold for every `MaxPendingWrites`.
* `sign_up`: three accounts of which one exists, three addresses, four taps, two
  chains or changes at once, one fault. Two chains make every overlap; four taps let a
  sign-in, a registration and a SAVE cross with one more of any of them, so e-mail changes of
  two sessions can be under way together. Smaller bounds hid two cases (a change of address
  crossing a sign-in, and SAVE before the account has a document) in which an
  earlier form of `SessionAgrees` and `EmailsAgree` was false; the search for their inductive
  invariants found them, and they are now among the named excuses. Two of the addresses
  and the challenges are interchangeable (only the first is somebody's at the
  start, and accounts are numbers, given in order of creation), hence the symmetry.
* `app_start`: two accounts of which one exists, two addresses, two running
  challenges; three taps, two chains at once, one fault: the liveness properties and the pages.
  `Level` is {0, 400, 800} and rewards cost 100 and 600: the ends, where the code
  branches, and a position between two prices.
* `AtRest` in `AppStart`: list answers and taps on pages are taken while the home page is
  shown and the account's work is done. Nothing else reads the lists,
  so other orders give the same pages.

### Deadlock and fairness

Deadlock is checked in every run. `account_fair` assumes that the oldest fetch of a device is
eventually answered and installed: Firestore is reachable (or answers from its
cache), and the look-ups succeed. The code does not survive the opposite: a look-up that
finds no snapshot never leaves its `DispatchGroup`, so the callback never runs
(`UserViewModel.swift:191`), listed as a hazard. No fairness is assumed of the
user, of the sending of writes, or of the process staying alive (in `account_fair`): the sheet
closes although its user goes on tapping GET, opens other tabs or never sends.

In `firestore` the fairness is one condition on the machinery together: while the worker,
the receiver, the server, the back-off timer or the token provider can act, one of them does. Faults are
finitely many. In `app_start` it is that Firebase goes on answering and callbacks run;
which answer it gives, and what the person taps, is open.

## 4. What is proved

Every theorem holds for all values of the constants that the named assumptions allow: any
number of devices, users, accounts, addresses and challenges, any catalogue,
prices, calendar, limit and bound. The assumptions (`ASSUME` in the module that
declares the constants; TLC evaluates them in the runs):

* `UserAccount`: values and prices are naturals, `None` is no challenge, lengths of
  challenges and months are positive, bounds are naturals.
* `CycleAssumption` of `PatientAccount`: a challenge is shorter than a month (7 and 28 to 31 days in
  the code). The claim sheet opens when the last log is on the end date's day of the *month*;
  were a challenge longer, that day could come a month before the end.
* `Leaderboard`: users are numbers and finitely many, points and lengths naturals.
* `SignUpAssumption`, `StartAssumption`: the first account's address is an address,
  `NoAddress` is none, bounds are naturals, there is room for the account that exists at the
  start; prices are integers, and the slider's positions lie between its two ends, which are positions.
* `FirestoreWrites`: accounts are finitely many and `Observed` is one of them (`AccountAssumption`),
  the pipeline has room for a batch at least (`PendingAssumption`), bounds are naturals.

| theorem | statement |
|---|---|
| `UserAccountProofs!TypeCorrect` | `Spec => []TypeOK` |
| `UserAccountProofs!LimitHolds`, `OrderHolds`, `BalanceHolds` | `Spec => []AtMostTwoActive`, `[]LogsInOrder`, `[]BalancesExplained` |
| `PatientProofs!PatientInvariant` | `PatientSpec => []PatientInv`, the inductive invariant |
| `PatientProofs!ShownNeverSuperseded` | `MaxActive <= 2` implies `Spec => []LatestNotSuperseded` |
| `PatientProofs!OneLogADay`, `PaidFromHand`, `IdleIsCurrent` | `PatientSpec => []OneLogPerDay`, `[]NeverOverdrawn`, `[]MemoryIsCurrent` |
| `LedgerProofs!AccountImplementsLedger` | `PatientSpec => ImplementsLedger`, the refinement |
| `LeaderboardProofs!TypesHold`, `OwnRowHolds`, `NobodyIsDropped`, `RanksAreTrue`, `ClaimsAreCounted` | `Spec =>` `[]TypeOK`, `[]OwnRowOnce`, `[]NobodyDropped`, `RanksTrue`, `[]ClaimsCounted` |
| `AppStartProofs!CategoriesComeOnce`, `BrowseShowsPrefix`, `StoreShowsPrinted` | `StartSpec =>` `[]CategoriesOnce`, `[]BrowseIsPrefix`, `ShownAsPrinted` |
| `AppStartProofs!StartTypesHold` | `StartSpec => []StartTypeOK` |
| `AppStartProofs!SignUpGivesDocuments`, `SignUpResetsNothing` | `Spec => []LoginsGetDocuments`, `Spec => NeverReset` |
| `AppStartProofs!EveryLoginGetsADocument`, `DocumentsAreNotReset` | the same two for `StartSpec` |
| `SessionProofs!SignUpKeepsEmails`, `SessionIsTheAccounts`, `TrapsHaveACause` | `Spec =>` `[]EmailsAgree`, `[]SessionAgrees`, `[]TrapsExplained` |
| `SessionProofs!EmailsStayTogether`, `AppSessionIsTheAccounts`, `AppTrapsHaveACause` | the same three for `StartSpec` |
| `SessionProofs!SessionInvariant` | the inductive invariant behind them |
| `FirestoreProofs!FirestoreTypes`, `FirestorePipeline`, `FirestoreNeverStranded`, `FirestoreOneToken` | `Spec =>` `[]TypeOK`, `[]PipelineInOrder`, `[]NeverStranded`, `[]OneTokenAwaited` |
| `FirestoreProofs!FirestoreOwner`, `FirestoreAnswers`, `FirestoreCallbacks` | `Spec =>` `[]SentAsOwner`, `[]AnswersMatchPipeline`, `CallbacksTrue` |
| `FirestoreProofs!FirestoreReads`, `FirestoreSettles` | `Spec =>` `[]ReadYourWrites`, `[]SettlesOnLastWrite` |
| `FirestoreProofs!FirestoreSendsInOrder` | `Spec => SendsInOrder`, the refinement of `WriteChannel` |

*Argument for the account, whoever uses it.* The properties are about the sets `ActiveLists` and
`Balances` of all copies. Stated only of the document none of them would be
inductive: a stale copy in a queue could break it one step later. Stated of all copies they are,
given `TypeOK`. The work is showing where each copy of the next state comes
from. `UserAccountProofs` has a lemma for every variable that holds copies: the
document changes only to a queued value, an answer is the document or an unsent write of the
device (`Seen`), memory is replaced by an answer up to order, and a queue
grows only by what a handler built from memory (`Started`, `Logged`, `Remaining`,
or a sum or difference of the balance). Then one fact about each of those builders is
enough: it keeps the length within the limit, appends a day that is not
before the last one, or moves the balance together with `earned` or `spent`.
`LogsInOrder` also says that an entry started no later than today; without that
conjunct a first log would not be known to follow the start.

*Argument for the patient account.* `PatientInv` has four parts. `OneDevice`: at most one
device is signed in or has writes queued. `DeviceCurrent`, for that device: an answered
fetch, memory, rows and the pushed page equal `Overlay` (the document under the unsent
writes) up to order, each from the moment on at which it should
(`AnswersCurrent`, `UserCurrent`, `RowsCurrent`, `LoginAlone`, `SheetsInSession`),
and what a sheet or a log page promises is due of the *document*
(`ClaimDue`, `LogDue`, `RewardCovered`). `RunsOnce`: no challenge runs twice. `StoredSound`:
in the document and in every queued write, logs of an entry are of different days and the balance is not negative.
`OneLogPerDay` needs all four: the alert is decided on rows, the list that is written comes
from memory, and only when both are current does "the last log is of another day of the month" say that the
document has no log of today (`LogDue`). That a claim is not early (`ClaimDue`) needs
`CycleAssumption`. The refinement then maps every step by cases: the
first of the three writes of a claim, seen through `Overlay`, is with the other two
one `Finish` of the ledger; sending, fetching, killing and navigation stutter, since
`Overlay` does not change by sending and a patient user's kill happens with an empty queue.

*Argument for the leaderboard.* Boards are made by `Load` only. `RangeHoldsMe` is the
arithmetic of the literals: a user below the podium always
lies strictly above `MinRange` and not above `MaxRange`, with equality at index
`Half + 1`, where a threshold of one more would lose the row. A ranking is a
bijection, so the user has one place, and the board shows it once; its inverse counts
the better ones, so a rank shown is the true one. That points are naturals
is a statement about a fold over the set of completions, which would be an induction over data; it is
proved by the smallest set on which it fails (`WellFoundedInduction` on cardinalities),
which needs no operator parameter. `NobodyDropped` needs beside it that every
board, of the model or copied by the tab, has the three rows that `setRanks` takes (`BoardsLong`).
`ClaimsCounted` needs `DatesPast`: no own completion is dated in the future, and while a model is loaded
none is dated after its day. A claim adds one dated up to today and empties the model in the same step;
so the own rows stay what they were counted to be (`OwnRowsCounted`), and of the two sides of
`isPrevWeek` only "at most 7 days ago" matters (`PointsAreCoins`).

*Argument for the lists.* `ListsInv`: while the first query is out there is nothing else, a
category is never both asked for and failed, listed once, and what BROWSE copied is a beginning of
the list. `FilterPrinted`: filter and label differ only where the upper handle is at an end.

*Argument for the documents.* `Counted`: accounts are numbered without gaps; every
chain, queued write, change and session is of an account with a login (`Known`); a queued document
that has a chain has that chain waiting for it (`Waiting`); for an account at most
one chain or queued write will make the document, and only while there is none (`OneCreator`);
and (`Alive`) an account that was not given up has its document, has it queued, or has such a
chain. Each way to lose a chain (a death, a fault, a trap, somebody else signed in) has to be one that
`abandoned` names. `OneCreator` also gives `NeverReset`: `addUser` meets no document.

*Argument for the e-mails.* `EmailInv` gives for each account outside `apart` what the
*last* write of its queue and the *last* change under way are of
(`DocumentAgrees`, `EmailAgrees`, `EmailsFollow`, `NewAgrees`, `CreatorAgrees`), and
that all its changes are of one session (`OneSession`).

*Argument for the session.* `Sessions` has an unconditional part (addresses differ, `Chains`: a chain
carries what its stage says, `Loaded`, `Images`) and a conditional one: while `~overlapped`,
`Calm` holds, i.e. all chains are taps on one button with one address, no change
is under way with a chain, nobody writes for another account, one registration at most is creating,
and a chain, the login and the model are of one account wherever the
chain is past the point where it matters. `Calm` is where the earlier statements failed.

*Both specifications at once.* `AppStart` adds to `SignUp` steps of lists and pages
and one more way to die. Every step of it is `AccountStep` or leaves the
accounts alone (`Aside`), and the lemmas about accounts assume only that; so
each theorem has one proof for `Spec` and `StartSpec`.

*Argument for the Firestore client.* The invariant `Whole` has layers, each proved with those before it.
`Types` and `Persisted`: ids grow, and each callback is of a stored batch. `Filled`: the
pipeline *is* the front of the current account's queue, as many batches as fit, from which
`PipelineInOrder` and half of `NeverStranded` follow; that it is inductive is a lemma about
`fillWritePipeline` (`Refill`): the batches after the last one of the pipeline continue it. `Streams`:
a pipeline with batches has a started stream. `Wires`: the answers and the requests on the wire
are, in order, for the first batches of the queue of the account *that opened
the stream* (`Talks`), also after the stream was given up, since the server may still act on it;
together with the handshake flag this says which part of the pipeline is out. `Logins`: each
task was queued while its account was logged in, so that a write or token at the head of the worker
queue is the current account's. `OneLive`: `OneTokenAwaited` as an inductive statement. `Numbers`: writes are
numbered by the taps; those waiting in the worker are above all persisted, those in a queue
ascend, and a write that the server or a callback knows is still queued, or older
than every batch of its account. That gives `CallbacksTrue`, since a callback is called for the
first batch only. `Values`: versions on the wire ascend to the server's; cache and answers to reads are never newer
than the server's document, nor older than the answers already taken; and no copy is older than a write that
was applied and has left the queue. Acknowledgements and reads can then arrive in
any order without taking the cache back.

The order of a queue is an order of keys, `CHOOSE` of an increasing sequence; the first section
proves that there is exactly one (by cardinalities of initial segments), and what adding, removing the first and
cutting does to it. The same lemmas list the unsent writes of an account among the tasks,
which is the mapping of the refinement: a tap is an `Issue`, running it moves the write within the queue, the server
does `ApplyNext`, a success and a refusal of this account are `Acknowledge` and `Refuse`, a stream that
opens is a `Break`, a death is a `Lose` that keeps what was persisted, and so whatever was sent.

*The latest challenge.* `LatestNotSuperseded` is the one theorem with a hypothesis on a
constant that the specification leaves open, `MaxActive <= 2` (2 in the code): the comparison
of a start with an end is not transitive, and from three challenges on the one shown
may be superseded. `FoldLeft` is a recursive function on sets of indices; for lists of one and of two
the proof gives such a function, so that the one the library chooses satisfies its
equation, and unfolds it. Types and the limit, on every copy, do the rest, for any
number of devices.

*Only model-checked.* Liveness is out of the prover's reach: `ClaimSheetCloses`,
`SignInOpensHome`, `SignInAnswered`, `RegistrationOpens`, `WritesArrive`. Every invariant and every
action property of the passing runs is stated by a theorem.

## 5. Not modelled, and why

* Profile image upload (`ProfileViewModel.upload`, one field that no list or
  balance depends on) and badges (a pure read of a field that nothing ever fills).
* The day buttons and the difficulty of the start page: they change numbers of a
  shared `Challenge` object that are shown only; neither `updateActiveChallenge` nor
  a claim uses them.
* The Firestore client apart from writes: listen targets, limbo resolution,
  transactions, garbage collection. The app uses none of them but the one-shot reads,
  which are in `FirestoreWrites` as snapshots.
* Community page, cells, colours, images, strings, layout: no state of their own.
* The other Pods (gRPC, BoringSSL, LevelDB, abseil, Storage and so on), the Xcode project, the
  two empty test targets. Of some 650,000 lines of C and C++ in the repository
  nearly all are these vendored libraries, below anything the app relies on by
  itself; the app is Swift. The models cover the app's own logic and
  the one library path its correctness hangs on, so their share of *all* lines is
  small and will stay so.
* Images: every user and reward image is loaded synchronously; a missing one
  traps (`imageLink!`), which is a trap in `SignUp` and a `Kill` in `UserAccount`.

## 6. Plan

1. *Done:* `UserAccount`, `PatientAccount`, `ChallengeLedger`, `HastyAccount`,
   the theorems on types, limit, order and balance; `Leaderboard` and `OwnRowHolds`.
2. *Done:* `WriteChannel`, `FirestoreWrites`: the assumption on queued writes, checked against the client's source.
3. *Done:* `SignUp`, `Catalogue`, `AppStart`.
4. *Done:* proofs of the patient account with its refinement, of the whole leaderboard, of the
   lists, and of registration, session and e-mails.
5. *Done:* proofs about the Firestore client: its safety properties and the refinement of `WriteChannel`.
6. Open: listen targets, if the app should ever listen.
