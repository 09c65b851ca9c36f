------------------------------- MODULE SignUp -------------------------------
(***************************************************************************)
(* Registration, sign-in, the first fetch with its look-ups, the change of *)
(* the e-mail address, sign-out and the death of the process, on one       *)
(* device.                                                                 *)
(*                                                                         *)
(* Firebase Auth keeps a login per account and Firestore a document; the   *)
(* app creates and changes them one after the other and never together.    *)
(* Each tap on COMPLETE or SIGN IN starts a chain of calls and callbacks   *)
(* of its own, called a piece of work here, and no button is disabled      *)
(* while one is under way.                                                 *)
(***************************************************************************)
EXTENDS Integers, Sequences, FiniteSets, FiniteSetsExt, SequencesExt

CONSTANTS
    Address,        \* e-mail addresses
    NoAddress,
    Mine,           \* the address of the account that exists already
    Challenge,      \* challenges of the old account
    MaxAccounts,    \* bound: accounts, the old one included
    MaxTaps,        \* bound: taps on COMPLETE, SIGN IN and the settings' SAVE
    MaxInFlight,    \* bound: pieces of work under way together
    MaxFaults       \* bound: deaths, failed calls, missing data

ASSUME SignUpAssumption ==
    /\ Mine \in Address /\ NoAddress \notin Address
    /\ MaxAccounts \in Nat \ {0} /\ MaxTaps \in Nat
    /\ MaxInFlight \in Nat /\ MaxFaults \in Nat

VARIABLES
    login,      \* login[u]: the address of account u at Firebase Auth
    docs,       \* docs[u]: users/<u> at the server
    queue,      \* queue[u]: writes made while u was signed in, not sent yet
    auth,       \* Auth.currentUser, 0 for nil (kept in the keychain)
    session,    \* the sign-in that made the currentUser object, 0 at launch
    model,      \* the global userViewModel
    page,       \* what the window shows
    error,      \* the error text of the login page is shown
    work,       \* work[t]: what the tap t has under way
    changes,    \* changes of addresses under way at Firebase Auth
    taps,       \* taps so far: names them, and for the bound
    overlapped, \* work or a change was begun while other work was under way (history)
    abandoned,  \* accounts whose registration was given up (history)
    apart,      \* accounts with a change refused, lost, overtaken or too early (history)
    faults      \* faults so far (for the bound)

cloud == <<login, docs>>
client == <<queue, changes>>
identity == <<auth, session>>
screen == <<page, error>>
history == <<overlapped, abandoned, apart>>
vars == <<cloud, client, identity, model, screen, work, taps, history, faults>>

Account == 1..MaxAccounts
Old == 1
Nobody == 0

Document == [email: Address, image: BOOLEAN, running: SUBSET Challenge]
NoDocument == [email |-> NoAddress, image |-> FALSE, running |-> {}]

\* A write of users/<uid>: a whole document, or its field email.  tap is the
\* work whose callback waits for it, 0 if none does.
PendingWrite == [kind: {"new", "email"}, uid: Account, email: Address,
                 image: BOOLEAN, tap: 0..MaxTaps]

NoModel == [uid |-> Nobody, loaded |-> FALSE, list |-> <<>>]

Stage == {"signing", "creating", "created", "uploading", "writing", "written",
          "fetching", "looking"}

\* shown: the page that was tapped is still on screen and presents nothing;
\* current: the UserViewModel made for this work is the global one;
\* left: challenges whose look-up has not left the group.
Work == [kind: {"register", "signin"}, address: Address, uid: Account \cup {Nobody},
         stage: Stage, shown: BOOLEAN, current: BOOLEAN, image: BOOLEAN,
         left: SUBSET Challenge,
         list: Seq(Challenge)]

Tapped(kind, a) ==
    [kind |-> kind, address |-> a, uid |-> Nobody,
     stage |-> IF kind = "register" THEN "creating" ELSE "signing",
     shown |-> TRUE, current |-> FALSE, image |-> FALSE, left |-> {}, list |-> <<>>]

Registered == {u \in Account : login[u] # NoAddress}
Holder(a) == {u \in Registered : login[u] = a}

With(w, t, new) == [i \in DOMAIN w \cup {t} |-> IF i = t THEN new ELSE w[i]]
Without(w, t) == [i \in DOMAIN w \ {t} |-> w[i]]

Hidden(w) == [t \in DOMAIN w |-> [w[t] EXCEPT !.shown = FALSE]]

-----------------------------------------------------------------------------
Init ==
    /\ login = [u \in Account |-> IF u = Old THEN Mine ELSE NoAddress]
    /\ docs = [u \in Account |-> IF u = Old
                  THEN [email |-> Mine, image |-> TRUE, running |-> Challenge]
                  ELSE NoDocument]
    /\ queue = [u \in Account |-> <<>>]
    /\ auth = Old
    /\ session = 0
    /\ model = NoModel
    /\ page = "intro"
    /\ error = FALSE
    /\ work = <<>>
    /\ changes = <<>>
    /\ taps = 0
    /\ overlapped = FALSE
    /\ abandoned = {}
    /\ apart = {}
    /\ faults = 0

Fault == faults < MaxFaults /\ faults' = faults + 1

-----------------------------------------------------------------------------
(* The end of the process.                                                 *)

\* Accounts that wait for a registration of this process.
Registering(w) == {w[t].uid : t \in {t \in DOMAIN w :
                     w[t].stage \in {"created", "uploading", "writing"}}}

\* Calls and callbacks are gone, and of the writes of the signed-in account
\* those at the end that were not persisted; the login is in the keychain.
Die ==
    /\ \E n \in 0..(IF auth = Nobody THEN 0 ELSE Len(queue[auth])) :
          LET lost == IF auth = Nobody THEN {} ELSE Range(SubSeq(queue[auth], n + 1, Len(queue[auth])))
              kept == [u \in Account |->
                         LET q == IF u = auth THEN SubSeq(queue[u], 1, n) ELSE queue[u]
                         IN  [k \in DOMAIN q |-> [q[k] EXCEPT !.tap = 0]]]
          IN
          /\ queue' = kept
          /\ abandoned' = abandoned \cup {w.uid : w \in {l \in lost : l.kind = "new"}}
                             \cup {u \in Registering(work) :
                                     \A v \in Account : \A k \in DOMAIN kept[v] :
                                        kept[v][k].uid # u \/ kept[v][k].kind # "new"}
          /\ apart' = apart \cup {changes[k].uid : k \in DOMAIN changes}
                            \cup {w.uid : w \in {l \in lost : l.kind = "email"}}
    /\ work' = <<>>
    /\ changes' = <<>>
    /\ session' = 0
    /\ model' = NoModel
    /\ page' = "intro"
    /\ error' = FALSE

Kill ==
    /\ Fault
    /\ Die
    /\ UNCHANGED <<cloud, auth, taps, overlapped>>

-----------------------------------------------------------------------------
(* Pages.                                                                  *)

\* openRegisterVC and signUpClicked (one page here), or openLoginVC.
OpenPage(p) ==
    /\ page = "intro" /\ p \in {"login", "details"}
    /\ page' = p
    /\ UNCHANGED <<cloud, client, identity, model, error, work, taps, history, faults>>

\* The page left is not on screen any more: callbacks that present on it do
\* nothing.
GoBack ==
    /\ page \in {"login", "details"}
    /\ page' = "intro"
    /\ error' = FALSE
    /\ work' = Hidden(work)
    /\ UNCHANGED <<cloud, client, identity, model, taps, history, faults>>

\* Work of another button or another address.
Different(kind, a) == {t \in DOMAIN work : work[t].kind # kind \/ work[t].address # a}

Begin(kind, a) ==
    /\ taps < MaxTaps /\ Cardinality(DOMAIN work) < MaxInFlight
    /\ taps' = taps + 1
    /\ work' = With(work, taps + 1, Tapped(kind, a))
    /\ overlapped' = (overlapped \/ Different(kind, a) # {} \/ changes # <<>>)
    /\ UNCHANGED <<cloud, client, identity, model, page, abandoned, apart, faults>>

\* completeClicked; the address was typed on the page before.
Complete(a) ==
    /\ page = "details"
    /\ \A t \in DOMAIN work : work[t].shown => work[t].address = a
    /\ Begin("register", a)
    /\ UNCHANGED error

\* signIn hides the error text of the last try.
SignIn(a) ==
    /\ page = "login"
    /\ error' = FALSE
    /\ Begin("signin", a)

-----------------------------------------------------------------------------
(* Registration.                                                           *)

\* Fault: the account of the address is taken as it is.
CreateLoginAgain(t) ==
    /\ work[t].stage = "creating"
    /\ LET new == {Min({Cardinality(Registered) + 1, MaxAccounts})}
           u == Min(IF Holder(work[t].address) = {} THEN new ELSE Holder(work[t].address))
       IN
       /\ login' = [login EXCEPT ![u] = work[t].address]
       /\ work' = [work EXCEPT ![t].stage = "created", ![t].uid = u]
    /\ UNCHANGED <<docs, client, identity, model, screen, taps, history, faults>>

\* Auth.createUser at the server: a new account for a free address.
CreateLogin(t) ==
    /\ work[t].stage = "creating"
    /\ Holder(work[t].address) = {}
    /\ Cardinality(Registered) < MaxAccounts
    /\ LET u == Cardinality(Registered) + 1 IN
       /\ login' = [login EXCEPT ![u] = work[t].address]
       /\ work' = [work EXCEPT ![t].stage = "created", ![t].uid = u]
    /\ UNCHANGED <<docs, client, identity, model, screen, taps, history, faults>>

\* The address is in use, the password too weak, the network down:
\* completion(false), of which the page shows nothing.
RefuseLogin(t) ==
    /\ work[t].stage = "creating"
    /\ work' = Without(work, t)
    /\ UNCHANGED <<cloud, client, identity, model, screen, taps, history, faults>>

\* The account was created and the answer is lost: an error as well.
LoseLogin(t) ==
    /\ work[t].stage = "created"
    /\ Fault
    /\ abandoned' = abandoned \cup {work[t].uid}
    /\ work' = Without(work, t)
    /\ UNCHANGED <<cloud, client, identity, model, screen, taps, overlapped, apart>>

\* Fault: the page is told before the document is written.
TakeLoginAndFinish(t) ==
    /\ work[t].stage = "created"
    /\ auth' = work[t].uid
    /\ session' = t
    /\ work' = [work EXCEPT ![t].stage = "written"]
    /\ UNCHANGED <<cloud, client, model, screen, taps, history, faults>>

\* createUser's completion: Auth has made the new account the current user, and
\* the image is uploaded.
TakeLogin(t) ==
    /\ work[t].stage = "created"
    /\ auth' = work[t].uid
    /\ session' = t
    /\ work' = [work EXCEPT ![t].stage = "uploading"]
    /\ UNCHANGED <<cloud, client, model, screen, taps, history, faults>>

\* Fault: the document of the current user is written.
AddCurrentUser(t, image) ==
    /\ IF auth = Nobody
       THEN /\ abandoned' = abandoned \cup {work[t].uid}
            /\ work' = Without(work, t)
            /\ UNCHANGED queue
       ELSE /\ queue' = [queue EXCEPT ![auth] = Append(@,
                  [kind |-> "new", uid |-> auth, email |-> work[t].address,
                   image |-> image, tap |-> t])]
            /\ work' = [work EXCEPT ![t].stage = "writing"]
            /\ UNCHANGED abandoned
    /\ UNCHANGED <<cloud, changes, identity, model, screen, taps, overlapped, apart>>

\* Fault: the new account's id is not put into the user.
AddUserWithoutId(t, image) ==
    /\ IF auth = Nobody
       THEN /\ abandoned' = abandoned \cup {work[t].uid}
            /\ work' = Without(work, t)
            /\ UNCHANGED queue
       ELSE /\ queue' = [queue EXCEPT ![auth] = Append(@,
                  [kind |-> "new", uid |-> Nobody, email |-> work[t].address,
                   image |-> image, tap |-> t])]
            /\ work' = [work EXCEPT ![t].stage = "writing"]
            /\ UNCHANGED abandoned
    /\ UNCHANGED <<cloud, changes, identity, model, screen, taps, overlapped, apart>>

\* addUser: nothing, if nobody is signed in by now; otherwise the document of
\* the new account is set, as a write of whoever is signed in.
AddUser(t, image) ==
    /\ IF auth = Nobody
       THEN /\ abandoned' = abandoned \cup {work[t].uid}
            /\ work' = Without(work, t)
            /\ UNCHANGED queue
       ELSE /\ queue' = [queue EXCEPT ![auth] = Append(@,
                  [kind |-> "new", uid |-> work[t].uid, email |-> work[t].address,
                   image |-> image, tap |-> t])]
            /\ work' = [work EXCEPT ![t].stage = "writing"]
            /\ UNCHANGED abandoned
    /\ UNCHANGED <<cloud, changes, identity, model, screen, taps, overlapped, apart>>

\* uploadProfileImage: uploaded and its URL known, or no JPEG could be made of
\* the image.
Upload(t) ==
    /\ work[t].stage = "uploading"
    /\ \/ AddUser(t, TRUE) /\ UNCHANGED faults
       \/ Fault /\ AddUser(t, FALSE)

\* ... or failed: nobody is called back.
LoseUpload(t) ==
    /\ work[t].stage = "uploading"
    /\ Fault
    /\ abandoned' = abandoned \cup {work[t].uid}
    /\ work' = Without(work, t)
    /\ UNCHANGED <<cloud, client, identity, model, screen, taps, overlapped, apart>>

-----------------------------------------------------------------------------
(* Writes: the client sends those of the signed-in account, in order.      *)

Told(t) == IF t \in DOMAIN work THEN [work EXCEPT ![t].stage = "written"] ELSE work

\* setData and updateData; an update of a document that is not there fails.
SendWrite ==
    /\ auth # Nobody /\ queue[auth] # <<>>
    /\ LET w == Head(queue[auth]) IN
       /\ docs' = [docs EXCEPT ![w.uid] =
                     IF w.kind = "new"
                     THEN [email |-> w.email, image |-> w.image, running |-> {}]
                     ELSE IF @ = NoDocument THEN @ ELSE [@ EXCEPT !.email = w.email]]
       /\ work' = Told(w.tap)
    /\ queue' = [queue EXCEPT ![auth] = Tail(@)]
    /\ UNCHANGED <<login, changes, identity, model, screen, taps, history, faults>>

\* The rules may refuse a document of another account.  addUser calls finished()
\* for an error as well.
RefuseWrite ==
    /\ auth # Nobody /\ queue[auth] # <<>>
    /\ LET w == Head(queue[auth]) IN
       /\ w.uid # auth
       /\ abandoned' = abandoned \cup {w.uid}
       /\ work' = Told(w.tap)
    /\ queue' = [queue EXCEPT ![auth] = Tail(@)]
    /\ UNCHANGED <<cloud, changes, identity, model, screen, taps, overlapped,
                   apart, faults>>

-----------------------------------------------------------------------------
(* The first fetch.                                                        *)

\* userViewModel = UserViewModel() for the present login, and fetchUser.
Fetching(w, t, u) ==
    [i \in DOMAIN w |->
        IF i = t THEN [w[i] EXCEPT !.stage = "fetching", !.uid = u, !.current = TRUE]
                 ELSE [w[i] EXCEPT !.current = FALSE]]

NewModel(u) == [uid |-> u, loaded |-> FALSE, list |-> <<>>]

\* Fault: the page is told at once.
FinishWithoutFetch(t) ==
    /\ work[t].stage = "written" /\ auth # Nobody
    /\ model' = NewModel(auth)
    /\ work' = Without(work, t)
    /\ UNCHANGED <<cloud, client, identity, screen, taps, history, faults>>

\* completion(true) of register.
FinishRegistration(t) ==
    /\ work[t].stage = "written" /\ auth # Nobody
    /\ model' = NewModel(auth)
    /\ work' = Fetching(work, t, auth)
    /\ UNCHANGED <<cloud, client, identity, screen, taps, history, faults>>

\* Auth.signIn accepts address and password.
AcceptSignIn(t) ==
    /\ work[t].stage = "signing"
    /\ \E u \in Holder(work[t].address) :
          /\ auth' = u
          /\ model' = NewModel(u)
          /\ work' = Fetching(work, t, u)
    /\ session' = t
    /\ UNCHANGED <<cloud, client, screen, taps, history, faults>>

\* A wrong password, an unknown address, no network.
RefuseSignIn(t) ==
    /\ work[t].stage = "signing"
    /\ error' = (error \/ work[t].shown)
    /\ work' = Without(work, t)
    /\ UNCHANGED <<cloud, client, identity, model, page, taps, history, faults>>

\* What getDocument returns: the document under the writes queued on this
\* device by whoever is signed in.
Seen(u) ==
    LET own == IF auth = Nobody THEN <<>> ELSE queue[auth]
        new == {k \in DOMAIN own : own[k].kind = "new" /\ own[k].uid = u}
    IN  IF new = {} THEN docs[u]
        ELSE [email |-> own[Max(new)].email, image |-> own[Max(new)].image, running |-> {}]

\* The document arrives: a look-up for each running challenge.
AnswerFetch(t) ==
    /\ work[t].stage = "fetching"
    /\ Seen(work[t].uid) # NoDocument
    /\ LET d == Seen(work[t].uid) IN
       work' = [work EXCEPT ![t].stage = "looking", ![t].image = d.image,
                            ![t].left = d.running]
    /\ UNCHANGED <<cloud, client, identity, model, screen, taps, history, faults>>

\* Fault: the group is not left.
LookUpStaying(t, c) ==
    /\ c \in work[t].left \ Range(work[t].list)
    /\ work' = [work EXCEPT ![t].list = Append(@, c)]
    /\ UNCHANGED <<cloud, client, identity, model, screen, taps, history, faults>>

\* getChallenge's document and then getCategory's arrive: the entry is appended
\* and the group left.
LookUp(t, c) ==
    /\ c \in work[t].left
    /\ work' = [work EXCEPT ![t].left = @ \ {c}, ![t].list = Append(@, c)]
    /\ UNCHANGED <<cloud, client, identity, model, screen, taps, history, faults>>

\* A get without a snapshot (the device is offline and has no copy): fetchUser
\* does nothing more, and a look-up never leaves its group.  Either way nobody
\* is called back.
LoseAnswer(t) ==
    /\ work[t].stage = "fetching" \/ work[t].left # {}
    /\ Fault
    /\ work' = Without(work, t)
    /\ UNCHANGED <<cloud, client, identity, model, screen, taps, history>>

\* Fault: the callback runs when the first look-up completes.
FinishFetchEarly(t) ==
    /\ work[t].stage = "looking" /\ work[t].image
    /\ Len(work[t].list) > 0 \/ work[t].left = {}
    /\ model' = IF work[t].current THEN [model EXCEPT !.loaded = TRUE, !.list = work[t].list]
                                   ELSE model
    /\ page' = IF work[t].shown THEN "home" ELSE page
    /\ error' = (error /\ ~work[t].shown)
    /\ work' = IF work[t].shown THEN Hidden(Without(work, t)) ELSE Without(work, t)
    /\ UNCHANGED <<cloud, client, identity, taps, history, faults>>

\* group.notify: the user is stored in the model this fetch was called on, and
\* the page, if it is still there, presents the home page.
FinishFetch(t) ==
    /\ work[t].stage = "looking" /\ work[t].left = {} /\ work[t].image
    /\ model' = IF work[t].current THEN [model EXCEPT !.loaded = TRUE, !.list = work[t].list]
                                   ELSE model
    /\ page' = IF work[t].shown THEN "home" ELSE page
    /\ error' = (error /\ ~work[t].shown)
    /\ work' = IF work[t].shown THEN Hidden(Without(work, t)) ELSE Without(work, t)
    /\ UNCHANGED <<cloud, client, identity, taps, history, faults>>

\* Where the chain traps: currentUser! with nobody signed in; document("") for a
\* missing activeChallenges; imageLink! for "".
WorkTraps(t) ==
    \/ work[t].stage = "written" /\ auth = Nobody
    \/ work[t].stage = "fetching" /\ Seen(work[t].uid) = NoDocument
    \/ work[t].stage = "looking" /\ work[t].left = {} /\ ~work[t].image

TrapOf(t) ==
    /\ WorkTraps(t)
    /\ Die
    /\ UNCHANGED <<cloud, auth, taps, overlapped, faults>>

\* A challenge without its document has the category "", and document("")
\* raises; an image that does not load is nil.
TrapOnMissingData(t) ==
    /\ work[t].stage = "looking"
    /\ Fault
    /\ Die
    /\ UNCHANGED <<cloud, auth, taps, overlapped>>

-----------------------------------------------------------------------------
(* Settings.                                                               *)

\* updateUserData: the document is updated and the login asked to change.
\* Each currentUser object has its own serial queue of updates.
ChangeEmail(a) ==
    /\ page = "home" /\ auth # Nobody
    /\ taps < MaxTaps
    /\ taps' = taps + 1
    /\ queue' = [queue EXCEPT ![auth] = Append(@,
           [kind |-> "email", uid |-> auth, email |-> a, image |-> FALSE, tap |-> 0])]
    /\ changes' = Append(changes, [uid |-> auth, email |-> a, session |-> session])
    /\ overlapped' = (overlapped \/ DOMAIN work # {})
    /\ apart' = IF \/ Seen(auth) = NoDocument
                   \/ \E k \in DOMAIN changes :
                         changes[k].uid = auth /\ changes[k].session # session
                THEN apart \cup {auth} ELSE apart
    /\ UNCHANGED <<cloud, identity, model, screen, work, abandoned, faults>>

\* Fault: the updates of an object are not serialised.
AnyChange(k) == TRUE

FirstOfSession(k) == \A j \in 1..(k - 1) : changes[j].session # changes[k].session

\* Firebase Auth makes the change, or refuses it because the address is taken
\* (or the login too old: a fault).
AnswerChange(k) ==
    /\ FirstOfSession(k)
    /\ LET c == changes[k] IN
       \/ /\ Holder(c.email) \subseteq {c.uid}
          /\ login' = [login EXCEPT ![c.uid] = c.email]
          /\ UNCHANGED <<apart, faults>>
       \/ /\ IF Holder(c.email) \subseteq {c.uid} THEN Fault ELSE UNCHANGED faults
          /\ apart' = apart \cup {c.uid}
          /\ UNCHANGED login
    /\ changes' = RemoveAt(changes, k)
    /\ UNCHANGED <<docs, queue, identity, model, screen, work, taps, overlapped,
                   abandoned>>

\* signOutUser: the models stay, the window gets the intro page.
SignOut ==
    /\ page = "home"
    /\ auth' = Nobody
    /\ session' = 0
    /\ page' = "intro"
    /\ work' = Hidden(work)
    /\ UNCHANGED <<cloud, client, model, error, taps, history, faults>>

-----------------------------------------------------------------------------
UserStep ==
    \/ \E p \in {"login", "details"} : OpenPage(p)
    \/ GoBack
    \/ \E a \in Address : Complete(a) \/ SignIn(a) \/ ChangeEmail(a)
    \/ SignOut

\* Answers of Firebase, and the callbacks they run.
Answer(t) ==
    \/ CreateLogin(t) \/ RefuseLogin(t) \/ TakeLogin(t) \/ Upload(t)
    \/ FinishRegistration(t) \/ AcceptSignIn(t) \/ RefuseSignIn(t)
    \/ AnswerFetch(t) \/ FinishFetch(t)
    \/ \E c \in Challenge : LookUp(t, c)

NetworkStep ==
    \/ \E t \in DOMAIN work : Answer(t)
    \/ SendWrite \/ RefuseWrite
    \/ \E k \in DOMAIN changes : AnswerChange(k)

Loss == \E t \in DOMAIN work : LoseLogin(t) \/ LoseUpload(t) \/ LoseAnswer(t)

TrapStep == \E t \in DOMAIN work : TrapOf(t)

\* The process ends, and the app is launched again.
Death == Kill \/ TrapStep \/ \E t \in DOMAIN work : TrapOnMissingData(t)

Next == UserStep \/ NetworkStep \/ Loss \/ Death

Spec == Init /\ [][Next]_vars

\* Firebase goes on answering; nobody is obliged to tap, and nothing to fail.
FairSpec == Spec /\ WF_vars(NetworkStep \/ TrapStep)

-----------------------------------------------------------------------------
TypeOK ==
    /\ login \in [Account -> Address \cup {NoAddress}]
    /\ docs \in [Account -> Document \cup {NoDocument}]
    /\ \A u \in Account : Range(queue[u]) \subseteq PendingWrite
    /\ auth \in Account \cup {Nobody}
    /\ session \in 0..MaxTaps
    /\ model.uid \in Account \cup {Nobody}
    /\ model.loaded \in BOOLEAN
    /\ Range(model.list) \subseteq Challenge
    /\ page \in {"intro", "login", "details", "home"}
    /\ error \in BOOLEAN
    /\ DOMAIN work \subseteq 1..taps
    /\ \A t \in DOMAIN work :
          /\ [work[t] EXCEPT !.list = <<>>]
                \in [kind: {"register", "signin"}, address: Address,
                    uid: Account \cup {Nobody}, stage: Stage, shown: BOOLEAN,
                    current: BOOLEAN, image: BOOLEAN,
                    left: SUBSET Challenge,
                    list: {<<>>}]
          /\ Range(work[t].list) \subseteq Challenge
    /\ \A k \in DOMAIN changes :
          changes[k] \in [uid: Account, email: Address, session: 0..MaxTaps]
    /\ taps \in 0..MaxTaps
    /\ overlapped \in BOOLEAN
    /\ abandoned \subseteq Account
    /\ apart \subseteq Account
    /\ faults \in 0..MaxFaults

\* The writes of users/<u> still queued, under whatever login.
QueuedFor(u, kind) ==
    {w \in UNION {Range(queue[v]) : v \in Account} : w.uid = u /\ w.kind = kind}

\* A login is created long before its document.  Unless the registration was
\* given up (upload failed, process ended, nobody signed in, refused by the
\* rules), the document is there, queued, or still on its way; and no document
\* or queued document is without its login.
LoginsGetDocuments ==
    \A u \in Account :
        LET given == docs[u] # NoDocument \/ QueuedFor(u, "new") # {} IN
        /\ u \in Registered \ abandoned =>
              given \/ \E t \in DOMAIN work :
                          work[t].uid = u /\ work[t].stage \in {"created", "uploading"}
        /\ given => u \in Registered

\* addUser replaces the whole document, so it must never meet one that exists:
\* taps are repeated, chains overlap and writes wait for their login.
NeverReset ==
    [][\A u \in Account : docs[u] # NoDocument =>
          docs'[u].running = docs[u].running /\ docs'[u].image = docs[u].image]_vars

\* At home, the model in memory is that of the signed-in account, which has a
\* document, sent or queued; once filled it lists every running challenge once.  Only work of
\* another button or address under way at the same time spoils it, or a change of
\* the address begun before all work is done.
SessionAgrees ==
    page = "home" /\ ~overlapped =>
        /\ auth # Nobody /\ model.uid = auth
        /\ Seen(auth) # NoDocument
        /\ model.loaded =>
              /\ Range(model.list) = Seen(auth).running
              /\ Len(model.list) = Cardinality(Seen(auth).running)

\* The e-mail is kept twice and changed in two calls; when neither is under way
\* the two agree, unless a change was refused, lost, overtaken by one of another
\* session, or made before the account had a document to be changed.
EmailsAgree ==
    \A u \in Registered \ apart :
        docs[u] # NoDocument /\ QueuedFor(u, "email") = {}
        /\ (\A k \in DOMAIN changes : changes[k].uid # u)
            => docs[u].email = login[u]

\* The chains are full of forced unwraps; none fails unless a call failed, data
\* is missing, the account was left without a document, or chains overlapped.
TrapsExplained ==
    (\E t \in DOMAIN work : WorkTraps(t)) => overlapped \/ faults > 0

\* SIGN IN leads to the home page or to an error text, unless something failed.
SignInAnswered ==
    (page = "login" /\ \E t \in DOMAIN work : work[t].shown)
        ~> (page # "login" \/ error \/ faults > 0)

\* A registration whose login was created leads to the home page, unless
\* something failed or another chain got in between.
RegistrationOpens ==
    (page = "details" /\ \E t \in DOMAIN work : work[t].shown /\ work[t].stage # "creating")
        ~> (page # "details" \/ overlapped \/ faults > 0)
=============================================================================
