---------------------------- MODULE UserAccount ----------------------------
(***************************************************************************)
(* The life of one UnireCycle account: its Firestore document users/<uid>, *)
(* the devices signed in to it, and what their screens do to it.           *)
(*                                                                         *)
(* Every screen of the app works on a copy of the document in memory       *)
(* (userViewModel.user), which only fetchUser refreshes.  A handler        *)
(* rebuilds a WHOLE field of the document from that copy and writes it     *)
(* back with setData(merge: true) or updateData; nothing is a transaction. *)
(* The Firestore client queues a device's writes and sends them in order,  *)
(* and shows a device its own unsent writes in what it reads.              *)
(***************************************************************************)
EXTENDS Integers, Sequences, FiniteSets, SequencesExt

CONSTANTS
    Device,         \* phones on which the user may be signed in
    Challenge,      \* documents of the collection "challenges"
    None,           \* no challenge
    Value,          \* Value[c]: the field "value" of challenge c
    Price,          \* prices of the rewards on offer
    ChallengeDays,  \* days from startDate to endDate; 7 in the code
    MonthDays,      \* days in a calendar month
    MaxActive,      \* TWO_ACTIVE_CHALLENGES; 2 in the code
    MaxDay,         \* bound: last day explored
    MaxWrites,      \* bound: taps that write to the document
    MaxFetches      \* bound: fetchUser calls in flight on a device

ASSUME CatalogueAssumption ==
    /\ None \notin Challenge
    /\ Value \in [Challenge -> Nat]
    /\ Price \subseteq Nat

ASSUME CalendarAssumption ==
    /\ ChallengeDays \in Nat \ {0}
    /\ MonthDays \in Nat \ {0}

ASSUME LimitAssumption == MaxActive \in Nat

ASSUME BoundAssumption ==
    /\ MaxDay \in Nat
    /\ MaxWrites \in Nat
    /\ MaxFetches \in Nat \ {0}

VARIABLES
    doc,        \* the server's document: activeChallenges, completedChallenges, coins
    queue,      \* queue[d]: writes device d has issued and not yet sent, in order
    session,    \* session[d]: how far device d is into a session
    user,       \* user[d]: userViewModel.user
    rows,       \* rows[d]: activeUser.activeChallenges, the rows of the ACTIVE tab
    logPage,    \* logPage[d]: the challenge of the pushed ActionLog page, or None
    modal,      \* modal[d]: the claim sheet or the reward question that is open
    fetches,    \* fetches[d]: fetchUser calls in flight, oldest first
    today,      \* the current day
    writes,     \* number of taps that wrote (for the bound)
    earned,     \* sum of the points the claim sheets credited (history)
    spent       \* sum of the prices of the rewards taken (history)

net == <<doc, queue>>
ledger == <<earned, spent>>
vars == <<doc, queue, session, user, rows, logPage, modal, fetches, today,
          writes, earned, spent>>

-----------------------------------------------------------------------------
(* The document and the values written to it.                              *)

\* An element of activeChallenges.  endDate is always startDate plus seven
\* days and is copied along with it, so it is derived here (EndOf).
Entry == [id: Challenge, start: Nat, days: Seq(Nat)]

EndOf(e) == e.start + ChallengeDays

\* An element of completedChallenges: "challengeId", "date" and "sp".
Done == [id: Challenge, date: Nat, sp: Nat]

Account == [active: Seq(Entry), completed: Seq(Done), coins: Int]

NewAccount == [active |-> <<>>, completed |-> <<>>, coins |-> 0]

\* A write names the one field it replaces.
Write == [active: Seq(Entry)] \cup [completed: Seq(Done)] \cup [coins: Int]

\* setData(merge: true) and updateData: the named field is replaced whole.
Merge(account, w) ==
    [f \in DOMAIN account |-> IF f \in DOMAIN w THEN w[f] ELSE account[f]]

\* The unsent writes of device d to field f.
WritesOf(d, f) == {i \in DOMAIN queue[d] : f \in DOMAIN queue[d][i]}

\* The last of them, or 0.
LastUnsent(d, f) ==
    IF WritesOf(d, f) = {} THEN 0
    ELSE CHOOSE i \in WritesOf(d, f) : \A j \in WritesOf(d, f) : j <= i

Seen(d, f) ==
    LET i == LastUnsent(d, f) IN IF i = 0 THEN doc[f] ELSE queue[d][i][f]

\* What a read on device d returns: the document under d's unsent writes.
Overlay(d) == [active    |-> Seen(d, "active"),
               completed |-> Seen(d, "completed"),
               coins     |-> Seen(d, "coins")]

\* fetchUser asks for "endDate" where completeActiveChallenge wrote "date",
\* so every completion read gets the date of the reading.
Decoded(account) ==
    [account EXCEPT !.completed =
        [i \in DOMAIN account.completed |->
            [account.completed[i] EXCEPT !.date = today]]]

\* The orders in which the look-ups of a list of challenges can be answered.
Reorderings(s) ==
    {[i \in DOMAIN s |-> s[p[i]]] :
        p \in {q \in [DOMAIN s -> DOMAIN s] :
                 \A i, j \in DOMAIN s : q[i] = q[j] => i = j}}

DayOfMonth(day) == day % MonthDays

-----------------------------------------------------------------------------
(* fetchUser calls and the sheets.                                         *)

\* Who called fetchUser decides what its callback does:
\*   "login"   the session opens on the home page, which fetches
\*   "home"    only userViewModel.user changes
\*   "view"    ActiveViewController copies it to its rows and closes its sheet
\*   "segment" the same, and it fetches again
Origin == {"login", "home", "view", "segment"}

Fetch == [origin: Origin, answered: BOOLEAN, snap: Account]

\* Fault: only the segmented control's fetch refreshes the ACTIVE tab.
RefreshesRowsOnSegment(fetch) == fetch.origin = "segment"

\* ActiveViewController.updateActiveChallenge made the call.
RefreshesRows(fetch) == fetch.origin \in {"view", "segment"}

\* The fetches that the callback of a fetch begins.
FollowUps(fetch) ==
    IF fetch.origin = "login" THEN <<"home">>
    ELSE IF fetch.origin = "segment" THEN <<"view">>
    ELSE <<>>

NewFetch(o) == [origin |-> o, answered |-> FALSE, snap |-> NewAccount]

NewFetches(origins) == [i \in DOMAIN origins |-> NewFetch(origins[i])]

\* coins is what the claim sheet will credit, or the price of the reward.
Modal == [kind: {"claim"}, id: Challenge, date: Nat, coins: Nat]
         \cup [kind: {"none", "reward"}, id: {None}, date: Nat, coins: Nat]

NoModal == [kind |-> "none", id |-> None, date |-> 0, coins |-> 0]

\* "out"     no user signed in       "opening" signed in, first fetch pending
\* "home"    the Challenges tab was not opened yet    "tabs"  it was
Session == {"out", "opening", "home", "tabs"}

SignedIn(d) == session[d] \in {"home", "tabs"}

\* No sheet or alert covers the tabs.
Uncovered(d) == SignedIn(d) /\ modal[d].kind = "none"

\* The root of the Challenges tab is showing or can be switched to.
AtChallenges(d) == session[d] = "tabs" /\ Uncovered(d) /\ logPage[d] = None

RoomFor(d, n) == Len(fetches[d]) + n <= MaxFetches

Begin(d, origins) ==
    /\ RoomFor(d, Len(origins))
    /\ fetches' = [fetches EXCEPT ![d] = @ \o NewFetches(origins)]

Issue(d, ws) ==
    /\ writes < MaxWrites
    /\ writes' = writes + 1
    /\ queue' = [queue EXCEPT ![d] = @ \o ws]

-----------------------------------------------------------------------------
(* What the handlers write, computed from the copy in memory.              *)

Matches(list, c) == {i \in DOMAIN list : list[i].id = c}

\* updateActiveChallenge(challengeId:)
Started(account, c) ==
    Append(account.active, [id |-> c, start |-> today, days |-> <<>>])

\* Fault: the new day is put in front.
LoggedInFront(account, c) ==
    [i \in DOMAIN account.active |->
        IF account.active[i].id = c
        THEN [account.active[i] EXCEPT !.days = <<today>> \o @]
        ELSE account.active[i]]

\* updateDaysComplete(challengeId:) adds now to every entry of the challenge.
Logged(account, c) ==
    [i \in DOMAIN account.active |->
        IF account.active[i].id = c
        THEN [account.active[i] EXCEPT !.days = Append(@, today)]
        ELSE account.active[i]]

\* Fault: the first entry is removed, whichever it is.
RemainingAfterFirst(account, c) ==
    IF Matches(account.active, c) = {} THEN account.active
    ELSE RemoveAt(account.active, 1)

\* completeActiveChallenge: the entries that stay active ...
Remaining(account, c) ==
    IF Matches(account.active, c) = {} THEN account.active
    ELSE RemoveAt(account.active, CHOOSE i \in Matches(account.active, c) : TRUE)

\* ... unless a second entry matches: remove(at: index) is out of bounds.
RemovalTraps(account, c) == Cardinality(Matches(account.active, c)) > 1

\* ... and the completions, those of memory and the new one.
Completed(account, m) ==
    Append(account.completed, [id |-> m.id, date |-> m.date, sp |-> m.coins])

-----------------------------------------------------------------------------
\* A freshly registered user (FirebasAuthHelper.addUser writes empty arrays
\* and no coins), not signed in anywhere yet.
Init ==
    /\ doc = NewAccount
    /\ queue = [d \in Device |-> <<>>]
    /\ session = [d \in Device |-> "out"]
    /\ user = [d \in Device |-> NewAccount]
    /\ rows = [d \in Device |-> <<>>]
    /\ logPage = [d \in Device |-> None]
    /\ modal = [d \in Device |-> NoModal]
    /\ fetches = [d \in Device |-> <<>>]
    /\ today = 0
    /\ writes = 0
    /\ earned = 0
    /\ spent = 0

-----------------------------------------------------------------------------
(* The session.                                                            *)

\* Fault: the session waits for a fetch that nobody asked for.
SignInWithoutFetch(d) ==
    /\ session[d] = "out"
    /\ session' = [session EXCEPT ![d] = "opening"]
    /\ user' = [user EXCEPT ![d] = NewAccount]
    /\ UNCHANGED <<net, rows, logPage, modal, fetches, today, writes, ledger>>

\* LoginViewController.signIn: a new UserViewModel, whose first fetch opens
\* the home page.
SignIn(d) ==
    /\ session[d] = "out"
    /\ session' = [session EXCEPT ![d] = "opening"]
    /\ user' = [user EXCEPT ![d] = NewAccount]
    /\ Begin(d, <<"login">>)
    /\ UNCHANGED <<net, rows, logPage, modal, today, writes, ledger>>

\* The process of device d dies: its memory is gone; the first k of its
\* unsent writes were persisted by the Firestore client.
Die(d, k) ==
    /\ queue' = [queue EXCEPT ![d] = SubSeq(@, 1, k)]
    /\ session' = [session EXCEPT ![d] = "out"]
    /\ user' = [user EXCEPT ![d] = NewAccount]
    /\ rows' = [rows EXCEPT ![d] = <<>>]
    /\ logPage' = [logPage EXCEPT ![d] = None]
    /\ modal' = [modal EXCEPT ![d] = NoModal]
    /\ fetches' = [fetches EXCEPT ![d] = <<>>]

\* The user or the system kills the app; setData persists asynchronously, so
\* writes at the end of the queue can be lost with it.
Kill(d) ==
    /\ session[d] # "out"
    /\ \E k \in 0..Len(queue[d]) : Die(d, k)
    /\ UNCHANGED <<doc, today, writes, ledger>>

\* SettingsViewController.signOutUser.  The view models and controllers of the
\* session are left to what is still in flight; the unsent writes stay queued.
SignOut(d) ==
    /\ Uncovered(d)
    /\ Die(d, Len(queue[d]))
    /\ UNCHANGED <<doc, today, writes, ledger>>

\* viewWillAppear of Home (and of the profile pages): fetchUser.
OpenHome(d) ==
    /\ Uncovered(d)
    /\ Begin(d, <<"home">>)
    /\ UNCHANGED <<net, session, user, rows, logPage, modal, today, writes, ledger>>

\* viewWillAppear of ChallengeHomeViewController.  The first time, viewDidLoad
\* of ActiveViewController copies userViewModel.user.
OpenChallenges(d) ==
    /\ Uncovered(d)
    /\ logPage[d] = None
    /\ session' = [session EXCEPT ![d] = "tabs"]
    /\ rows' = IF session[d] = "home" THEN [rows EXCEPT ![d] = user[d].active]
                                      ELSE rows
    /\ Begin(d, <<"view">>)
    /\ UNCHANGED <<net, user, logPage, modal, today, writes, ledger>>

\* ChallengeHomeViewController.changeView: BROWSE or ACTIVE is chosen.
ChangeSegment(d) ==
    /\ AtChallenges(d)
    /\ Begin(d, <<"segment">>)
    /\ UNCHANGED <<net, session, user, rows, logPage, modal, today, writes, ledger>>

-----------------------------------------------------------------------------
(* fetchUser: asked, answered with the document as device d sees it, and   *)
(* installed once every challenge of the answer has been looked up.        *)

AnswerFetch(d, i) ==
    /\ ~fetches[d][i].answered
    /\ fetches' = [fetches EXCEPT ![d][i].answered = TRUE,
                                  ![d][i].snap = Decoded(Overlay(d))]
    /\ UNCHANGED <<net, session, user, rows, logPage, modal, today, writes, ledger>>

InstallFetch(d, i) ==
    LET fetch  == fetches[d][i]
        others == RemoveAt(fetches[d], i)
    IN
    /\ fetch.answered
    /\ \E active \in Reorderings(fetch.snap.active),
          completed \in Reorderings(fetch.snap.completed) :
         /\ user' = [user EXCEPT ![d] = [active    |-> active,
                                         completed |-> completed,
                                         coins     |-> fetch.snap.coins]]
         /\ rows' = IF RefreshesRows(fetch) THEN [rows EXCEPT ![d] = active] ELSE rows
    /\ session' = IF fetch.origin = "login"
                  THEN [session EXCEPT ![d] = "home"] ELSE session
    /\ modal' = IF RefreshesRows(fetch) /\ modal[d].kind = "claim"
                THEN [modal EXCEPT ![d] = NoModal] ELSE modal
    /\ fetches' = [fetches EXCEPT ![d] = others \o NewFetches(FollowUps(fetch))]
    /\ UNCHANGED <<net, logPage, today, writes, ledger>>

\* The server applies the oldest write of device d.  (Also of one whose process
\* is gone: the write was on its way.)
SendWrite(d) ==
    /\ queue[d] # <<>>
    /\ doc' = Merge(doc, Head(queue[d]))
    /\ queue' = [queue EXCEPT ![d] = Tail(@)]
    /\ UNCHANGED <<session, user, rows, logPage, modal, fetches, today, writes, ledger>>

-----------------------------------------------------------------------------
(* Challenges.                                                             *)

\* Fault: the limit is not tested.
StartChallengeUnlimited(d, c) ==
    /\ AtChallenges(d)
    /\ Issue(d, <<[active |-> Started(user[d], c)]>>)
    /\ Begin(d, <<"view">>)
    /\ UNCHANGED <<doc, session, user, rows, logPage, modal, today, ledger>>

\* ChallengeStartViewController.checkIfChallengesIsTwo, after CONTINUE; the
\* page pops to the root, whose viewWillAppear fetches.
StartChallenge(d, c) ==
    /\ AtChallenges(d)
    /\ Len(user[d].active) # MaxActive
    /\ Issue(d, <<[active |-> Started(user[d], c)]>>)
    /\ Begin(d, <<"view">>)
    /\ UNCHANGED <<doc, session, user, rows, logPage, modal, today, ledger>>

\* ActiveViewController.didSelectRowAt compares days of the month only: the
\* last day logged (today if there is none) with the end date.
LastDay(e) == IF e.days = <<>> THEN today ELSE Last(e.days)

EndReached(e) == DayOfMonth(LastDay(e)) = DayOfMonth(EndOf(e))

\* Fault: the first day logged is compared, not the last.
LoggedFirstToday(e) == e.days # <<>> /\ DayOfMonth(Head(e.days)) = DayOfMonth(today)

LoggedToday(e) == e.days # <<>> /\ DayOfMonth(Last(e.days)) = DayOfMonth(today)

\* Fault: the log of the end date is not paid.
OpenClaimOffByOne(d, i) ==
    LET e == rows[d][i] IN
    /\ AtChallenges(d)
    /\ EndReached(e)
    /\ modal' = [modal EXCEPT ![d] =
                   [kind |-> "claim", id |-> e.id, date |-> EndOf(e),
                    coins |-> Value[e.id] * (Len(e.days) - 1)]]
    /\ UNCHANGED <<net, session, user, rows, logPage, fetches, today, writes, ledger>>

\* The claim sheet is opened with the points of the days logged.
OpenClaim(d, i) ==
    LET e == rows[d][i] IN
    /\ AtChallenges(d)
    /\ EndReached(e)
    /\ modal' = [modal EXCEPT ![d] =
                   [kind |-> "claim", id |-> e.id, date |-> EndOf(e),
                    coins |-> Value[e.id] * Len(e.days)]]
    /\ UNCHANGED <<net, session, user, rows, logPage, fetches, today, writes, ledger>>

\* The ActionLog page is pushed; otherwise an alert says that an action was
\* already logged for this day, and nothing changes.
OpenLog(d, i) ==
    LET e == rows[d][i] IN
    /\ AtChallenges(d)
    /\ ~EndReached(e)
    /\ ~LoggedToday(e)
    /\ logPage' = [logPage EXCEPT ![d] = e.id]
    /\ UNCHANGED <<net, session, user, rows, modal, fetches, today, writes, ledger>>

\* Back without logging: the root's viewWillAppear fetches.
LeaveLog(d) ==
    /\ Uncovered(d)
    /\ logPage[d] # None
    /\ logPage' = [logPage EXCEPT ![d] = None]
    /\ Begin(d, <<"view">>)
    /\ UNCHANGED <<net, session, user, rows, modal, today, writes, ledger>>

\* ActionLogViewController.logAction: the write, a fetch by a throw-away
\* ActiveViewController, and the pop to the root, which fetches too.
LogAction(d) ==
    /\ Uncovered(d)
    /\ logPage[d] # None
    /\ Issue(d, <<[active |-> Logged(user[d], logPage[d])]>>)
    /\ logPage' = [logPage EXCEPT ![d] = None]
    /\ Begin(d, <<"home", "view">>)
    /\ UNCHANGED <<doc, session, user, rows, modal, today, ledger>>

\* Fault: the sheet and the view model both add the points.
ClaimAddingTwice(d) ==
    /\ modal[d].kind = "claim"
    /\ ~RemovalTraps(user[d], modal[d].id)
    /\ Issue(d, <<[active    |-> Remaining(user[d], modal[d].id)],
                  [completed |-> Completed(user[d], modal[d])],
                  [coins     |-> user[d].coins + 2 * modal[d].coins]>>)
    /\ earned' = earned + modal[d].coins
    /\ Begin(d, <<"view">>)
    /\ UNCHANGED <<doc, session, user, rows, logPage, modal, today, spent>>

\* ClaimCoinsModal.closeActiveChallenge and completeActiveChallenge.  The
\* sheet stays open, its button enabled, until a fetch of the tab returns.
Claim(d) ==
    /\ modal[d].kind = "claim"
    /\ ~RemovalTraps(user[d], modal[d].id)
    /\ Issue(d, <<[active    |-> Remaining(user[d], modal[d].id)],
                  [completed |-> Completed(user[d], modal[d])],
                  [coins     |-> user[d].coins + modal[d].coins]>>)
    /\ earned' = earned + modal[d].coins
    /\ Begin(d, <<"view">>)
    /\ UNCHANGED <<doc, session, user, rows, logPage, modal, today, spent>>

\* remove(at: index) traps before anything is written: the app crashes.
ClaimTraps(d) ==
    /\ modal[d].kind = "claim"
    /\ RemovalTraps(user[d], modal[d].id)
    /\ Die(d, Len(queue[d]))
    /\ UNCHANGED <<doc, today, writes, ledger>>

\* ClaimCoinsPresentationVC.dismissController: a tap beside the sheet.  Its
\* checkIfLastChallenge fetches only when the table has no row.
CloseClaim(d) ==
    /\ modal[d].kind = "claim"
    /\ modal' = [modal EXCEPT ![d] = NoModal]
    /\ IF rows[d] = <<>> THEN Begin(d, <<"view">>) ELSE UNCHANGED fetches
    /\ UNCHANGED <<net, session, user, rows, logPage, today, writes, ledger>>

-----------------------------------------------------------------------------
(* Rewards.                                                                *)

\* Fault: the question is asked whatever the balance.
ChooseRewardUnchecked(d, p) ==
    /\ Uncovered(d)
    /\ modal' = [modal EXCEPT ![d] = [NoModal EXCEPT !.kind = "reward", !.coins = p]]
    /\ UNCHANGED <<net, session, user, rows, logPage, fetches, today, writes, ledger>>

\* RewardClaimViewController.claimReward: enough points, so the question
\* "Are you sure?" is asked; otherwise an alert, and nothing changes.
ChooseReward(d, p) ==
    /\ Uncovered(d)
    /\ user[d].coins >= p
    /\ modal' = [modal EXCEPT ![d] = [NoModal EXCEPT !.kind = "reward", !.coins = p]]
    /\ UNCHANGED <<net, session, user, rows, logPage, fetches, today, writes, ledger>>

\* Fault: memory keeps the old balance.
TakeRewardOnServerOnly(d) ==
    /\ modal[d].kind = "reward"
    /\ Issue(d, <<[coins |-> user[d].coins - modal[d].coins]>>)
    /\ modal' = [modal EXCEPT ![d] = NoModal]
    /\ spent' = spent + modal[d].coins
    /\ UNCHANGED <<doc, session, user, rows, logPage, fetches, today, earned>>

\* YES: updateSP subtracts the price in memory and writes the result.
TakeReward(d) ==
    LET left == user[d].coins - modal[d].coins IN
    /\ modal[d].kind = "reward"
    /\ Issue(d, <<[coins |-> left]>>)
    /\ user' = [user EXCEPT ![d].coins = left]
    /\ modal' = [modal EXCEPT ![d] = NoModal]
    /\ spent' = spent + modal[d].coins
    /\ UNCHANGED <<doc, session, rows, logPage, fetches, today, earned>>

\* NO.
LeaveReward(d) ==
    /\ modal[d].kind = "reward"
    /\ modal' = [modal EXCEPT ![d] = NoModal]
    /\ UNCHANGED <<net, session, user, rows, logPage, fetches, today, writes, ledger>>

-----------------------------------------------------------------------------
NextDay ==
    /\ today < MaxDay
    /\ today' = today + 1
    /\ UNCHANGED <<net, session, user, rows, logPage, modal, fetches, writes, ledger>>

\* What the person holding device d does.
UserStep(d) ==
    \/ SignIn(d)
    \/ SignOut(d)
    \/ OpenHome(d)
    \/ OpenChallenges(d)
    \/ ChangeSegment(d)
    \/ \E c \in Challenge : StartChallenge(d, c)
    \/ \E i \in DOMAIN rows[d] : OpenClaim(d, i) \/ OpenLog(d, i)
    \/ LeaveLog(d)
    \/ LogAction(d)
    \/ Claim(d)
    \/ ClaimTraps(d)
    \/ CloseClaim(d)
    \/ \E p \in Price : ChooseReward(d, p)
    \/ TakeReward(d)
    \/ LeaveReward(d)

\* What Firestore does for device d.
NetworkStep(d) ==
    \/ \E i \in DOMAIN fetches[d] : AnswerFetch(d, i) \/ InstallFetch(d, i)
    \/ SendWrite(d)

Next ==
    \/ \E d \in Device : UserStep(d) \/ NetworkStep(d) \/ Kill(d)
    \/ NextDay

Spec == Init /\ [][Next]_vars

-----------------------------------------------------------------------------
TypeOK ==
    /\ doc \in Account
    /\ queue \in [Device -> Seq(Write)]
    /\ session \in [Device -> Session]
    /\ user \in [Device -> Account]
    /\ rows \in [Device -> Seq(Entry)]
    /\ logPage \in [Device -> Challenge \cup {None}]
    /\ modal \in [Device -> Modal]
    /\ fetches \in [Device -> Seq(Fetch)]
    /\ today \in Nat
    /\ writes \in Nat
    /\ earned \in Nat
    /\ spent \in Nat

-----------------------------------------------------------------------------
(* Every copy of the account that a later write can be built from, or that *)
(* can still reach the document.                                           *)

ListsOn(d) ==
    {user[d].active, rows[d]}
    \cup {fetches[d][i].snap.active : i \in DOMAIN fetches[d]}
    \cup {queue[d][i].active : i \in WritesOf(d, "active")}

ActiveLists == {doc.active} \cup UNION {ListsOn(d) : d \in Device}

BalancesOn(d) ==
    {user[d].coins}
    \cup {fetches[d][i].snap.coins : i \in DOMAIN fetches[d]}
    \cup {queue[d][i].coins : i \in WritesOf(d, "coins")}

Balances == {doc.coins} \cup UNION {BalancesOn(d) : d \in Device}

\* The limit of two active challenges (checkIfChallengesIsTwo) is tested with
\* == on a copy that may be stale, before a write another device may overtake;
\* still no copy of the account ever exceeds it.
AtMostTwoActive == \A list \in ActiveLists : Len(list) <= MaxActive

\* didSelectRowAt takes the last element of daysCompleted for the latest log
\* and progress is counted from startDate: whatever copies overwrite each
\* other, the days of an entry stay in order, from its start to today.
LogsInOrder ==
    \A list \in ActiveLists : \A k \in DOMAIN list :
        /\ list[k].start <= today
        /\ \A i, j \in DOMAIN list[k].days :
             i <= j => list[k].days[i] <= list[k].days[j]
        /\ \A i \in DOMAIN list[k].days :
             list[k].start <= list[k].days[i] /\ list[k].days[i] <= today

\* Stale balances overwrite each other too (closeActiveChallenge, updateSP),
\* yet no balance exceeds what claim sheets credited, or is below what the
\* rewards taken can explain.
BalancesExplained == \A c \in Balances : 0 <= c + spent /\ c <= earned
=============================================================================
