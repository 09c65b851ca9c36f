---------------------------- MODULE Leaderboard ----------------------------
(***************************************************************************)
(* The leaderboard: LeaderboardViewModel reads all users once, when it is  *)
(* created, and ranks them for the week and the month; the LEADERBOARD tab *)
(* copies the result whenever it appears.  The model object is replaced by *)
(* a new, empty one at every login and every claim, and nobody waits for   *)
(* it to be filled.                                                        *)
(***************************************************************************)
EXTENDS Integers, Sequences, FiniteSets, FiniteSetsExt, Functions

CONSTANTS
    User,       \* numbered in the order of their documents
    Me,         \* the user of this device
    Sp,         \* points a challenge can be worth
    Half,       \* half of the length of the list; 15 in the code
    WeekDays,   \* 7 in the code
    MonthDays,  \* 30 in the code
    MaxDay,     \* bound: last day explored
    MaxDone,    \* bound: completions of all users together
    MaxOrphans  \* bound: replaced models still loading

ASSUME UserAssumption == User \subseteq Nat /\ IsFiniteSet(User) /\ Me \in User

ASSUME SizeAssumption ==
    /\ Half \in Nat \ {0}
    /\ Sp \subseteq Nat
    /\ WeekDays \in Nat
    /\ MonthDays \in Nat

VARIABLES
    today,
    done,       \* done[u]: completedChallenges of users/<u>
    app,        \* "off" not running, "intro" nobody signed in, "in" signed in
    model,      \* leaderboardViewModel
    orphans,    \* replaced models whose query is not answered yet
    screen,     \* LeaderboardViewController
    trap        \* what the last run of the app died of, "none" for a kill

vars == <<today, done, app, model, orphans, screen, trap>>

\* at: the day of the claim, which the document does not have; it bounds the
\* age of a copy that holds the completion.
Done == [date: Nat, sp: Sp, at: Nat]

Row == [user: User, rank: Nat, coins: Nat]

\* users and day: whose documents the answer held, and when it came.
Model == [own: BOOLEAN, loaded: BOOLEAN, users: SUBSET User, day: Nat,
          week: Seq(Row), month: Seq(Row)]

\* init: own tells whether currentUser is known.
Loading(own) == [own |-> own, loaded |-> FALSE, users |-> {}, day |-> 0,
                 week |-> <<>>, month |-> <<>>]

\* tab: "none" not created in this session, "away" another tab shows, "here".
Screen == [tab: {"none", "away", "here"}, week: Seq(Row), month: Seq(Row),
           podium: Seq(Row), persons: Seq(Row)]

NoScreen == [tab |-> "none", week |-> <<>>, month |-> <<>>,
             podium |-> <<>>, persons |-> <<>>]

-----------------------------------------------------------------------------
(* Ranking.                                                                *)

\* isPrevWeek, isPrevMonth: at most so many days ago, and not in the future.
Within(date, days, now) == 0 <= now - date /\ now - date <= days

\* weekCoins, monthCoins: the points of the completions of the last days.
CoinsOf(list, days, now) ==
    MapThenSumSet(LAMBDA i : list[i].sp,
                  {i \in DOMAIN list : Within(list[i].date, days, now)})

Coins(u, days, now) == CoinsOf(done[u], days, now)

\* sort(by:), which keeps the order of the documents among equals.
Rankings(users, days) ==
    {order \in [1..Cardinality(users) -> users] :
        /\ IsInjective(order)
        /\ Range(order) = users
        /\ \A i, j \in DOMAIN order : i < j =>
             LET a == Coins(order[i], days, today)
                 b == Coins(order[j], days, today)
             IN  a > b \/ (a = b /\ order[i] < order[j])}

\* firstIndex(where: myself) ?? -1
MyIndex(own, order) ==
    IF own /\ \E i \in DOMAIN order : order[i] = Me
    THEN (CHOOSE i \in DOMAIN order : order[i] = Me) - 1
    ELSE -1

\* Fault: one rank too far.
FarDownLate(me) == me >= Half + 3

\* The user is far enough down for a range around the own rank.
FarDown(me) == me >= Half + 2

\* The ranges of createLeaderboard, exclusive below and inclusive above.
MinRange(me) ==
    IF FarDown(me) THEN me - Half ELSE IF me > 2 THEN me - 2 ELSE 2

MaxRange(me) ==
    IF FarDown(me) THEN me + Half ELSE 2 * Half - MinRange(me)

\* Fault: the rank restarts below the podium.
RowAtIndex(order, days, i) ==
    [user |-> order[i + 1], rank |-> i,
     coins |-> Coins(order[i + 1], days, today)]

RowAt(order, days, i) ==
    [user |-> order[i + 1], rank |-> i + 1,
     coins |-> Coins(order[i + 1], days, today)]

\* createLeaderboard and appendToArray, for at least three persons: the first
\* three, then the persons of the range.
Board(order, days, me) ==
    LET last == IF MaxRange(me) < Len(order) - 1 THEN MaxRange(me) ELSE Len(order) - 1
    IN  [i \in 1..3 |-> RowAt(order, days, i - 1)]
        \o [i \in 1..(last - MinRange(me)) |-> RowAt(order, days, MinRange(me) + i)]

-----------------------------------------------------------------------------
Init ==
    /\ today = 0
    /\ done = [u \in User |-> <<>>]
    /\ app = "off"
    /\ model = Loading(FALSE)
    /\ orphans = 0
    /\ screen = NoScreen
    /\ trap = "none"

\* The process ends, by a trap or without.
Die(cause) ==
    /\ trap' = cause
    /\ app' = "off"
    /\ model' = Loading(FALSE)
    /\ orphans' = 0
    /\ screen' = NoScreen

\* leaderboardViewModel = LeaderboardViewModel(); the query of the old model,
\* if it is not answered yet, goes on.
Replace(own) ==
    /\ model' = Loading(own)
    /\ orphans' = IF model.loaded THEN orphans ELSE orphans + 1
    /\ orphans' <= MaxOrphans

\* AppDelegate: a login of an earlier run may or may not be remembered.
Launch ==
    /\ app = "off"
    /\ app' = "intro"
    /\ \E own \in BOOLEAN : model' = Loading(own)
    /\ trap' = "none"
    /\ UNCHANGED <<today, done, orphans, screen>>

\* LoginViewController.signIn, RegisterDetailsViewController.completeClicked
Login ==
    /\ app = "intro"
    /\ app' = "in"
    /\ Replace(TRUE)
    /\ UNCHANGED <<today, done, screen, trap>>

\* SettingsViewController.signOutUser; the leaderboard is left as it is.
SignOut ==
    /\ app = "in"
    /\ screen.tab # "here"
    /\ app' = "intro"
    /\ screen' = NoScreen
    /\ UNCHANGED <<today, done, model, orphans, trap>>

Kill ==
    /\ app # "off"
    /\ Die("none")
    /\ UNCHANGED <<today, done>>

\* fetchAllCompleted is answered with the documents of some users: all of them
\* by the server, those of the cache without it, none with an error.
Load(users) ==
    /\ app # "off"
    /\ ~model.loaded
    /\ Cardinality(users) >= 3
    /\ \E w \in Rankings(users, WeekDays), m \in Rankings(users, MonthDays) :
         model' = [own    |-> model.own,
                   loaded |-> TRUE,
                   users  |-> users,
                   day    |-> today,
                   week   |-> Board(w, WeekDays, MyIndex(model.own, w)),
                   month  |-> Board(m, MonthDays, MyIndex(model.own, m))]
    /\ UNCHANGED <<today, done, app, orphans, screen, trap>>

\* Fault: an answer is counted though no replaced model waits for one.
LoadOrphanAnyway ==
    /\ app # "off"
    /\ orphans' = orphans - 1
    /\ orphans' >= -1
    /\ UNCHANGED <<today, done, app, model, screen, trap>>

\* ... to a model that was replaced meanwhile.
LoadOrphan ==
    /\ orphans > 0
    /\ orphans' = orphans - 1
    /\ UNCHANGED <<today, done, app, model, screen, trap>>

\* An answer with fewer than three persons, to whichever model: personArray[i]
\* is out of bounds.
LoadTraps ==
    /\ app # "off"
    /\ ~model.loaded \/ orphans > 0
    /\ Die("load")
    /\ UNCHANGED <<today, done>>

-----------------------------------------------------------------------------
(* The tab.                                                                *)

\* setRanks: the first three of a copy of a board go to the podium.
Ranked(s, board) ==
    [s EXCEPT !.podium = SubSeq(board, 1, 3), !.persons = SubSeq(board, 4, Len(board))]

\* viewDidLoad, viewWillAppear: both copy the boards and show the week's.
OpenTab ==
    /\ app = "in"
    /\ screen.tab # "here"
    /\ model.loaded
    /\ screen' = Ranked([screen EXCEPT !.tab = "here", !.week = model.week,
                                       !.month = model.month], model.week)
    /\ UNCHANGED <<today, done, app, model, orphans, trap>>

\* The boards are still empty: persons.remove(at: 0) is out of bounds.
OpenTabTraps ==
    /\ app = "in"
    /\ screen.tab # "here"
    /\ ~model.loaded
    /\ Die("open")
    /\ UNCHANGED <<today, done>>

LeaveTab ==
    /\ screen.tab = "here"
    /\ screen' = [screen EXCEPT !.tab = "away"]
    /\ UNCHANGED <<today, done, app, model, orphans, trap>>

\* Fault: setRanks is not called.
ChangeViewWithoutRanks ==
    /\ screen.tab = "here"
    /\ \E board \in {screen.week, screen.month} :
         screen' = [screen EXCEPT !.persons = board]
    /\ UNCHANGED <<today, done, app, model, orphans, trap>>

\* changeView: WEEK or MONTH is chosen, from the copies.
ChangeView ==
    /\ screen.tab = "here"
    /\ \E board \in {screen.week, screen.month} : screen' = Ranked(screen, board)
    /\ UNCHANGED <<today, done, app, model, orphans, trap>>

-----------------------------------------------------------------------------
(* Completed challenges.                                                   *)

DoneSoFar == MapThenSumSet(LAMBDA u : Len(done[u]), User)

\* What a claim writes to completedChallenges: the completions of a copy in
\* memory, which may lack the newest ones and carries the day it was read as
\* their date, and the new one, dated with the day the challenge ended.
Rewritten(u, kept, read, end, sp) ==
    Append([i \in 1..kept |-> [done[u][i] EXCEPT !.date = read]],
           [date |-> end, sp |-> sp, at |-> today])

\* The claim sheet opens once the end date has come, and on any later day.
Complete(u) ==
    /\ DoneSoFar < MaxDone
    /\ \E kept \in 0..Len(done[u]), read, end \in 0..today, sp \in Sp :
         /\ \A i \in 1..kept : done[u][i].at <= read
         /\ done' = [done EXCEPT ![u] = Rewritten(u, kept, read, end, sp)]

\* Fault: the leaderboard is not asked for again.
ClaimKeepingModel ==
    /\ app = "in"
    /\ screen.tab # "here"
    /\ Complete(Me)
    /\ UNCHANGED <<today, app, model, orphans, screen, trap>>

\* ClaimCoinsModal.closeActiveChallenge: the writes are queued, then the
\* leaderboard is replaced; its query sees queued writes.
Claim ==
    /\ app = "in"
    /\ screen.tab # "here"
    /\ Complete(Me)
    /\ Replace(TRUE)
    /\ UNCHANGED <<today, app, screen, trap>>

\* The same on the device of another user.
ClaimElsewhere ==
    /\ \E u \in User \ {Me} : Complete(u)
    /\ UNCHANGED <<today, app, model, orphans, screen, trap>>

NextDay ==
    /\ today < MaxDay
    /\ today' = today + 1
    /\ UNCHANGED <<done, app, model, orphans, screen, trap>>

Next ==
    \/ Launch \/ Login \/ SignOut \/ Kill
    \/ \E users \in SUBSET User : Load(users)
    \/ LoadOrphan \/ LoadTraps
    \/ OpenTab \/ OpenTabTraps \/ LeaveTab \/ ChangeView
    \/ Claim \/ ClaimElsewhere
    \/ NextDay

Spec == Init /\ [][Next]_vars

-----------------------------------------------------------------------------
TypeOK ==
    /\ today \in Nat
    /\ done \in [User -> Seq(Done)]
    /\ app \in {"off", "intro", "in"}
    /\ model \in Model
    /\ orphans \in Nat
    /\ screen \in Screen
    /\ trap \in {"none", "load", "open"}

RowsOf(board, u) == {i \in DOMAIN board : board[i].user = u}

\* The literals 15, 17 and 2 of createLeaderboard fit each other: wherever the
\* user stands, podium and range together list the user exactly once.
OwnRowOnce ==
    model.own /\ Me \in model.users =>
        /\ Cardinality(RowsOf(model.week, Me)) = 1
        /\ Cardinality(RowsOf(model.month, Me)) = 1

Outranking(u, days) ==
    {v \in model'.users : Coins(v, days, today) > Coins(u, days, today)}

NotOutranked(u, days) ==
    {v \in model'.users : Coins(v, days, today) >= Coins(u, days, today)}

RankTrue(row, days) ==
    /\ row.coins = Coins(row.user, days, today)
    /\ Cardinality(Outranking(row.user, days)) < row.rank
    /\ row.rank <= Cardinality(NotOutranked(row.user, days))

\* Every rank a new board shows, in the podium or in the range, is the place of
\* that user's points among all users of the answer; equals share a range.
RanksTrue ==
    [][~model.loaded /\ model'.loaded =>
          /\ \A row \in Range(model'.week) : RankTrue(row, WeekDays)
          /\ \A row \in Range(model'.month) : RankTrue(row, MonthDays)]_vars

\* The points of the own completions dated at most so many days before the
\* model was filled.
OwnPoints(days) ==
    MapThenSumSet(LAMBDA k : done[Me][k].sp,
                  {k \in DOMAIN done[Me] : model.day - done[Me][k].date <= days})

\* What a claim made on this device is worth on the boards: no board was made
\* before a claim, because closeActiveChallenge replaces the model after it
\* queued the writes, and no completion is dated after the board.  So the own
\* row counts the completions that ended in the 7 or 30 days before the answer,
\* all of them and no other: a claim tapped longer than that after the end of
\* its challenge is not on the board, however recent the tap.
ClaimsCounted ==
    model.loaded /\ model.own =>
        /\ \A i \in RowsOf(model.week, Me) : model.week[i].coins = OwnPoints(WeekDays)
        /\ \A i \in RowsOf(model.month, Me) : model.month[i].coins = OwnPoints(MonthDays)

\* setRanks takes three persons away, yet whatever the order of taps podium
\* and rows together are a whole board, which also means that changeView,
\* unlike opening the tab, always finds three persons to take.
NobodyDropped ==
    screen.tab # "none" =>
        /\ screen.podium \o screen.persons \in {screen.week, screen.month}
        /\ Len(screen.podium) = 3

\* LeaderboardViewModel.swift:135 takes a "top 3" for granted and so does
\* setRanks: opening the tab does not kill the app.
OpeningNeverTraps == trap # "open"
=============================================================================
