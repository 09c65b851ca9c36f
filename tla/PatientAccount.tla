--------------------------- MODULE PatientAccount ---------------------------
(***************************************************************************)
(* UserAccount for a patient user: one device at a time, no tap while a    *)
(* fetch or a write of the device is under way, and no start of a          *)
(* challenge that is already running.  The app enforces none of the three; *)
(* under them it keeps the promises of ChallengeLedger, and the properties *)
(* below are broken when any of them is dropped.                           *)
(***************************************************************************)
EXTENDS UserAccount

\* Comparing days of the month finds the end date only because a challenge is
\* shorter than a month (ChallengeStartViewController adds seven days).
ASSUME CycleAssumption == ChallengeDays < MonthDays

Settled(d) == queue[d] = <<>> /\ fetches[d] = <<>>

Alone(d) == \A e \in Device \ {d} : session[e] = "out" /\ Settled(e)

RunsOnce(list) == \A i, j \in DOMAIN list : list[i].id = list[j].id => i = j

\* A user who waits, on one device at a time.
WaitingNext ==
    \/ \E d \in Device :
         \/ Alone(d) /\ Settled(d) /\ (UserStep(d) \/ Kill(d))
         \/ NetworkStep(d)
    \/ NextDay

\* ... and who does not start a running challenge again.
PatientNext ==
    /\ WaitingNext
    /\ \A d \in Device : RunsOnce(Overlay(d).active)'

\* Firestore is reachable: the oldest fetch of a device is answered and its
\* challenges are looked up.  Users are free to stop; writes need not be sent.
NetworkFairness ==
    \A d \in Device :
        WF_vars(/\ fetches[d] # <<>>
                /\ AnswerFetch(d, 1) \/ InstallFetch(d, 1))

WaitingSpec == Init /\ [][WaitingNext]_vars
PatientSpec == Init /\ [][PatientNext]_vars
FairSpec == Spec /\ NetworkFairness

-----------------------------------------------------------------------------
(* The ledger that an account implements: the document under the writes    *)
(* still unsent, its lists read as a set and a bag.                        *)

Current ==
    IF \E d \in Device : queue[d] # <<>>
    THEN Overlay(CHOOSE d \in Device : queue[d] # <<>>)
    ELSE doc

\* The points of the completed challenges, whatever their order and date.
PaidBag(account) ==
    LET paid == [i \in DOMAIN account.completed |->
                   [id |-> account.completed[i].id, sp |-> account.completed[i].sp]]
    IN  [p \in Range(paid) |-> Cardinality({i \in DOMAIN paid : paid[i] = p})]

Ledger == INSTANCE ChallengeLedger WITH
    date    <- today,
    running <- Range(Current.active),
    paid    <- PaidBag(Current),
    balance <- Current.coins

\* The whole account, seen through its unsent writes, behaves like the
\* ledger: a claim (three separate writes) takes the challenge off the list
\* exactly when it pays for it, a log adds one day to one challenge.
ImplementsLedger == Ledger!Spec

\* Once nothing is under way, memory (userViewModel.user, activeUser) is the
\* document again, up to the order of its lists: no handler of an idle device
\* works from a stale copy.
MemoryIsCurrent ==
    \A d \in Device : Settled(d) /\ SignedIn(d) =>
        /\ user[d].active \in Reorderings(doc.active)
        /\ PaidBag(user[d]) = PaidBag(doc)
        /\ user[d].coins = doc.coins
        /\ session[d] = "tabs" => rows[d] \in Reorderings(doc.active)

\* "you have already logged an action for this day": no entry of the document
\* has two logs of one day.
OneLogPerDay ==
    \A k \in DOMAIN doc.active : \A i, j \in DOMAIN doc.active[k].days :
        doc.active[k].days[i] = doc.active[k].days[j] => i = j

\* "You do not have enough SP": no reward is paid from points not in hand.
NeverOverdrawn == doc.coins >= 0

\* Fault: the two outcomes are exchanged.
LatestShownSwapped(list) ==
    FoldLeft(LAMBDA a, b : IF a.start > EndOf(b) THEN b ELSE a, Head(list), list)

\* HomeViewController.viewWillAppear: the challenge shown under "Latest
\* challenge" is folded from memory with startDate compared to endDate.
LatestShown(list) ==
    FoldLeft(LAMBDA a, b : IF a.start > EndOf(b) THEN a ELSE b, Head(list), list)

\* The comparison of a start with an end shows the newest challenge only if no
\* two overlap; what it does guarantee, and only thanks to the limit of two, is
\* that no challenge in memory was started after the one shown had ended.
LatestNotSuperseded ==
    \A d \in Device : user[d].active # <<>> =>
        \A e \in Range(user[d].active) : e.start <= EndOf(LatestShown(user[d].active))

\* Two phases of the claim sheet under FairSpec: a claimed sheet is closed by
\* the fetch its tap began.
ClaimSheetCloses ==
    \A d \in Device :
        (/\ modal[d].kind = "claim"
         /\ \E i \in DOMAIN fetches[d] : fetches[d][i].origin = "view")
        ~> modal[d].kind # "claim"

\* A login that was accepted opens the home page.
SignInOpensHome ==
    \A d \in Device : session[d] = "opening" ~> session[d] # "opening"
=============================================================================
