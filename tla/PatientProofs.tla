--------------------------- MODULE PatientProofs ---------------------------
(***************************************************************************)
(* What PatientAccount promises, for all values of its constants: the      *)
(* invariants OneLogPerDay, NeverOverdrawn and MemoryIsCurrent, and the    *)
(* refinement of ChallengeLedger.                                          *)
(*                                                                         *)
(* The inductive invariant says that the one device in use never works     *)
(* from a stale copy: what it holds is what it would read now (Overlay),   *)
(* or a fetch that will replace it is in flight.                           *)
(***************************************************************************)
EXTENDS AccountLists

\* At most one device is signed in; what it left is settled.
OneDevice ==
    /\ \A d \in Device : session[d] = "out" => Settled(d)
    /\ \A d, e \in Device : session[d] # "out" /\ session[e] # "out" => d = e

\* Account a in memory is account b, up to the order of the lists and the dates
\* of the completions.
SameAccount(a, b) ==
    /\ a.active \in Reorderings(b.active)
    /\ PaidBag(a) = PaidBag(b)
    /\ a.coins = b.coins

Refreshing(d) == \E i \in DOMAIN fetches[d] : RefreshesRows(fetches[d][i])

AnswersCurrent(d) ==
    \A i \in DOMAIN fetches[d] : fetches[d][i].answered =>
        /\ fetches[d][i].snap.active = Overlay(d).active
        /\ PaidBag(fetches[d][i].snap) = PaidBag(Overlay(d))
        /\ fetches[d][i].snap.coins = Overlay(d).coins

UserCurrent(d) ==
    SignedIn(d) => fetches[d] # <<>> \/ SameAccount(user[d], Overlay(d))

RowsCurrent(d) ==
    session[d] = "tabs" => Refreshing(d) \/ rows[d] \in Reorderings(Overlay(d).active)

\* The first fetch of a session is alone in flight.
LoginAlone(d) ==
    \A i \in DOMAIN fetches[d] : fetches[d][i].origin = "login" =>
        session[d] = "opening" /\ Len(fetches[d]) = 1

\* Sheets and pages belong to a session.
SheetsInSession(d) ==
    /\ logPage[d] # None => session[d] = "tabs"
    /\ modal[d].kind = "claim" => session[d] = "tabs"
    /\ modal[d].kind = "reward" => SignedIn(d)

\* The open claim sheet pays for a running challenge whose end date has come,
\* unless it was claimed and the fetch that closes the sheet is in flight.
Due(m, e) == e.id = m.id /\ m.coins = Value[e.id] * Len(e.days) /\ EndOf(e) <= today

ClaimDue(d) ==
    modal[d].kind = "claim" =>
        Refreshing(d) \/ \E k \in DOMAIN Overlay(d).active : Due(modal[d], Overlay(d).active[k])

\* The ActionLog page is open for a challenge that has no log of today.
LogDue(d) ==
    logPage[d] # None =>
        \A k \in DOMAIN Overlay(d).active : Overlay(d).active[k].id = logPage[d] =>
            \A i \in DOMAIN Overlay(d).active[k].days : Overlay(d).active[k].days[i] < today

\* The question "Are you sure?" is about points in hand.
RewardCovered(d) ==
    modal[d].kind = "reward" =>
        /\ Settled(d)
        /\ modal[d].coins \in Price
        /\ modal[d].coins <= user[d].coins

DeviceCurrent(d) ==
    /\ AnswersCurrent(d)
    /\ UserCurrent(d)
    /\ RowsCurrent(d)
    /\ LoginAlone(d)
    /\ SheetsInSession(d)
    /\ ClaimDue(d)
    /\ LogDue(d)
    /\ RewardCovered(d)

\* The document and every write that can still reach it.
DaysOnce(list) ==
    \A k \in DOMAIN list : \A i, j \in DOMAIN list[k].days :
        list[k].days[i] = list[k].days[j] => i = j

StoredSound ==
    /\ DaysOnce(doc.active)
    /\ doc.coins >= 0
    /\ \A d \in Device :
         /\ \A i \in WritesOf(d, "active") : DaysOnce(queue[d][i].active)
         /\ \A i \in WritesOf(d, "coins") : queue[d][i].coins >= 0

PatientInv ==
    /\ OneDevice
    /\ \A d \in Device : DeviceCurrent(d)
    /\ \A d \in Device : RunsOnce(Overlay(d).active)
    /\ StoredSound

-----------------------------------------------------------------------------
(* Steps.                                                                  *)

LEMMA PatientIsNext == [PatientNext]_vars => [Next]_vars
BY DEF PatientNext, WaitingNext, Next

LEMMA SettledOverlay ==
    ASSUME TypeOK, NEW d \in Device, queue[d] = <<>>
    PROVE  Overlay(d) = doc
<1>1. doc \in Account  BY DEF TypeOK
<1> QED  BY <1>1, OverlayIs, UnderEmpty

\* Only queues and document decide what a device reads.
LEMMA OverlayKept ==
    ASSUME NEW d \in Device, queue'[d] = queue[d], doc' = doc
    PROVE  Overlay(d)' = Overlay(d)
BY OverlayIs

LEMMA OverlaySent ==
    ASSUME TypeOK, NEW d \in Device, SendWrite(d)
    PROVE  Overlay(d)' = Overlay(d)
<1>1. doc \in Account /\ queue[d] \in Seq(Write) /\ queue[d] # <<>>
  BY DEF TypeOK, SendWrite
<1>2. doc' = Merge(doc, Head(queue[d])) /\ queue'[d] = Tail(queue[d])
  BY DEF SendWrite, TypeOK
<1> QED  BY <1>1, <1>2, OverlayIs, UnderSend

\* What a device does, or Firestore for it, touches no other device.
LEMMA OthersKeep ==
    ASSUME TypeOK, NEW d \in Device, NEW e \in Device, e # d,
           UserStep(d) \/ Kill(d) \/ NetworkStep(d)
    PROVE  /\ session'[e] = session[e] /\ queue'[e] = queue[e]
           /\ fetches'[e] = fetches[e] /\ logPage'[e] = logPage[e]
           /\ modal'[e] = modal[e]
<1> DEFINE Kept == /\ session'[e] = session[e] /\ queue'[e] = queue[e]
                   /\ fetches'[e] = fetches[e] /\ logPage'[e] = logPage[e]
                   /\ modal'[e] = modal[e]
<1>1. ASSUME NEW k, Die(d, k) PROVE Kept
  BY <1>1 DEF Die, TypeOK
<1>2. CASE SignIn(d) \/ OpenHome(d) \/ OpenChallenges(d) \/ ChangeSegment(d)
  BY <1>2 DEF SignIn, OpenHome, OpenChallenges, ChangeSegment, Begin, net, TypeOK
<1>3. CASE LeaveLog(d) \/ CloseClaim(d) \/ LeaveReward(d)
  BY <1>3 DEF LeaveLog, CloseClaim, LeaveReward, Begin, net, TypeOK
<1>4. CASE \/ \E c \in Challenge : StartChallenge(d, c)
           \/ LogAction(d) \/ Claim(d) \/ TakeReward(d)
  BY <1>4 DEF StartChallenge, LogAction, Claim, TakeReward, Begin, Issue, TypeOK
<1>5. CASE \/ \E i \in DOMAIN rows[d] : OpenClaim(d, i) \/ OpenLog(d, i)
           \/ \E p \in Price : ChooseReward(d, p)
  BY <1>5 DEF OpenClaim, OpenLog, ChooseReward, net, TypeOK
<1>6. CASE SignOut(d) \/ ClaimTraps(d) \/ Kill(d)
  BY <1>1, <1>6 DEF SignOut, ClaimTraps, Kill
<1>7. ASSUME NEW i \in DOMAIN fetches[d], AnswerFetch(d, i) \/ InstallFetch(d, i)
      PROVE  Kept
  BY <1>7 DEF AnswerFetch, InstallFetch, net, TypeOK
<1>8. CASE SendWrite(d)
  BY <1>8 DEF SendWrite, TypeOK
<1> QED
  BY <1>2, <1>3, <1>4, <1>5, <1>6, <1>7, <1>8 DEF UserStep, NetworkStep

\* A device that is signed out holds nothing that could be stale.
LEMMA OutIsCurrent ==
    ASSUME NEW e \in Device, session'[e] = "out", fetches'[e] = <<>>,
           logPage'[e] = None, modal'[e].kind \notin {"claim", "reward"}
    PROVE  DeviceCurrent(e)'
BY DEF DeviceCurrent, AnswersCurrent, UserCurrent, RowsCurrent, LoginAlone,
       SheetsInSession, ClaimDue, LogDue, RewardCovered, SignedIn

\* The fetches that a settled device begins.
LEMMA BegunOnSettled ==
    ASSUME TypeOK, NEW d \in Device, fetches[d] = <<>>,
           NEW origins \in Seq(Origin), origins # <<>>, Begin(d, origins),
           \/ origins = <<"login">> /\ session'[d] = "opening"
           \/ \A i \in DOMAIN origins : origins[i] # "login"
    PROVE  /\ AnswersCurrent(d)'
           /\ UserCurrent(d)'
           /\ LoginAlone(d)'
           /\ (\E i \in DOMAIN origins : origins[i] \in {"view", "segment"}) => Refreshing(d)'
<1>1. NewFetches(origins) \in Seq(Fetch)  BY NewFetchesType
<1>2. fetches'[d] = NewFetches(origins)
  <2>1. fetches'[d] = fetches[d] \o NewFetches(origins)  BY DEF Begin, TypeOK
  <2> QED  BY <1>1, <2>1, ConcatEmptySeq
<1>3. /\ DOMAIN fetches'[d] = DOMAIN origins
      /\ \A i \in DOMAIN origins : /\ fetches'[d][i].origin = origins[i]
                                   /\ ~fetches'[d][i].answered
  BY <1>2 DEF NewFetches, NewFetch
<1>4. fetches'[d] # <<>>
  <2>1. Len(origins) \in Nat \ {0} /\ DOMAIN origins = 1..Len(origins)
    BY EmptySeq, LenProperties
  <2> QED  BY <1>3, <2>1
<1>5. AnswersCurrent(d)'  BY <1>3 DEF AnswersCurrent
<1>6. UserCurrent(d)'  BY <1>4 DEF UserCurrent
<1>7. ASSUME NEW i \in DOMAIN origins, origins[i] \in {"view", "segment"}
      PROVE  Refreshing(d)'
  BY <1>3, <1>7 DEF Refreshing, RefreshesRows
<1>8. LoginAlone(d)'
  <2>1. CASE origins = <<"login">> /\ session'[d] = "opening"
    <3>1. Len(NewFetches(origins)) = 1
      <4>1. DOMAIN NewFetches(origins) = 1..1  BY <1>2, <1>3, <2>1
      <4> QED  BY <1>1, <4>1, LenProperties
    <3> QED  BY <1>2, <2>1, <3>1 DEF LoginAlone
  <2>2. CASE \A i \in DOMAIN origins : origins[i] # "login"
    BY <1>3, <2>2 DEF LoginAlone
  <2> QED  BY <2>1, <2>2
<1> QED  BY <1>5, <1>6, <1>7, <1>8

-----------------------------------------------------------------------------
(* The device that acts.                                                   *)

LEMMA OriginLists ==
    /\ <<"login">> \in Seq(Origin) /\ <<"home">> \in Seq(Origin)
    /\ <<"view">> \in Seq(Origin) /\ <<"segment">> \in Seq(Origin)
    /\ <<"home", "view">> \in Seq(Origin)
BY DEF Origin

\* The fetches that the pages and the writing taps begin.
LEMMA BegunHome ==
    ASSUME TypeOK, NEW d \in Device, fetches[d] = <<>>, Begin(d, <<"home">>)
    PROVE  AnswersCurrent(d)' /\ UserCurrent(d)' /\ LoginAlone(d)'
<1> DEFINE origins == <<"home">>
<1>1. origins \in Seq(Origin)  BY OriginLists
<1>2. origins # <<>> /\ \A i \in DOMAIN origins : origins[i] # "login"  OBVIOUS
<1>3. Begin(d, origins)  OBVIOUS
<1> HIDE DEF origins
<1> QED  BY <1>1, <1>2, <1>3, BegunOnSettled

LEMMA BegunView ==
    ASSUME TypeOK, NEW d \in Device, fetches[d] = <<>>,
           NEW origins \in {<<"view">>, <<"segment">>, <<"home", "view">>}, Begin(d, origins)
    PROVE  AnswersCurrent(d)' /\ UserCurrent(d)' /\ LoginAlone(d)' /\ Refreshing(d)'
<1>1. origins \in Seq(Origin)  BY OriginLists
<1>2. \E i \in DOMAIN origins : origins[i] \in {"view", "segment"}
  <2>1. CASE origins = <<"view">> \/ origins = <<"segment">>
    <3>1. 1 \in DOMAIN origins /\ origins[1] \in {"view", "segment"}  BY <2>1
    <3> QED  BY <3>1
  <2>2. CASE origins = <<"home", "view">>
    <3>1. 2 \in DOMAIN origins /\ origins[2] \in {"view", "segment"}  BY <2>2
    <3> QED  BY <3>1
  <2> QED  BY <2>1, <2>2
<1>3. origins # <<>>  BY <1>2
<1>4. \A i \in DOMAIN origins : origins[i] # "login"  OBVIOUS
<1> QED  BY <1>1, <1>2, <1>3, <1>4, BegunOnSettled

\* Opening a page fetches; nothing is written.
LEMMA PageCurrent ==
    ASSUME TypeOK, NEW d \in Device, Settled(d), DeviceCurrent(d),
           \/ SignIn(d) \/ OpenHome(d) \/ OpenChallenges(d) \/ ChangeSegment(d)
           \/ LeaveLog(d)
    PROVE  DeviceCurrent(d)'
<1> USE OriginLists
<1>1. fetches[d] = <<>> /\ SheetsInSession(d) /\ RowsCurrent(d) /\ LogDue(d)
  BY DEF Settled, DeviceCurrent
<1>2. CASE SignIn(d)
  <2>1. AnswersCurrent(d)' /\ UserCurrent(d)' /\ LoginAlone(d)'
    <3>1. Begin(d, <<"login">>) /\ session'[d] = "opening"  BY <1>2 DEF SignIn, TypeOK
    <3> QED  BY <1>1, <3>1, BegunOnSettled
  <2>2. /\ session'[d] = "opening" /\ logPage'[d] = None /\ modal'[d] = modal[d]
        /\ modal[d].kind \notin {"claim", "reward"}
    BY <1>1, <1>2 DEF SignIn, TypeOK, SheetsInSession, SignedIn
  <2> QED
    BY <2>1, <2>2 DEF DeviceCurrent, RowsCurrent, SheetsInSession, ClaimDue, LogDue,
         RewardCovered
<1>3. CASE OpenHome(d)
  <2>1. AnswersCurrent(d)' /\ UserCurrent(d)' /\ LoginAlone(d)'
    BY <1>1, <1>3, BegunHome DEF OpenHome
  <2>2. /\ session'[d] = session[d] /\ logPage'[d] = logPage[d] /\ modal'[d] = modal[d]
        /\ modal[d].kind = "none" /\ rows'[d] = rows[d] /\ today' = today
    BY <1>3 DEF OpenHome, Uncovered
  <2>3. Overlay(d)' = Overlay(d)
    BY <1>3, OverlayKept DEF OpenHome, net
  <2>4. ~Refreshing(d)  BY <1>1 DEF Refreshing
  <2>5. RowsCurrent(d)'  BY <1>1, <2>2, <2>3, <2>4 DEF RowsCurrent
  <2>6. LogDue(d)'  BY <1>1, <2>2, <2>3 DEF LogDue
  <2>7. SheetsInSession(d)'  BY <1>1, <2>2 DEF SheetsInSession
  <2> QED
    BY <2>1, <2>2, <2>5, <2>6, <2>7 DEF DeviceCurrent, ClaimDue, RewardCovered
<1>4. CASE OpenChallenges(d)
  <2>1. AnswersCurrent(d)' /\ UserCurrent(d)' /\ LoginAlone(d)' /\ Refreshing(d)'
    BY <1>1, <1>4, BegunView DEF OpenChallenges
  <2>2. /\ session'[d] = "tabs" /\ logPage'[d] = None /\ modal'[d].kind = "none"
    BY <1>4 DEF OpenChallenges, Uncovered, TypeOK
  <2> QED
    BY <2>1, <2>2 DEF DeviceCurrent, RowsCurrent, SheetsInSession, ClaimDue, LogDue,
         RewardCovered
<1>5. CASE ChangeSegment(d)
  <2>1. AnswersCurrent(d)' /\ UserCurrent(d)' /\ LoginAlone(d)' /\ Refreshing(d)'
    BY <1>1, <1>5, BegunView DEF ChangeSegment
  <2>2. /\ session'[d] = "tabs" /\ logPage'[d] = None /\ modal'[d].kind = "none"
    BY <1>5 DEF ChangeSegment, AtChallenges, Uncovered, TypeOK
  <2> QED
    BY <2>1, <2>2 DEF DeviceCurrent, RowsCurrent, SheetsInSession, ClaimDue, LogDue,
         RewardCovered
<1>6. CASE LeaveLog(d)
  <2>1. AnswersCurrent(d)' /\ UserCurrent(d)' /\ LoginAlone(d)' /\ Refreshing(d)'
    BY <1>1, <1>6, BegunView DEF LeaveLog
  <2>2. /\ logPage'[d] = None /\ modal'[d].kind = "none"
    BY <1>6 DEF LeaveLog, Uncovered, TypeOK
  <2> QED
    BY <2>1, <2>2 DEF DeviceCurrent, RowsCurrent, SheetsInSession, ClaimDue, LogDue,
         RewardCovered
<1> QED  BY <1>2, <1>3, <1>4, <1>5, <1>6

\* Closing a sheet: the rows are current, or are fetched if there are none.
LEMMA CloseCurrent ==
    ASSUME TypeOK, NEW d \in Device, Settled(d), DeviceCurrent(d),
           CloseClaim(d) \/ LeaveReward(d)
    PROVE  DeviceCurrent(d)'
<1> USE OriginLists
<1>1. /\ fetches[d] = <<>> /\ SheetsInSession(d) /\ RowsCurrent(d) /\ LogDue(d)
      /\ UserCurrent(d) /\ AnswersCurrent(d)
  BY DEF Settled, DeviceCurrent
<1>2. /\ session'[d] = session[d] /\ logPage'[d] = logPage[d] /\ modal'[d].kind = "none"
      /\ rows'[d] = rows[d] /\ user'[d] = user[d] /\ today' = today
  BY DEF CloseClaim, LeaveReward, NoModal, TypeOK
<1>3. Overlay(d)' = Overlay(d)
  BY OverlayKept DEF CloseClaim, LeaveReward, net
<1>4. LogDue(d)'  BY <1>1, <1>2, <1>3 DEF LogDue
<1>5. SheetsInSession(d)'  BY <1>1, <1>2 DEF SheetsInSession
<1>6. ~Refreshing(d)  BY <1>1 DEF Refreshing
<1>7. RowsCurrent(d)'  BY <1>1, <1>2, <1>3, <1>6 DEF RowsCurrent
<1>8. AnswersCurrent(d)' /\ UserCurrent(d)' /\ LoginAlone(d)'
  <2>1. CASE Begin(d, <<"view">>)
    BY <1>1, <2>1, BegunView
  <2>2. CASE UNCHANGED fetches
    <3>1. fetches'[d] = <<>>  BY <1>1, <2>2
    <3>2. AnswersCurrent(d)' /\ LoginAlone(d)'  BY <3>1 DEF AnswersCurrent, LoginAlone
    <3>3. UserCurrent(d)'
      BY <1>1, <1>2, <1>3, <2>2 DEF UserCurrent, SignedIn, SameAccount
    <3> QED  BY <3>2, <3>3
  <2> QED  BY <2>1, <2>2 DEF CloseClaim, LeaveReward
<1> QED
  BY <1>2, <1>4, <1>5, <1>7, <1>8 DEF DeviceCurrent, ClaimDue, RewardCovered

\* A row is tapped or a reward is chosen: what the sheet or the page says is
\* true of the account, because memory and rows are.
LEMMA SheetCurrent ==
    ASSUME TypeOK, LogsInOrder, NEW d \in Device, Settled(d), DeviceCurrent(d),
           RunsOnce(Overlay(d).active),
           \/ \E i \in DOMAIN rows[d] : OpenClaim(d, i) \/ OpenLog(d, i)
           \/ \E p \in Price : ChooseReward(d, p)
    PROVE  DeviceCurrent(d)'
<1>1. /\ fetches[d] = <<>> /\ SheetsInSession(d) /\ RowsCurrent(d) /\ LogDue(d)
      /\ UserCurrent(d) /\ AnswersCurrent(d) /\ ~Refreshing(d)
  BY DEF Settled, DeviceCurrent, Refreshing
<1>2. /\ session'[d] = session[d] /\ fetches'[d] = <<>> /\ queue'[d] = <<>>
      /\ rows'[d] = rows[d] /\ user'[d] = user[d] /\ today' = today
      /\ fetches' = fetches
  BY <1>1 DEF OpenClaim, OpenLog, ChooseReward, net, Settled
<1>3. Overlay(d)' = Overlay(d)
  BY OverlayKept DEF OpenClaim, OpenLog, ChooseReward, net
<1>4. AnswersCurrent(d)' /\ UserCurrent(d)' /\ LoginAlone(d)' /\ RowsCurrent(d)'
  <2>1. AnswersCurrent(d)' /\ LoginAlone(d)'  BY <1>2 DEF AnswersCurrent, LoginAlone
  <2>2. UserCurrent(d)'  BY <1>1, <1>2, <1>3 DEF UserCurrent, SignedIn, SameAccount
  <2>3. RowsCurrent(d)'  BY <1>1, <1>2, <1>3 DEF RowsCurrent
  <2> QED  BY <2>1, <2>2, <2>3
<1>5. ASSUME NEW i \in DOMAIN rows[d], OpenClaim(d, i) \/ OpenLog(d, i)
      PROVE  DeviceCurrent(d)'
  <2> DEFINE e == rows[d][i]
             list == Overlay(d).active
  <2>1. session[d] = "tabs" /\ modal[d].kind = "none" /\ logPage[d] = None
    BY <1>5 DEF OpenClaim, OpenLog, AtChallenges, Uncovered
  <2>2. rows[d] \in Reorderings(list)  BY <1>1, <2>1 DEF RowsCurrent
  <2>3. list \in Seq(Entry)  BY OverlayType DEF Account
  <2>4. PICK j \in DOMAIN list : e = list[j]  BY <1>5, <2>2, <2>3, ReorderingType
  <2>5. e \in Entry  BY <2>3, <2>4, ElementOfSeq, LenProperties
  <2>6. EntryInOrder(e, today)
    <3>1. rows[d] \in ActiveLists  BY ActiveListsAre
    <3> QED  BY <1>5, <3>1, OrderIs
  <2>7. CASE OpenClaim(d, i)
    <3>1. EndOf(e) <= today
      BY <2>5, <2>6, <2>7, EndArrived DEF EntryInOrder, OpenClaim, TypeOK
    <3>2. modal'[d] = [kind |-> "claim", id |-> e.id, date |-> EndOf(e),
                       coins |-> Value[e.id] * Len(e.days)]
      BY <2>7 DEF OpenClaim, TypeOK
    <3> HIDE DEF e
    <3>3. ClaimDue(d)'
      <4>1. Due(modal[d], Overlay(d).active[j])'
        BY <1>2, <1>3, <2>4, <3>1, <3>2 DEF Due, EndOf
      <4> QED  BY <1>3, <2>4, <4>1 DEF ClaimDue
    <3>4. logPage'[d] = None /\ modal'[d].kind = "claim"
      BY <2>1, <2>7, <3>2 DEF OpenClaim
    <3> QED
      BY <1>2, <1>4, <2>1, <3>3, <3>4 DEF DeviceCurrent, SheetsInSession, LogDue,
           RewardCovered
  <2>8. CASE OpenLog(d, i)
    <3>1. \A n \in DOMAIN e.days : e.days[n] < today
      <4>1. ~LoggedToday(e)  BY <2>8 DEF OpenLog
      <4> HIDE DEF e
      <4>2. e.days \in Seq(Nat)  BY <2>5 DEF Entry
      <4>3. DOMAIN e.days = 1..Len(e.days) /\ Len(e.days) \in Nat  BY <4>2, LenProperties
      <4>4. CASE e.days = <<>>  BY <4>4
      <4>5. CASE e.days # <<>>
        <5>1. Len(e.days) \in DOMAIN e.days  BY <4>2, <4>3, <4>5, EmptySeq
        <5>2. Last(e.days) = e.days[Len(e.days)]  BY DEF Last
        <5>3. e.days[Len(e.days)] # today
          BY <4>1, <4>5, <5>2 DEF LoggedToday
        <5>4. e.days[Len(e.days)] \in Nat /\ e.days[Len(e.days)] <= today
          BY <2>6, <4>2, <5>1, ElementOfSeq, LenProperties DEF EntryInOrder
        <5>5. \A n \in DOMAIN e.days :
                e.days[n] \in Nat /\ e.days[n] <= e.days[Len(e.days)]
          BY <2>6, <4>2, <4>3, <5>1, ElementOfSeq DEF EntryInOrder
        <5> QED  BY <5>3, <5>4, <5>5 DEF TypeOK
      <4> QED  BY <4>4, <4>5
    <3>2. logPage'[d] = e.id /\ modal'[d] = modal[d]
      BY <2>8 DEF OpenLog, TypeOK
    <3>3. \A k \in DOMAIN list : list[k].id = e.id => list[k] = e
      BY <2>4 DEF RunsOnce
    <3> HIDE DEF e
    <3>4. LogDue(d)'
      BY <1>2, <1>3, <3>1, <3>2, <3>3 DEF LogDue
    <3> QED
      BY <1>2, <1>4, <2>1, <3>2, <3>4 DEF DeviceCurrent, SheetsInSession, ClaimDue,
           RewardCovered
  <2> QED  BY <1>5, <2>7, <2>8
<1>6. ASSUME NEW p \in Price, ChooseReward(d, p)
      PROVE  DeviceCurrent(d)'
  <2>1. modal'[d] = [NoModal EXCEPT !.kind = "reward", !.coins = p]
    BY <1>6 DEF ChooseReward, TypeOK
  <2>2. modal'[d].kind = "reward" /\ modal'[d].coins = p
    BY <2>1 DEF NoModal
  <2>3. logPage'[d] = logPage[d] /\ SignedIn(d) /\ p <= user[d].coins
    <3>1. user[d].coins \in Int /\ p \in Nat
      BY CatalogueAssumption DEF TypeOK, Account
    <3> QED  BY <1>6, <3>1 DEF ChooseReward, Uncovered
  <2>4. LogDue(d)'  BY <1>1, <1>2, <1>3, <2>3 DEF LogDue
  <2>5. SheetsInSession(d)'  BY <1>1, <1>2, <2>2, <2>3 DEF SheetsInSession, SignedIn
  <2>6. RewardCovered(d)'  BY <1>2, <2>2, <2>3 DEF RewardCovered, Settled
  <2> QED  BY <1>4, <2>2, <2>4, <2>5, <2>6 DEF DeviceCurrent, ClaimDue
<1> QED  BY <1>5, <1>6

-----------------------------------------------------------------------------
(* The taps that write.                                                    *)

\* What a device that wrote reads: memory with the change, which was the
\* document with the change.
LEMMA MemoryIsDocument ==
    ASSUME TypeOK, NEW d \in Device, Settled(d), DeviceCurrent(d), SignedIn(d)
    PROVE  SameAccount(user[d], doc) /\ Overlay(d) = doc
<1>1. Overlay(d) = doc  BY SettledOverlay DEF Settled
<1> QED  BY <1>1 DEF DeviceCurrent, UserCurrent, Settled

LEMMA IssuedOnSettled ==
    ASSUME TypeOK, NEW d \in Device, queue[d] = <<>>, NEW ws \in Seq(Write), Issue(d, ws)
    PROVE  queue' = [queue EXCEPT ![d] = ws] /\ queue'[d] = ws
<1>1. queue[d] \o ws = ws  BY ConcatEmptySeq
<1> QED  BY <1>1 DEF Issue, TypeOK

LEMMA StartWrites ==
    ASSUME TypeOK, NEW d \in Device, Settled(d), NEW c \in Challenge, StartChallenge(d, c)
    PROVE  /\ queue' = [queue EXCEPT ![d] = <<[active |-> Started(user[d], c)]>>]
           /\ Overlay(d)' = [doc EXCEPT !.active = Started(user[d], c)]
<1>1. Started(user[d], c) \in Seq(Entry)  BY StartedType DEF TypeOK
<1> DEFINE x == Started(user[d], c)
<1> HIDE DEF x
<1>2. x \in Seq(Entry)  BY <1>1 DEF x
<1>3. <<[active |-> x]>> \in Seq(Write)  BY <1>2 DEF Write
<1>4. Issue(d, <<[active |-> x]>>) /\ doc' = doc  BY DEF StartChallenge, x
<1>5. /\ queue' = [queue EXCEPT ![d] = <<[active |-> x]>>]
      /\ queue'[d] = <<[active |-> x]>>
  BY <1>3, <1>4, IssuedOnSettled DEF Settled
<1>6. Under(doc, <<[active |-> x]>>) = [doc EXCEPT !.active = x]
  <2>1. doc \in Account /\ 0 \in Int  BY DEF TypeOK
  <2> QED  BY <1>2, <2>1, UnderWrites
<1>7. Overlay(d)' = [doc EXCEPT !.active = x]  BY <1>4, <1>5, <1>6, OverlayIs
<1> QED  BY <1>5, <1>7 DEF x

LEMMA LogWrites ==
    ASSUME TypeOK, NEW d \in Device, Settled(d), LogAction(d)
    PROVE  /\ queue' = [queue EXCEPT ![d] = <<[active |-> Logged(user[d], logPage[d])]>>]
           /\ Overlay(d)' = [doc EXCEPT !.active = Logged(user[d], logPage[d])]
<1>1. Logged(user[d], logPage[d]) \in Seq(Entry)  BY LoggedType DEF TypeOK
<1> DEFINE x == Logged(user[d], logPage[d])
<1> HIDE DEF x
<1>2. x \in Seq(Entry)  BY <1>1 DEF x
<1>3. <<[active |-> x]>> \in Seq(Write)  BY <1>2 DEF Write
<1>4. Issue(d, <<[active |-> x]>>) /\ doc' = doc  BY DEF LogAction, x
<1>5. /\ queue' = [queue EXCEPT ![d] = <<[active |-> x]>>]
      /\ queue'[d] = <<[active |-> x]>>
  BY <1>3, <1>4, IssuedOnSettled DEF Settled
<1>6. Under(doc, <<[active |-> x]>>) = [doc EXCEPT !.active = x]
  <2>1. doc \in Account /\ 0 \in Int  BY DEF TypeOK
  <2> QED  BY <1>2, <2>1, UnderWrites
<1>7. Overlay(d)' = [doc EXCEPT !.active = x]  BY <1>4, <1>5, <1>6, OverlayIs
<1> QED  BY <1>5, <1>7 DEF x

LEMMA ClaimWrites ==
    ASSUME TypeOK, NEW d \in Device, Settled(d), Claim(d)
    PROVE  /\ queue' = [queue EXCEPT ![d] =
                          <<[active    |-> Remaining(user[d], modal[d].id)],
                            [completed |-> Completed(user[d], modal[d])],
                            [coins     |-> user[d].coins + modal[d].coins]>>]
           /\ Overlay(d)' = [active    |-> Remaining(user[d], modal[d].id),
                             completed |-> Completed(user[d], modal[d]),
                             coins     |-> user[d].coins + modal[d].coins]
<1>1. user[d] \in Account /\ modal[d] \in Modal /\ modal[d].kind = "claim"
  BY DEF TypeOK, Claim
<1>2. /\ Remaining(user[d], modal[d].id) \in Seq(Entry)
      /\ Completed(user[d], modal[d]) \in Seq(Done)
      /\ user[d].coins + modal[d].coins \in Int
  BY <1>1, RemainingType, CompletedType DEF Account, Modal
<1> DEFINE x == Remaining(user[d], modal[d].id)
           y == Completed(user[d], modal[d])
           z == user[d].coins + modal[d].coins
           ws == <<[active |-> x], [completed |-> y], [coins |-> z]>>
<1>3. Issue(d, ws) /\ doc' = doc  BY DEF Claim
<1> HIDE DEF x, y, z
<1>4. x \in Seq(Entry) /\ y \in Seq(Done) /\ z \in Int  BY <1>2 DEF x, y, z
<1>5. ws \in Seq(Write)
  <2>1. [active |-> x] \in Write /\ [completed |-> y] \in Write /\ [coins |-> z] \in Write
    BY <1>4 DEF Write
  <2> QED  BY <2>1
<1>6. Under(doc, ws) = [active |-> x, completed |-> y, coins |-> z]
  BY <1>4, UnderClaim
<1> HIDE DEF ws
<1>7. queue' = [queue EXCEPT ![d] = ws] /\ queue'[d] = ws
  BY <1>3, <1>5, IssuedOnSettled DEF Settled
<1>8. Overlay(d)' = [active |-> x, completed |-> y, coins |-> z]
  BY <1>3, <1>6, <1>7, OverlayIs
<1> QED  BY <1>7, <1>8 DEF ws, x, y, z

LEMMA RewardWrites ==
    ASSUME TypeOK, NEW d \in Device, Settled(d), TakeReward(d)
    PROVE  /\ queue' = [queue EXCEPT ![d] = <<[coins |-> user[d].coins - modal[d].coins]>>]
           /\ Overlay(d)' = [doc EXCEPT !.coins = user[d].coins - modal[d].coins]
<1>1. user[d] \in Account /\ modal[d] \in Modal  BY DEF TypeOK
<1> DEFINE z == user[d].coins - modal[d].coins
<1>2. z \in Int  BY <1>1 DEF Account, Modal
<1>3. Issue(d, <<[coins |-> z]>>) /\ doc' = doc  BY DEF TakeReward
<1> HIDE DEF z
<1>4. <<[coins |-> z]>> \in Seq(Write)  BY <1>2 DEF Write
<1>5. /\ queue' = [queue EXCEPT ![d] = <<[coins |-> z]>>]
      /\ queue'[d] = <<[coins |-> z]>>
  BY <1>3, <1>4, IssuedOnSettled DEF Settled
<1>6. Under(doc, <<[coins |-> z]>>) = [doc EXCEPT !.coins = z]
  <2>1. doc \in Account /\ <<>> \in Seq(Entry)  BY DEF TypeOK
  <2> QED  BY <1>2, <2>1, UnderWrites
<1>7. Overlay(d)' = [doc EXCEPT !.coins = z]  BY <1>3, <1>5, <1>6, OverlayIs
<1> QED  BY <1>5, <1>7 DEF z

\* A start, a log or a claim leaves memory stale, but with the fetch in flight
\* that will replace it and the rows, and close the claim sheet.
LEMMA WriteCurrent ==
    ASSUME TypeOK, NEW d \in Device, Settled(d), DeviceCurrent(d),
           \/ \E c \in Challenge : StartChallenge(d, c)
           \/ LogAction(d)
    PROVE  DeviceCurrent(d)'
<1>1. fetches[d] = <<>>  BY DEF Settled
<1>2. AnswersCurrent(d)' /\ UserCurrent(d)' /\ LoginAlone(d)' /\ Refreshing(d)'
  BY <1>1, BegunOnSettled, BegunView DEF StartChallenge, LogAction
<1>3. logPage'[d] = None /\ modal'[d].kind = "none"
  BY DEF StartChallenge, LogAction, AtChallenges, Uncovered, TypeOK
<1> QED
  BY <1>2, <1>3 DEF DeviceCurrent, RowsCurrent, SheetsInSession, ClaimDue, LogDue,
       RewardCovered

LEMMA ClaimCurrent ==
    ASSUME TypeOK, NEW d \in Device, Settled(d), DeviceCurrent(d), Claim(d)
    PROVE  DeviceCurrent(d)'
<1>1. fetches[d] = <<>> /\ SheetsInSession(d) /\ LogDue(d)
  BY DEF Settled, DeviceCurrent
<1>2. AnswersCurrent(d)' /\ UserCurrent(d)' /\ LoginAlone(d)' /\ Refreshing(d)'
  BY <1>1, BegunView DEF Claim
<1>3. /\ session'[d] = session[d] /\ logPage'[d] = logPage[d] /\ modal'[d] = modal[d]
      /\ modal[d].kind = "claim" /\ today' = today
  BY DEF Claim
<1>4. LogDue(d)'
  <2> DEFINE old == Overlay(d).active
             new == Remaining(user[d], modal[d].id)
  <2>1. SignedIn(d)  BY <1>1, <1>3 DEF SheetsInSession, SignedIn
  <2>2. user[d].active \in Reorderings(old)
    BY <2>1, MemoryIsDocument DEF SameAccount
  <2>3. old \in Seq(Entry)  BY OverlayType DEF Account
  <2>4. user[d] \in Account  BY DEF TypeOK
  <2>5. Overlay(d)'.active = new  BY ClaimWrites
  <2> HIDE DEF old, new
  <2>6. \A k \in DOMAIN new : \E j \in DOMAIN old : new[k] = old[j]
    <3> SUFFICES ASSUME NEW k \in DOMAIN new PROVE \E j \in DOMAIN old : new[k] = old[j]
      OBVIOUS
    <3>1. PICK i \in DOMAIN user[d].active : new[k] = user[d].active[i]
      BY <2>4, RemainingType DEF new
    <3>2. PICK j \in DOMAIN old : user[d].active[i] = old[j]
      BY <2>2, <2>3, ReorderingType
    <3> QED  BY <3>1, <3>2
  <2>7. logPage[d] # None => \A j \in DOMAIN old : old[j].id = logPage[d] =>
          \A i \in DOMAIN old[j].days : old[j].days[i] < today
    BY <1>1 DEF LogDue, old
  <2> QED  BY <1>3, <2>5, <2>6, <2>7 DEF LogDue
<1> QED
  BY <1>1, <1>2, <1>3, <1>4 DEF DeviceCurrent, RowsCurrent, SheetsInSession, ClaimDue,
       RewardCovered

\* A reward is taken in memory and in the document alike.
LEMMA TakeCurrent ==
    ASSUME TypeOK, NEW d \in Device, Settled(d), DeviceCurrent(d), TakeReward(d)
    PROVE  DeviceCurrent(d)'
<1> DEFINE left == user[d].coins - modal[d].coins
<1>1. /\ fetches[d] = <<>> /\ SheetsInSession(d) /\ RowsCurrent(d) /\ LogDue(d)
      /\ ~Refreshing(d) /\ SignedIn(d)
  BY DEF Settled, DeviceCurrent, Refreshing, SheetsInSession, TakeReward
<1>2. /\ session'[d] = session[d] /\ logPage'[d] = logPage[d] /\ rows'[d] = rows[d]
      /\ fetches'[d] = <<>> /\ today' = today /\ modal'[d].kind = "none"
      /\ user'[d] = [user[d] EXCEPT !.coins = left]
  BY <1>1 DEF TakeReward, TypeOK, NoModal
<1>3. SameAccount(user[d], doc) /\ Overlay(d) = doc  BY <1>1, MemoryIsDocument
<1>4. Overlay(d)' = [doc EXCEPT !.coins = left]  BY RewardWrites
<1>5. user[d] \in Account /\ doc \in Account  BY DEF TypeOK
<1> HIDE DEF left
<1>6. /\ Overlay(d)'.active = doc.active /\ Overlay(d)'.completed = doc.completed
      /\ Overlay(d)'.coins = left
      /\ user'[d].active = user[d].active /\ user'[d].completed = user[d].completed
      /\ user'[d].coins = left
  BY <1>2, <1>4, <1>5 DEF Account
<1>7. UserCurrent(d)'
  <2>1. PaidBag(user[d])' = PaidBag(user[d]) /\ PaidBag(Overlay(d))' = PaidBag(doc)
    BY <1>6 DEF PaidBag
  <2>2. SameAccount(user[d], Overlay(d))'
    BY <1>3, <1>6, <2>1 DEF SameAccount
  <2> QED  BY <2>2 DEF UserCurrent
<1>8. RowsCurrent(d)'  BY <1>1, <1>2, <1>3, <1>6 DEF RowsCurrent
<1>9. LogDue(d)'  BY <1>1, <1>2, <1>3, <1>6 DEF LogDue
<1> QED
  BY <1>1, <1>2, <1>7, <1>8, <1>9 DEF DeviceCurrent, AnswersCurrent, LoginAlone,
       SheetsInSession, ClaimDue, RewardCovered

-----------------------------------------------------------------------------
(* What Firestore does for the device.                                     *)

LEMMA AnswerCurrent ==
    ASSUME TypeOK, NEW d \in Device, DeviceCurrent(d),
           NEW k \in DOMAIN fetches[d], AnswerFetch(d, k)
    PROVE  DeviceCurrent(d)'
<1> DEFINE answered == [fetches[d][k] EXCEPT !.answered = TRUE,
                                             !.snap = Decoded(Overlay(d))]
<1>1. /\ fetches[d] \in Seq(Fetch) /\ fetches[d][k] \in Fetch
      /\ DOMAIN fetches[d] = 1..Len(fetches[d]) /\ Len(fetches[d]) \in Nat
  BY ElementOfSeq, LenProperties DEF TypeOK
<1>2. fetches' = [fetches EXCEPT ![d] = [fetches[d] EXCEPT ![k] = answered]]
  BY DEF AnswerFetch, TypeOK
<1>3. answered.snap = Decoded(Overlay(d)) /\ answered.origin = fetches[d][k].origin
  BY <1>1 DEF Fetch
<1>4. fetches'[d] \in Seq(Fetch)
  BY AnswerFetchType DEF TypeOK
<1> HIDE DEF answered
<1>5. /\ DOMAIN fetches'[d] = DOMAIN fetches[d]
      /\ fetches'[d][k] = answered
      /\ \A i \in DOMAIN fetches[d] : i # k => fetches'[d][i] = fetches[d][i]
  BY <1>2 DEF TypeOK
<1>6. /\ \A i \in DOMAIN fetches[d] : fetches'[d][i].origin = fetches[d][i].origin
      /\ Len(fetches'[d]) = Len(fetches[d])
      /\ fetches[d] # <<>> /\ fetches'[d] # <<>>
  BY <1>1, <1>3, <1>4, <1>5, LenProperties, EmptySeq
<1>7. /\ session' = session /\ user' = user /\ rows' = rows /\ logPage' = logPage
      /\ modal' = modal /\ today' = today
  BY DEF AnswerFetch
<1>8. Overlay(d)' = Overlay(d)  BY OverlayKept DEF AnswerFetch, net
<1>9. AnswersCurrent(d)'
  <2>1. Overlay(d) \in Account /\ today \in Nat  BY OverlayType DEF TypeOK
  <2>2. /\ answered.snap.active = Overlay(d).active
        /\ answered.snap.coins = Overlay(d).coins
        /\ PaidBag(answered.snap) = PaidBag(Overlay(d))
    BY <1>3, <2>1, DecodedType, PaidDecoded
  <2>3. PaidBag(Overlay(d))' = PaidBag(Overlay(d))  BY <1>8 DEF PaidBag
  <2>4. ASSUME NEW i \in DOMAIN fetches'[d], fetches'[d][i].answered
        PROVE  /\ fetches'[d][i].snap.active = Overlay(d)'.active
               /\ PaidBag(fetches'[d][i].snap) = PaidBag(Overlay(d))
               /\ fetches'[d][i].snap.coins = Overlay(d)'.coins
    <3>1. CASE i = k  BY <1>5, <1>8, <2>2, <3>1
    <3>2. CASE i # k
      BY <1>5, <1>8, <2>4, <3>2 DEF DeviceCurrent, AnswersCurrent
    <3> QED  BY <3>1, <3>2
  <2>5. ASSUME NEW i \in DOMAIN fetches'[d]
        PROVE  PaidBag(fetches[d][i].snap)' = PaidBag(fetches'[d][i].snap)
    BY DEF PaidBag
  <2> QED  BY <2>3, <2>4, <2>5 DEF AnswersCurrent
<1>10. Refreshing(d)' <=> Refreshing(d)
  BY <1>5, <1>6 DEF Refreshing, RefreshesRows
<1>11. modal[d].kind # "reward"
  BY <1>6 DEF DeviceCurrent, RewardCovered, Settled
<1>12. UserCurrent(d)' /\ RowsCurrent(d)'
  BY <1>6, <1>7, <1>8, <1>10 DEF DeviceCurrent, UserCurrent, RowsCurrent
<1>13. LoginAlone(d)' /\ SheetsInSession(d)'
  BY <1>5, <1>6, <1>7 DEF DeviceCurrent, LoginAlone, SheetsInSession, SignedIn
<1>14. ClaimDue(d)'
  BY <1>7, <1>8, <1>10 DEF DeviceCurrent, ClaimDue, Due
<1>15. LogDue(d)'  BY <1>7, <1>8 DEF DeviceCurrent, LogDue
<1> QED
  BY <1>7, <1>9, <1>11, <1>12, <1>13, <1>14, <1>15 DEF DeviceCurrent, RewardCovered

\* Answers in flight stay as current as what the device reads.
LEMMA AnswersKept ==
    ASSUME NEW d \in Device, AnswersCurrent(d), fetches'[d] = fetches[d],
           Overlay(d)' = Overlay(d)
    PROVE  AnswersCurrent(d)'
<1>1. PaidBag(Overlay(d))' = PaidBag(Overlay(d)')  BY DEF PaidBag
<1>2. ASSUME NEW i PROVE PaidBag(fetches[d][i].snap)' = PaidBag(fetches'[d][i].snap)
  BY DEF PaidBag
<1> QED  BY <1>1, <1>2 DEF AnswersCurrent

LEMMA SendCurrent ==
    ASSUME TypeOK, NEW d \in Device, DeviceCurrent(d), SendWrite(d)
    PROVE  DeviceCurrent(d)'
<1>1. /\ session' = session /\ user' = user /\ rows' = rows /\ logPage' = logPage
      /\ modal' = modal /\ fetches' = fetches /\ today' = today
  BY DEF SendWrite
<1>2. Overlay(d)' = Overlay(d)  BY OverlaySent
<1>3. modal[d].kind # "reward"
  BY DEF SendWrite, DeviceCurrent, RewardCovered, Settled
<1>4. Refreshing(d)' <=> Refreshing(d)  BY <1>1 DEF Refreshing
<1>5. AnswersCurrent(d)'
  BY <1>1, <1>2, AnswersKept DEF DeviceCurrent
<1>6. UserCurrent(d)'
  BY <1>1, <1>2, ZenonT(30) DEF DeviceCurrent, UserCurrent, SignedIn, SameAccount, PaidBag
<1>7. RowsCurrent(d)' /\ LoginAlone(d)' /\ SheetsInSession(d)'
  BY <1>1, <1>2, <1>4 DEF DeviceCurrent, RowsCurrent, LoginAlone, SheetsInSession, SignedIn
<1>8. ClaimDue(d)' /\ LogDue(d)'
  BY <1>1, <1>2, <1>4 DEF DeviceCurrent, ClaimDue, LogDue, Due
<1> QED
  BY <1>1, <1>3, <1>5, <1>6, <1>7, <1>8 DEF DeviceCurrent, RewardCovered

\* A day passes: what is due stays due, what was logged before today too.
LEMMA DayCurrent ==
    ASSUME TypeOK, NEW d \in Device, DeviceCurrent(d), NextDay \/ UNCHANGED vars
    PROVE  DeviceCurrent(d)'
<1>1. /\ session' = session /\ user' = user /\ rows' = rows /\ logPage' = logPage
      /\ modal' = modal /\ fetches' = fetches /\ queue' = queue /\ doc' = doc
      /\ today \in Nat /\ today' \in Nat /\ today <= today'
  BY DEF NextDay, net, vars, TypeOK
<1>2. Overlay(d)' = Overlay(d)  BY <1>1, OverlayKept
<1>3. Refreshing(d)' <=> Refreshing(d)  BY <1>1 DEF Refreshing
<1>4. AnswersCurrent(d)'
  BY <1>1, <1>2, AnswersKept DEF DeviceCurrent
<1>5. UserCurrent(d)'
  BY <1>1, <1>2, ZenonT(30) DEF DeviceCurrent, UserCurrent, SignedIn, SameAccount, PaidBag
<1>6. RowsCurrent(d)' /\ LoginAlone(d)' /\ SheetsInSession(d)'
  BY <1>1, <1>2, <1>3 DEF DeviceCurrent, RowsCurrent, LoginAlone, SheetsInSession, SignedIn
<1>7. \A i \in DOMAIN Overlay(d).active : Overlay(d).active[i] \in Entry
  BY OverlayType, ElementOfSeq, LenProperties DEF Account
<1>8. ClaimDue(d)'
  <2>1. ASSUME NEW i \in DOMAIN Overlay(d).active, Due(modal[d], Overlay(d).active[i])
        PROVE  Due(modal[d], Overlay(d).active[i])'
    <3>1. EndOf(Overlay(d).active[i]) \in Nat
      BY <1>7, CalendarAssumption DEF EndOf, Entry
    <3>2. EndOf(Overlay(d).active[i]) <= today'
      BY <1>1, <2>1, <3>1 DEF Due
    <3> QED  BY <1>1, <1>2, <2>1, <3>2 DEF Due, EndOf
  <2> QED  BY <1>1, <1>2, <1>3, <2>1 DEF DeviceCurrent, ClaimDue
<1>9. LogDue(d)'
  <2>1. ASSUME NEW k \in DOMAIN Overlay(d).active,
               NEW i \in DOMAIN Overlay(d).active[k].days,
               Overlay(d).active[k].days[i] < today
        PROVE  Overlay(d).active[k].days[i] < today'
    <3>1. Overlay(d).active[k].days[i] \in Nat
      BY <1>7, ElementOfSeq, LenProperties DEF Entry
    <3> QED  BY <1>1, <2>1, <3>1
  <2> QED  BY <1>1, <1>2, <2>1 DEF DeviceCurrent, LogDue
<1>10. RewardCovered(d)'
  BY <1>1 DEF DeviceCurrent, RewardCovered, Settled
<1> QED
  BY <1>4, <1>5, <1>6, <1>8, <1>9, <1>10 DEF DeviceCurrent

\* The fetches that are left when one is installed, and the ones it begins.
LEMMA InstallFetches ==
    ASSUME TypeOK, NEW d \in Device, NEW k \in DOMAIN fetches[d], InstallFetch(d, k)
    PROVE  /\ \A i \in DOMAIN fetches'[d] :
                \/ \E j \in DOMAIN fetches[d] : j # k /\ fetches'[d][i] = fetches[d][j]
                \/ ~fetches'[d][i].answered /\ fetches'[d][i].origin # "login"
           /\ \A j \in DOMAIN fetches[d] : j # k =>
                \E i \in DOMAIN fetches'[d] : fetches'[d][i] = fetches[d][j]
<1> DEFINE s      == fetches[d]
           others == RemoveAt(s, k)
           begun  == FollowUps(s[k])
           t      == NewFetches(begun)
<1>1. s \in Seq(Fetch) /\ k \in 1..Len(s)
  BY LenProperties DEF TypeOK
<1>2. others \in Seq(Fetch)  BY <1>1, RemoveAtType
<1>3. /\ \A i \in DOMAIN others : \E j \in DOMAIN s : j # k /\ others[i] = s[j]
      /\ \A j \in DOMAIN s : j # k => \E i \in DOMAIN others : others[i] = s[j]
  BY <1>1, RemoveAtElements
<1>4. begun \in Seq(Origin) /\ \A i \in DOMAIN begun : begun[i] # "login"
  <2>1. begun \in Seq(Origin)  BY FollowUpsType
  <2>2. begun = <<"home">> \/ begun = <<"view">> \/ begun = <<>>  BY DEF FollowUps
  <2> HIDE DEF begun
  <2> QED  BY <2>1, <2>2
<1>5. t \in Seq(Fetch)  BY <1>4, NewFetchesType
<1>6. \A i \in DOMAIN t : ~t[i].answered /\ t[i].origin # "login"
  BY <1>4 DEF NewFetches, NewFetch
<1>7. fetches'[d] = others \o t
  BY DEF InstallFetch, TypeOK
<1> HIDE DEF others, begun, t
<1>8. \A i \in DOMAIN (others \o t) :
        \/ \E j \in DOMAIN others : (others \o t)[i] = others[j]
        \/ \E j \in DOMAIN t : (others \o t)[i] = t[j]
  BY <1>2, <1>5, ConcatElement
<1>9. \A j \in DOMAIN others : j \in DOMAIN (others \o t) /\ (others \o t)[j] = others[j]
  BY <1>2, <1>5, ConcatProperties, LenProperties
<1>10. ASSUME NEW i \in DOMAIN fetches'[d]
       PROVE  \/ \E j \in DOMAIN s : j # k /\ fetches'[d][i] = s[j]
              \/ ~fetches'[d][i].answered /\ fetches'[d][i].origin # "login"
  BY <1>3, <1>6, <1>7, <1>8
<1>11. ASSUME NEW j \in DOMAIN s, j # k
       PROVE  \E i \in DOMAIN fetches'[d] : fetches'[d][i] = s[j]
  <2>1. PICK i \in DOMAIN others : others[i] = s[j]  BY <1>3, <1>11
  <2>2. i \in DOMAIN fetches'[d] /\ fetches'[d][i] = s[j]  BY <1>7, <1>9, <2>1
  <2> QED  BY <2>2
<1> QED  BY <1>10, <1>11

LEMMA InstallCurrent ==
    ASSUME TypeOK, NEW d \in Device, DeviceCurrent(d),
           NEW k \in DOMAIN fetches[d], InstallFetch(d, k)
    PROVE  DeviceCurrent(d)'
<1> DEFINE fetch == fetches[d][k]
<1>1. /\ fetches[d] \in Seq(Fetch) /\ fetch \in Fetch
      /\ DOMAIN fetches[d] = 1..Len(fetches[d]) /\ Len(fetches[d]) \in Nat
  BY ElementOfSeq, LenProperties DEF TypeOK
<1>2. /\ \A i \in DOMAIN fetches'[d] :
            \/ \E j \in DOMAIN fetches[d] : j # k /\ fetches'[d][i] = fetches[d][j]
            \/ ~fetches'[d][i].answered /\ fetches'[d][i].origin # "login"
      /\ \A j \in DOMAIN fetches[d] : j # k =>
            \E i \in DOMAIN fetches'[d] : fetches'[d][i] = fetches[d][j]
  BY InstallFetches
<1>3. PICK active \in Reorderings(fetch.snap.active),
           completed \in Reorderings(fetch.snap.completed) :
        /\ user' = [user EXCEPT ![d] = [active    |-> active,
                                        completed |-> completed,
                                        coins     |-> fetch.snap.coins]]
        /\ rows' = IF RefreshesRows(fetch) THEN [rows EXCEPT ![d] = active] ELSE rows
  BY DEF InstallFetch
<1>4. /\ session'[d] = IF fetch.origin = "login" THEN "home" ELSE session[d]
      /\ modal'[d] = IF RefreshesRows(fetch) /\ modal[d].kind = "claim"
                     THEN NoModal ELSE modal[d]
      /\ logPage' = logPage /\ today' = today /\ fetch.answered
  BY DEF InstallFetch, TypeOK
<1>5. Overlay(d)' = Overlay(d)  BY OverlayKept DEF InstallFetch, net
<1>6. /\ fetch.snap.active = Overlay(d).active
      /\ PaidBag(fetch.snap) = PaidBag(Overlay(d))
      /\ fetch.snap.coins = Overlay(d).coins
  BY <1>4 DEF DeviceCurrent, AnswersCurrent
<1>7. /\ user'[d].active = active /\ user'[d].completed = completed
      /\ user'[d].coins = fetch.snap.coins
  BY <1>3 DEF TypeOK
<1>8. fetches[d] # <<>> /\ modal[d].kind # "reward"
  <2>1. fetches[d] # <<>>  BY <1>1, EmptySeq
  <2> QED  BY <2>1 DEF DeviceCurrent, RewardCovered, Settled
<1>9. fetch.origin = "login" =>
        session[d] = "opening" /\ \A j \in DOMAIN fetches[d] : j = k
  <2> SUFFICES ASSUME fetch.origin = "login"
               PROVE  session[d] = "opening" /\ \A j \in DOMAIN fetches[d] : j = k
    OBVIOUS
  <2>1. session[d] = "opening" /\ Len(fetches[d]) = 1
    BY DEF DeviceCurrent, LoginAlone
  <2> QED  BY <1>1, <2>1
<1>10. AnswersCurrent(d)'
  <2>1. PaidBag(Overlay(d))' = PaidBag(Overlay(d))  BY <1>5 DEF PaidBag
  <2>2. ASSUME NEW i PROVE PaidBag(fetches[d][i].snap)' = PaidBag(fetches'[d][i].snap)
    BY DEF PaidBag
  <2>3. ASSUME NEW i \in DOMAIN fetches'[d], fetches'[d][i].answered
        PROVE  /\ fetches'[d][i].snap.active = Overlay(d).active
               /\ PaidBag(fetches'[d][i].snap) = PaidBag(Overlay(d))
               /\ fetches'[d][i].snap.coins = Overlay(d).coins
    BY <1>2, <2>3 DEF DeviceCurrent, AnswersCurrent
  <2> QED  BY <1>5, <2>1, <2>2, <2>3 DEF AnswersCurrent
<1>11. UserCurrent(d)'
  <2>1. fetch.snap \in Account  BY <1>1 DEF Fetch
  <2>2. PaidBag(user'[d]) = PaidBag(fetch.snap)  BY <1>7, <2>1, PaidReordered
  <2>3. PaidBag(user[d])' = PaidBag(user'[d]) /\ PaidBag(Overlay(d))' = PaidBag(Overlay(d))
    BY <1>5 DEF PaidBag
  <2>4. SameAccount(user[d], Overlay(d))'
    BY <1>5, <1>6, <1>7, <2>2, <2>3 DEF SameAccount
  <2> QED  BY <2>4 DEF UserCurrent
<1>12. Refreshing(d) => RefreshesRows(fetch) \/ Refreshing(d)'
  <2> SUFFICES ASSUME NEW j \in DOMAIN fetches[d], RefreshesRows(fetches[d][j]), j # k
               PROVE  Refreshing(d)'
    BY DEF Refreshing
  <2>1. PICK i \in DOMAIN fetches'[d] : fetches'[d][i] = fetches[d][j]  BY <1>2
  <2>2. RefreshesRows(fetches[d][i])'  BY <2>1 DEF RefreshesRows
  <2> QED  BY <2>2 DEF Refreshing
<1>13. RowsCurrent(d)'
  <2> SUFFICES ASSUME session'[d] = "tabs", ~Refreshing(d)'
               PROVE  rows'[d] \in Reorderings(Overlay(d).active)
    BY <1>5 DEF RowsCurrent
  <2>1. session[d] = "tabs"  BY <1>4
  <2>2. CASE RefreshesRows(fetch)
    <3>1. rows'[d] = active  BY <1>3, <2>2 DEF TypeOK
    <3> QED  BY <1>6, <3>1
  <2>3. CASE ~RefreshesRows(fetch)
    <3>1. rows'[d] = rows[d]  BY <1>3, <2>3
    <3> QED  BY <1>12, <2>1, <2>3, <3>1 DEF DeviceCurrent, RowsCurrent
  <2> QED  BY <2>2, <2>3
<1>14. LoginAlone(d)'
  <2> SUFFICES ASSUME NEW i \in DOMAIN fetches'[d], fetches'[d][i].origin = "login"
               PROVE  FALSE
    BY DEF LoginAlone
  <2>1. PICK j \in DOMAIN fetches[d] : j # k /\ fetches'[d][i] = fetches[d][j]  BY <1>2
  <2>2. Len(fetches[d]) = 1  BY <2>1 DEF DeviceCurrent, LoginAlone
  <2> QED  BY <1>1, <2>1, <2>2
<1>15. SheetsInSession(d)'
  <2>1. fetch.origin = "login" => logPage[d] = None /\ modal[d].kind # "claim"
    BY <1>9 DEF DeviceCurrent, SheetsInSession
  <2>2. modal'[d].kind = modal[d].kind \/ modal'[d].kind = "none"
    BY <1>4 DEF NoModal
  <2> QED
    BY <1>4, <1>8, <2>1, <2>2 DEF DeviceCurrent, SheetsInSession
<1>16. ClaimDue(d)'
  <2> SUFFICES ASSUME modal'[d].kind = "claim", ~Refreshing(d)'
               PROVE  \E i \in DOMAIN Overlay(d).active : Due(modal[d], Overlay(d).active[i])'
    BY <1>5 DEF ClaimDue
  <2>1. modal'[d] = modal[d] /\ ~RefreshesRows(fetch)  BY <1>4 DEF NoModal
  <2>2. PICK i \in DOMAIN Overlay(d).active : Due(modal[d], Overlay(d).active[i])
    BY <1>12, <2>1 DEF DeviceCurrent, ClaimDue
  <2>3. Due(modal[d], Overlay(d).active[i])'  BY <1>4, <1>5, <2>1, <2>2 DEF Due
  <2> QED  BY <2>3
<1>17. LogDue(d)'  BY <1>4, <1>5 DEF DeviceCurrent, LogDue
<1>18. RewardCovered(d)'
  <2>1. modal'[d].kind # "reward"  BY <1>4, <1>8 DEF NoModal
  <2> QED  BY <2>1 DEF RewardCovered
<1> QED
  BY <1>10, <1>11, <1>13, <1>14, <1>15, <1>16, <1>17, <1>18 DEF DeviceCurrent

-----------------------------------------------------------------------------
(* Every step of a patient user.                                           *)

\* What is left behind by a device that goes out while nothing is under way.
LEMMA LeftSettled ==
    ASSUME TypeOK, NEW d \in Device, Settled(d), SignOut(d) \/ ClaimTraps(d) \/ Kill(d)
    PROVE  /\ session'[d] = "out" /\ Settled(d)' /\ queue' = queue /\ doc' = doc
           /\ today' = today /\ logPage'[d] = None /\ modal'[d] = NoModal
<1>1. queue[d] = <<>> /\ queue[d] \in Seq(Write)  BY DEF Settled, TypeOK
<1>2. PICK k \in 0..Len(queue[d]) : Die(d, k)
  <2>1. Len(queue[d]) \in 0..Len(queue[d])  BY <1>1, EmptySeq
  <2> QED  BY <2>1 DEF SignOut, ClaimTraps, Kill
<1>3. SubSeq(queue[d], 1, k) = <<>>
  <2>1. k = 0  BY <1>1, EmptySeq
  <2> QED  BY <1>1, <2>1
<1>4. queue' = queue  BY <1>1, <1>2, <1>3 DEF Die, TypeOK
<1>5. doc' = doc /\ today' = today  BY DEF SignOut, ClaimTraps, Kill
<1> QED  BY <1>1, <1>2, <1>4, <1>5 DEF Die, Settled, TypeOK

\* Four taps write; nothing else a user does reaches queue or document.
LEMMA OnlyFourWrite ==
    ASSUME TypeOK, NEW d \in Device, Settled(d), UserStep(d) \/ Kill(d)
    PROVE  /\ doc' = doc /\ today' = today
           /\ \/ queue' = queue
              \/ \E c \in Challenge : StartChallenge(d, c)
              \/ LogAction(d) \/ Claim(d) \/ TakeReward(d)
<1>1. CASE SignOut(d) \/ ClaimTraps(d) \/ Kill(d)
  BY <1>1, LeftSettled
<1>2. CASE \/ SignIn(d) \/ OpenHome(d) \/ OpenChallenges(d) \/ ChangeSegment(d)
           \/ LeaveLog(d) \/ CloseClaim(d) \/ LeaveReward(d)
           \/ \E i \in DOMAIN rows[d] : OpenClaim(d, i) \/ OpenLog(d, i)
           \/ \E p \in Price : ChooseReward(d, p)
  BY <1>2 DEF SignIn, OpenHome, OpenChallenges, ChangeSegment, LeaveLog, CloseClaim,
       LeaveReward, OpenClaim, OpenLog, ChooseReward, net
<1>3. CASE \/ \E c \in Challenge : StartChallenge(d, c)
           \/ LogAction(d) \/ Claim(d) \/ TakeReward(d)
  BY <1>3 DEF StartChallenge, LogAction, Claim, TakeReward
<1> QED  BY <1>1, <1>2, <1>3 DEF UserStep

LEMMA UserCurrentStep ==
    ASSUME TypeOK, LogsInOrder, NEW d \in Device, Settled(d), DeviceCurrent(d),
           RunsOnce(Overlay(d).active), UserStep(d) \/ Kill(d)
    PROVE  /\ DeviceCurrent(d)'
           /\ session'[d] = "out" => Settled(d)'
<1>1. CASE SignOut(d) \/ ClaimTraps(d) \/ Kill(d)
  BY <1>1, LeftSettled, OutIsCurrent DEF Settled, NoModal
<1>2. CASE \/ SignIn(d) \/ OpenHome(d) \/ OpenChallenges(d) \/ ChangeSegment(d)
           \/ LeaveLog(d)
  <2>1. DeviceCurrent(d)'  BY <1>2, PageCurrent
  <2>2. session'[d] # "out"
    BY <1>2 DEF SignIn, OpenHome, OpenChallenges, ChangeSegment, LeaveLog,
         AtChallenges, Uncovered, SignedIn, TypeOK
  <2> QED  BY <2>1, <2>2
<1>3. CASE CloseClaim(d) \/ LeaveReward(d)
  <2>1. DeviceCurrent(d)'  BY <1>3, CloseCurrent
  <2>2. session'[d] # "out"
    BY <1>3 DEF CloseClaim, LeaveReward, DeviceCurrent, SheetsInSession, SignedIn
  <2> QED  BY <2>1, <2>2
<1>4. CASE \/ \E i \in DOMAIN rows[d] : OpenClaim(d, i) \/ OpenLog(d, i)
           \/ \E p \in Price : ChooseReward(d, p)
  <2>1. DeviceCurrent(d)'  BY <1>4, SheetCurrent
  <2>2. session'[d] # "out"
    BY <1>4 DEF OpenClaim, OpenLog, ChooseReward, AtChallenges, Uncovered, SignedIn
  <2> QED  BY <2>1, <2>2
<1>5. CASE (\E c \in Challenge : StartChallenge(d, c)) \/ LogAction(d)
  <2>1. DeviceCurrent(d)'  BY <1>5, WriteCurrent
  <2>2. session'[d] # "out"
    BY <1>5 DEF StartChallenge, LogAction, AtChallenges, Uncovered, SignedIn
  <2> QED  BY <2>1, <2>2
<1>6. CASE Claim(d) \/ TakeReward(d)
  <2>1. DeviceCurrent(d)'  BY <1>6, ClaimCurrent, TakeCurrent
  <2>2. session'[d] # "out"
    BY <1>6 DEF Claim, TakeReward, DeviceCurrent, SheetsInSession, SignedIn
  <2> QED  BY <2>1, <2>2
<1> QED  BY <1>1, <1>2, <1>3, <1>4, <1>5, <1>6 DEF UserStep

LEMMA NetworkCurrentStep ==
    ASSUME TypeOK, NEW d \in Device, DeviceCurrent(d), NetworkStep(d), session[d] # "out"
    PROVE  DeviceCurrent(d)' /\ session'[d] # "out"
<1>1. ASSUME NEW i \in DOMAIN fetches[d], AnswerFetch(d, i)
      PROVE  DeviceCurrent(d)' /\ session'[d] # "out"
  BY <1>1, AnswerCurrent DEF AnswerFetch
<1>2. ASSUME NEW i \in DOMAIN fetches[d], InstallFetch(d, i)
      PROVE  DeviceCurrent(d)' /\ session'[d] # "out"
  <2>1. session'[d] # "out"  BY <1>2 DEF InstallFetch, TypeOK
  <2> QED  BY <1>2, <2>1, InstallCurrent
<1>3. CASE SendWrite(d)
  BY <1>3, SendCurrent DEF SendWrite
<1> QED  BY <1>1, <1>2, <1>3 DEF NetworkStep

\* The device that acts is the only one in use; the others hold nothing.
LEMMA DevicesStep ==
    ASSUME TypeOK, LogsInOrder, PatientInv, [PatientNext]_vars
    PROVE  OneDevice' /\ \A e \in Device : DeviceCurrent(e)'
<1>1. OneDevice /\ \A e \in Device : DeviceCurrent(e) /\ RunsOnce(Overlay(e).active)
  BY DEF PatientInv
<1>2. ASSUME NEW d \in Device, \A e \in Device \ {d} : session[e] = "out",
             UserStep(d) \/ Kill(d) \/ NetworkStep(d),
             DeviceCurrent(d)', session'[d] = "out" => Settled(d)'
      PROVE  OneDevice' /\ \A e \in Device : DeviceCurrent(e)'
  <2>1. ASSUME NEW e \in Device \ {d}
        PROVE  session'[e] = "out" /\ Settled(e)' /\ DeviceCurrent(e)'
    <3>1. /\ session'[e] = session[e] /\ queue'[e] = queue[e]
          /\ fetches'[e] = fetches[e] /\ logPage'[e] = logPage[e]
          /\ modal'[e] = modal[e]
      BY <1>2, OthersKeep
    <3>2. session[e] = "out" /\ Settled(e) /\ SheetsInSession(e)
      BY <1>1, <1>2 DEF OneDevice, DeviceCurrent
    <3>3. logPage[e] = None /\ modal[e].kind \notin {"claim", "reward"}
      BY <3>2 DEF SheetsInSession, SignedIn
    <3> QED  BY <3>1, <3>2, <3>3, OutIsCurrent DEF Settled
  <2> QED  BY <1>2, <2>1 DEF OneDevice
<1>3. ASSUME NEW d \in Device, Alone(d), Settled(d), UserStep(d) \/ Kill(d)
      PROVE  OneDevice' /\ \A e \in Device : DeviceCurrent(e)'
  BY <1>1, <1>2, <1>3, UserCurrentStep DEF Alone
<1>4. ASSUME NEW d \in Device, NetworkStep(d)
      PROVE  OneDevice' /\ \A e \in Device : DeviceCurrent(e)'
  <2>1. ~Settled(d)  BY <1>4 DEF NetworkStep, SendWrite, Settled
  <2>2. session[d] # "out" /\ \A e \in Device \ {d} : session[e] = "out"
    BY <1>1, <2>1 DEF OneDevice
  <2>3. DeviceCurrent(d)' /\ session'[d] # "out"
    BY <1>1, <1>4, <2>2, NetworkCurrentStep
  <2> QED  BY <1>2, <1>4, <2>2, <2>3
<1>5. CASE NextDay \/ UNCHANGED vars
  <2>1. \A e \in Device : DeviceCurrent(e)'  BY <1>1, <1>5, DayCurrent
  <2>2. OneDevice'  BY <1>1, <1>5 DEF NextDay, net, vars, OneDevice, Settled
  <2> QED  BY <2>1, <2>2
<1> QED  BY <1>3, <1>4, <1>5 DEF PatientNext, WaitingNext

-----------------------------------------------------------------------------
(* What can reach the document.                                            *)

\* A write that does no harm there.
Sound(w) ==
    /\ "active" \in DOMAIN w => DaysOnce(w.active)
    /\ "coins" \in DOMAIN w => w.coins >= 0

LEMMA StoredIs ==
    /\ StoredSound <=>
          /\ DaysOnce(doc.active) /\ doc.coins >= 0
          /\ \A d \in Device : \A i \in DOMAIN queue[d] : Sound(queue[d][i])
    /\ StoredSound' <=>
          /\ DaysOnce(doc'.active) /\ doc'.coins >= 0
          /\ \A d \in Device : \A i \in DOMAIN queue'[d] : Sound(queue'[d][i])
BY DEF StoredSound, Sound, WritesOf, DaysOnce

LEMMA DaysReordered ==
    ASSUME NEW s \in Seq(Entry), DaysOnce(s), NEW r \in Reorderings(s)
    PROVE  DaysOnce(r)
<1>1. \A i \in DOMAIN r : \E j \in DOMAIN s : r[i] = s[j]  BY ReorderingType
<1> QED  BY <1>1 DEF DaysOnce

\* The taps write what is sound: the list in memory is the document's, the
\* challenge logged has no log of today, the reward is covered.
LEMMA StartSound ==
    ASSUME TypeOK, NEW a \in Account, DaysOnce(a.active), NEW c \in Challenge
    PROVE  DaysOnce(Started(a, c))
<1> DEFINE t == Started(a, c)
           n == Len(a.active)
<1>1. /\ t \in Seq(Entry) /\ Len(t) = n + 1
      /\ \A i \in 1..n : t[i] = a.active[i]
      /\ t[n + 1].days = <<>>
  BY StartedType DEF TypeOK
<1>2. a.active \in Seq(Entry)  BY DEF Account
<1>3. n \in Nat /\ DOMAIN a.active = 1..n /\ DOMAIN t = 1..(n + 1)
  BY <1>1, <1>2, LenProperties
<1> HIDE DEF t, n
<1>4. ASSUME NEW k \in DOMAIN t, NEW i \in DOMAIN t[k].days, NEW j \in DOMAIN t[k].days,
             t[k].days[i] = t[k].days[j]
      PROVE  i = j
  <2>1. CASE k \in 1..n  BY <1>1, <1>3, <1>4, <2>1 DEF DaysOnce
  <2>2. CASE k = n + 1  BY <1>1, <1>4, <2>2
  <2> QED  BY <1>3, <2>1, <2>2
<1> QED  BY <1>4 DEF DaysOnce, t

LEMMA LogSound ==
    ASSUME TypeOK, NEW a \in Account, DaysOnce(a.active), NEW c,
           \A k \in DOMAIN a.active : a.active[k].id = c =>
               \A i \in DOMAIN a.active[k].days : a.active[k].days[i] < today
    PROVE  DaysOnce(Logged(a, c))
<1> DEFINE s == a.active
           t == Logged(a, c)
<1>1. t = [i \in DOMAIN s |-> IF s[i].id = c
                             THEN [s[i] EXCEPT !.days = Append(@, today)]
                             ELSE s[i]]
  BY Zenon DEF Logged
<1>2. s \in Seq(Entry)  BY DEF Account
<1>3. Len(s) \in Nat /\ DOMAIN s = 1..Len(s) /\ DOMAIN t = 1..Len(s)
  BY <1>1, <1>2, LenProperties
<1>4. \A k \in 1..Len(s) : s[k] \in Entry  BY <1>2, ElementOfSeq
<1>5. today \in Nat  BY DEF TypeOK
<1> HIDE DEF t
<1>6. ASSUME NEW k \in DOMAIN t, NEW i \in DOMAIN t[k].days, NEW j \in DOMAIN t[k].days,
             t[k].days[i] = t[k].days[j]
      PROVE  i = j
  <2>1. CASE s[k].id # c  BY <1>1, <1>3, <1>6, <2>1 DEF DaysOnce
  <2>2. CASE s[k].id = c
    <3> DEFINE days == s[k].days
               n    == Len(days)
    <3>1. days \in Seq(Nat) /\ n \in Nat /\ DOMAIN days = 1..n
      <4>1. days \in Seq(Nat)  BY <1>3, <1>4 DEF Entry
      <4> QED  BY <4>1, LenProperties
    <3>2. t[k].days = Append(days, today)  BY <1>1, <1>3, <1>4, <2>2 DEF Entry
    <3>3. \A m \in 1..n : days[m] \in Nat /\ days[m] < today
      BY <1>3, <2>2, <3>1, ElementOfSeq
    <3>4. \A m, o \in 1..n : days[m] = days[o] => m = o
      BY <1>3, <3>1 DEF DaysOnce
    <3> HIDE DEF days, n
    <3>5. /\ Append(days, today)[n + 1] = today
          /\ \A m \in 1..n : Append(days, today)[m] = days[m]
          /\ DOMAIN Append(days, today) = 1..(n + 1)
      <4>1. days \in Seq(Nat) /\ n = Len(days)  BY <3>1 DEF n
      <4> QED  BY <1>5, <3>1, <4>1, AppendProperties, LenProperties
    <3>6. \A m \in 1..(n + 1) : m \in 1..n \/ m = n + 1  BY <3>1
    <3> DEFINE new == Append(days, today)
    <3> HIDE DEF new
    <3>7. i \in 1..(n + 1) /\ j \in 1..(n + 1) /\ new[i] = new[j]
      BY <1>6, <3>2, <3>5 DEF new
    <3>8. new[n + 1] = today /\ \A m \in 1..n : new[m] = days[m]  BY <3>5 DEF new
    <3>9. CASE i \in 1..n /\ j \in 1..n  BY <3>4, <3>7, <3>8, <3>9
    <3>10. CASE i \in 1..n /\ j = n + 1  BY <1>5, <3>3, <3>7, <3>8, <3>10
    <3>11. CASE i = n + 1 /\ j \in 1..n  BY <1>5, <3>3, <3>7, <3>8, <3>11
    <3> QED  BY <3>6, <3>7, <3>9, <3>10, <3>11
  <2> QED  BY <2>1, <2>2
<1> QED  BY <1>6 DEF DaysOnce, t

LEMMA RemainSound ==
    ASSUME NEW a \in Account, DaysOnce(a.active), NEW c
    PROVE  DaysOnce(Remaining(a, c))
<1>1. \A i \in DOMAIN Remaining(a, c) : \E j \in DOMAIN a.active :
        Remaining(a, c)[i] = a.active[j]
  BY RemainingType
<1> QED  BY <1>1 DEF DaysOnce

LEMMA WritesSound ==
    ASSUME TypeOK, StoredSound, NEW d \in Device, Settled(d), DeviceCurrent(d),
           \/ \E c \in Challenge : StartChallenge(d, c)
           \/ LogAction(d) \/ Claim(d) \/ TakeReward(d)
    PROVE  StoredSound'
<1>1. SignedIn(d)
  BY DEF StartChallenge, LogAction, Claim, TakeReward, AtChallenges, Uncovered,
     DeviceCurrent, SheetsInSession, SignedIn
<1>2. SameAccount(user[d], doc) /\ Overlay(d) = doc  BY <1>1, MemoryIsDocument
<1>3. /\ user[d] \in Account /\ doc \in Account /\ modal[d] \in Modal
      /\ doc.active \in Seq(Entry) /\ user[d].coins \in Int /\ modal[d].coins \in Nat
  BY DEF TypeOK, Account, Modal
<1>4. DaysOnce(doc.active) /\ doc.coins >= 0  BY DEF StoredSound
<1>5. DaysOnce(user[d].active) /\ user[d].coins >= 0
  BY <1>2, <1>3, <1>4, DaysReordered DEF SameAccount
<1>6. doc' = doc
  BY DEF StartChallenge, LogAction, Claim, TakeReward
<1>7. ASSUME NEW ws, queue' = [queue EXCEPT ![d] = ws], \A i \in DOMAIN ws : Sound(ws[i])
      PROVE  StoredSound'
  <2>1. \A e \in Device : e # d => queue'[e] = queue[e]  BY <1>7
  <2>2. queue'[d] = ws  BY <1>7 DEF TypeOK
  <2> QED  BY <1>6, <1>7, <2>1, <2>2, StoredIs
<1>8. ASSUME NEW x, DaysOnce(x), queue' = [queue EXCEPT ![d] = <<[active |-> x]>>]
      PROVE  StoredSound'
  <2>1. \A i \in DOMAIN <<[active |-> x]>> : Sound(<<[active |-> x]>>[i])
    BY <1>8 DEF Sound
  <2> QED  BY <1>7, <1>8, <2>1
<1>9. ASSUME NEW c \in Challenge, StartChallenge(d, c)
      PROVE  StoredSound'
  <2>1. queue' = [queue EXCEPT ![d] = <<[active |-> Started(user[d], c)]>>]
    BY <1>9, StartWrites
  <2> QED  BY <1>3, <1>5, <1>8, <2>1, StartSound
<1>10. CASE LogAction(d)
  <2>1. queue' = [queue EXCEPT ![d] = <<[active |-> Logged(user[d], logPage[d])]>>]
    BY <1>10, LogWrites
  <2>2. \A k \in DOMAIN doc.active : doc.active[k].id = logPage[d] =>
          \A i \in DOMAIN doc.active[k].days : doc.active[k].days[i] < today
    BY <1>2, <1>10 DEF LogAction, DeviceCurrent, LogDue
  <2>3. \A i \in DOMAIN user[d].active : \E j \in DOMAIN doc.active :
          user[d].active[i] = doc.active[j]
    BY <1>2, <1>3, ReorderingType DEF SameAccount
  <2>4. \A k \in DOMAIN user[d].active : user[d].active[k].id = logPage[d] =>
          \A i \in DOMAIN user[d].active[k].days : user[d].active[k].days[i] < today
    BY <2>2, <2>3
  <2>5. DaysOnce(Logged(user[d], logPage[d]))  BY <1>3, <1>5, <2>4, LogSound
  <2> QED  BY <1>8, <2>1, <2>5
<1>11. CASE Claim(d)
  <2> DEFINE x  == Remaining(user[d], modal[d].id)
             y  == Completed(user[d], modal[d])
             z  == user[d].coins + modal[d].coins
             ws == <<[active |-> x], [completed |-> y], [coins |-> z]>>
  <2>1. queue' = [queue EXCEPT ![d] = ws]  BY <1>11, ClaimWrites
  <2>2. DaysOnce(x) /\ z >= 0  BY <1>3, <1>5, RemainSound
  <2> HIDE DEF x, y, z
  <2>3. \A i \in DOMAIN ws : Sound(ws[i])  BY <2>2 DEF Sound
  <2> HIDE DEF ws
  <2> QED  BY <1>7, <2>1, <2>3
<1>12. CASE TakeReward(d)
  <2> DEFINE z  == user[d].coins - modal[d].coins
             ws == <<[coins |-> z]>>
  <2>1. queue' = [queue EXCEPT ![d] = ws]  BY <1>12, RewardWrites
  <2>2. z >= 0  BY <1>3, <1>12 DEF TakeReward, DeviceCurrent, RewardCovered
  <2> HIDE DEF z
  <2>3. \A i \in DOMAIN ws : Sound(ws[i])  BY <2>2 DEF Sound
  <2> HIDE DEF ws
  <2> QED  BY <1>7, <2>1, <2>3
<1> QED  BY <1>9, <1>10, <1>11, <1>12

LEMMA SoundStep ==
    ASSUME TypeOK, PatientInv, [PatientNext]_vars
    PROVE  StoredSound'
<1>1. StoredSound /\ \A d \in Device : DeviceCurrent(d)  BY DEF PatientInv
<1>2. ASSUME NEW d \in Device, Settled(d), UserStep(d) \/ Kill(d) PROVE StoredSound'
  <2>1. CASE queue' = queue /\ doc' = doc
    BY <1>1, <2>1, StoredIs
  <2> QED  BY <1>1, <1>2, <2>1, OnlyFourWrite, WritesSound
<1>3. ASSUME NEW d \in Device, SendWrite(d) PROVE StoredSound'
  <2> DEFINE q == queue[d]
             t == Tail(q)
  <2>1. q \in Seq(Write) /\ q # <<>> /\ doc \in Account /\ queue \in [Device -> Seq(Write)]
    BY <1>3 DEF SendWrite, TypeOK
  <2>2. doc' = Merge(doc, Head(q)) /\ queue' = [queue EXCEPT ![d] = t]
    BY <1>3 DEF SendWrite
  <2>3. /\ Len(q) \in Nat \ {0} /\ DOMAIN q = 1..Len(q) /\ Head(q) = q[1]
        /\ DOMAIN t = 1..(Len(q) - 1) /\ \A j \in DOMAIN t : t[j] = q[j + 1]
    BY <2>1, EmptySeq, LenProperties, HeadTailProperties
  <2>4. \A e \in Device : \A i \in DOMAIN queue[e] : Sound(queue[e][i])  BY <1>1, StoredIs
  <2>5. Sound(Head(q))  BY <2>3, <2>4
  <2>6. /\ doc'.active = IF "active" \in DOMAIN Head(q) THEN Head(q).active ELSE doc.active
        /\ doc'.coins = IF "coins" \in DOMAIN Head(q) THEN Head(q).coins ELSE doc.coins
    BY <2>1, <2>2 DEF Merge, Account
  <2>7. DaysOnce(doc'.active) /\ doc'.coins >= 0
    BY <1>1, <2>5, <2>6 DEF Sound, StoredSound
  <2>8. \A j \in DOMAIN t : Sound(t[j])  BY <2>3, <2>4
  <2> HIDE DEF t
  <2>9. ASSUME NEW e \in Device, NEW i \in DOMAIN queue'[e] PROVE Sound(queue'[e][i])
    <3>1. CASE e = d  BY <2>1, <2>2, <2>8, <2>9, <3>1
    <3>2. CASE e # d  BY <2>1, <2>2, <2>4, <2>9, <3>2
    <3> QED  BY <3>1, <3>2
  <2> QED  BY <2>7, <2>9, StoredIs
<1>4. ASSUME NEW d \in Device, NEW i \in DOMAIN fetches[d],
             AnswerFetch(d, i) \/ InstallFetch(d, i)
      PROVE  StoredSound'
  BY <1>1, <1>4, StoredIs DEF AnswerFetch, InstallFetch, net
<1>5. CASE NextDay \/ UNCHANGED vars
  BY <1>1, <1>5, StoredIs DEF NextDay, net, vars
<1> QED
  BY <1>2, <1>3, <1>4, <1>5 DEF PatientNext, WaitingNext, NetworkStep

-----------------------------------------------------------------------------
(* The invariant and what follows from it.                                 *)

LEMMA PatientInit == Init => PatientInv
<1> SUFFICES ASSUME Init PROVE PatientInv
  OBVIOUS
<1>1. \A d \in Device : /\ session[d] = "out" /\ queue[d] = <<>> /\ fetches[d] = <<>>
                        /\ logPage[d] = None /\ modal[d] = NoModal
  BY DEF Init
<1>2. OneDevice  BY <1>1 DEF OneDevice, Settled
<1>3. ASSUME NEW d \in Device PROVE DeviceCurrent(d)
  BY <1>1 DEF DeviceCurrent, AnswersCurrent, UserCurrent, RowsCurrent, LoginAlone,
     SheetsInSession, ClaimDue, LogDue, RewardCovered, SignedIn, NoModal
<1>4. doc = NewAccount /\ doc.active = <<>> /\ doc.coins = 0
  BY DEF Init, NewAccount
<1>5. ASSUME NEW d \in Device PROVE RunsOnce(Overlay(d).active)
  <2>1. TypeOK  BY InitType
  <2>2. Overlay(d) = doc  BY <1>1, <2>1, SettledOverlay
  <2> QED  BY <1>4, <2>2 DEF RunsOnce
<1>6. StoredSound
  BY <1>1, <1>4 DEF StoredSound, DaysOnce, WritesOf
<1> QED  BY <1>2, <1>3, <1>5, <1>6 DEF PatientInv

LEMMA PatientStep ==
    TypeOK /\ LogsInOrder /\ PatientInv /\ [PatientNext]_vars => PatientInv'
<1> SUFFICES ASSUME TypeOK, LogsInOrder, PatientInv, [PatientNext]_vars
             PROVE  PatientInv'
  OBVIOUS
<1>1. OneDevice' /\ \A d \in Device : DeviceCurrent(d)'  BY DevicesStep
<1>2. ASSUME NEW d \in Device PROVE RunsOnce(Overlay(d).active)'
  <2>1. CASE PatientNext  BY <2>1 DEF PatientNext
  <2>2. CASE UNCHANGED vars
    <3>1. Overlay(d)' = Overlay(d)  BY <2>2, OverlayKept DEF vars
    <3> QED  BY <3>1 DEF PatientInv, RunsOnce
  <2> QED  BY <2>1, <2>2
<1>3. StoredSound'  BY SoundStep
<1> QED  BY <1>1, <1>2, <1>3 DEF PatientInv

\* A patient user is a user: what holds of UserAccount holds here.
LEMMA PatientIsSpec == PatientSpec => Spec
<1>1. [PatientNext]_vars => [Next]_vars  BY PatientIsNext
<1> QED  BY <1>1, PTL DEF PatientSpec, Spec

\* With one device, taps only when nothing is under way, and no challenge
\* started twice, the device in use works from the account as it is: what it
\* holds in memory is what it would read, or a fetch that replaces it is in
\* flight; sheets and pages that are open say what is true of the account.
THEOREM PatientInvariant == PatientSpec => []PatientInv
<1>1. PatientSpec => []TypeOK /\ []LogsInOrder
  BY PatientIsSpec, TypeCorrect, OrderHolds, PTL
<1>2. Init => PatientInv  BY PatientInit
<1>3. TypeOK /\ LogsInOrder /\ PatientInv /\ [PatientNext]_vars => PatientInv'
  BY PatientStep
<1> QED  BY <1>1, <1>2, <1>3, PTL DEF PatientSpec

\* No entry of the document ever has two logs of one day, though the test for
\* it (didSelectRowAt) reads the rows of the tab, and the write is built from
\* memory when the button of another page is tapped.
THEOREM OneLogADay == PatientSpec => []OneLogPerDay
<1>1. PatientInv => OneLogPerDay
  BY DEF PatientInv, StoredSound, DaysOnce, OneLogPerDay
<1> QED  BY <1>1, PatientInvariant, PTL

\* No reward is paid from points not in hand: the balance tested by
\* claimReward is the one charged after "Are you sure?".
THEOREM PaidFromHand == PatientSpec => []NeverOverdrawn
<1>1. PatientInv => NeverOverdrawn
  BY DEF PatientInv, StoredSound, NeverOverdrawn
<1> QED  BY <1>1, PatientInvariant, PTL

\* An idle device has the document in memory and on its rows.
THEOREM IdleIsCurrent == PatientSpec => []MemoryIsCurrent
<1>1. TypeOK /\ PatientInv => MemoryIsCurrent
  <2> SUFFICES ASSUME TypeOK, PatientInv, NEW d \in Device, Settled(d), SignedIn(d)
               PROVE  /\ user[d].active \in Reorderings(doc.active)
                      /\ PaidBag(user[d]) = PaidBag(doc)
                      /\ user[d].coins = doc.coins
                      /\ session[d] = "tabs" => rows[d] \in Reorderings(doc.active)
    BY DEF MemoryIsCurrent
  <2>1. DeviceCurrent(d)  BY DEF PatientInv
  <2>2. SameAccount(user[d], doc) /\ Overlay(d) = doc  BY <2>1, MemoryIsDocument
  <2>3. ~Refreshing(d)  BY DEF Settled, Refreshing
  <2> QED  BY <2>1, <2>2, <2>3 DEF DeviceCurrent, RowsCurrent, SameAccount
<1> QED  BY <1>1, PatientIsSpec, TypeCorrect, PatientInvariant, PTL

-----------------------------------------------------------------------------
(* The "Latest challenge" of the home page. FoldLeft is a recursive function *)
(* on the sets of indices; for lists within the limit it is written out.     *)

\* The comparison the home page folds with.
Later(a, b) == IF a.start > EndOf(b) THEN a ELSE b

\* One step of that fold, and the function that takes it for every set of indices.
ShownStep(g, list, s) ==
    IF s = {} THEN Head(list)
    ELSE LET x == Max(s) IN Later(g[s \ {x}], list[x])

IsShown(g, list) == g = [s \in SUBSET (DOMAIN list) |-> ShownStep(g, list, s)]

\* The latest challenge of a list of one is that one.
LEMMA ShownOfOne ==
    ASSUME NEW list \in Seq(Entry), Len(list) = 1
    PROVE  LatestShown(list) = list[1]
<1> DEFINE g == CHOOSE g : IsShown(g, list)
<1>1. LatestShown(list) = g[DOMAIN list]
  BY DEF LatestShown, FoldLeft, MapThenFoldSet, ShownStep, IsShown, Later
<1>2. /\ DOMAIN list = {1} /\ SUBSET {1} = {{}, {1}} /\ {1} \ {1} = {}
      /\ Head(list) = list[1]
  OBVIOUS
<1>3. Max({1}) = 1
  BY DEF Max
<1>4. \E h : IsShown(h, list)
  <2> DEFINE h == [s \in SUBSET {1} |-> list[1]]
  <2>1. \A s \in SUBSET {1} : ShownStep(h, list, s) = list[1]
    BY <1>2, <1>3 DEF ShownStep, Later
  <2>2. \A s \in SUBSET (DOMAIN list) : h[s] = ShownStep(h, list, s)
    BY <1>2, <2>1
  <2>3. h = [s \in SUBSET (DOMAIN list) |-> h[s]]
    BY <1>2
  <2> HIDE DEF h
  <2>4. h = [s \in SUBSET (DOMAIN list) |-> ShownStep(h, list, s)]
    BY <2>2, <2>3
  <2>5. IsShown(h, list)  BY <2>4 DEF IsShown
  <2> QED  BY <2>5
<1>5. IsShown(g, list)  BY <1>4
<1> HIDE DEF g
<1>6. g[{1}] = ShownStep(g, list, {1}) /\ g[{}] = ShownStep(g, list, {})
  BY <1>2, <1>5 DEF IsShown
<1> QED  BY <1>1, <1>2, <1>3, <1>6 DEF ShownStep, Later

\* Of two, it is the first when that started after the end of the second.
LEMMA ShownOfTwo ==
    ASSUME NEW list \in Seq(Entry), Len(list) = 2
    PROVE  LatestShown(list) = Later(Later(list[1], list[1]), list[2])
<1> DEFINE g == CHOOSE g : IsShown(g, list)
<1>1. LatestShown(list) = g[DOMAIN list]
  BY DEF LatestShown, FoldLeft, MapThenFoldSet, ShownStep, IsShown, Later
<1>2. /\ DOMAIN list = {1, 2} /\ SUBSET {1, 2} = {{}, {1}, {2}, {1, 2}}
      /\ Head(list) = list[1]
  <2>1. Len(list) = 2 /\ DOMAIN list = 1..2 /\ Head(list) = list[1]
    OBVIOUS
  <2>2. 1..2 = {1, 2}  OBVIOUS
  <2>3. SUBSET {1, 2} = {{}, {1}, {2}, {1, 2}}  OBVIOUS
  <2> QED  BY <2>1, <2>2, <2>3
<1>3. Max({1}) = 1 /\ Max({2}) = 2 /\ Max({1, 2}) = 2
  BY DEF Max
<1>4. {1} \ {1} = {} /\ {2} \ {2} = {} /\ {1, 2} \ {2} = {1}
  OBVIOUS
<1>5. \E h : IsShown(h, list)
  <2> DEFINE one == Later(list[1], list[1])
             h == [s \in SUBSET {1, 2} |->
                     IF s = {} THEN list[1]
                     ELSE IF s = {1} THEN one
                     ELSE IF s = {2} THEN Later(list[1], list[2])
                     ELSE Later(one, list[2])]
  <2>1. /\ h[{}] = list[1] /\ h[{1}] = one /\ h[{2}] = Later(list[1], list[2])
        /\ h[{1, 2}] = Later(one, list[2])
    <3>1. \A s \in SUBSET {1, 2} : h[s] = IF s = {} THEN list[1]
                                         ELSE IF s = {1} THEN one
                                         ELSE IF s = {2} THEN Later(list[1], list[2])
                                         ELSE Later(one, list[2])
      OBVIOUS
    <3> HIDE DEF h, one
    <3>2. /\ {} \in SUBSET {1, 2} /\ {1} \in SUBSET {1, 2}
          /\ {2} \in SUBSET {1, 2} /\ {1, 2} \in SUBSET {1, 2}
      OBVIOUS
    <3>3. /\ {1} # {} /\ {2} # {} /\ {2} # {1}
          /\ {1, 2} # {} /\ {1, 2} # {1} /\ {1, 2} # {2}
      <4>1. /\ 1 \in {1} /\ 1 \notin {2} /\ 1 \in {1, 2} /\ 1 \notin {}
            /\ 2 \notin {1} /\ 2 \in {2} /\ 2 \in {1, 2} /\ 2 \notin {}
        OBVIOUS
      <4> QED  BY <4>1, ZenonT(30)
    <3> QED  BY <3>1, <3>2, <3>3
  <2>2. ShownStep(h, list, {}) = h[{}]
    BY <1>2, <2>1 DEF ShownStep
  <2> HIDE DEF h
  <2>3. ShownStep(h, list, {1}) = h[{1}]
    BY <1>3, <1>4, <2>1 DEF ShownStep
  <2>4. ShownStep(h, list, {2}) = h[{2}]
    BY <1>3, <1>4, <2>1 DEF ShownStep
  <2>5. ShownStep(h, list, {1, 2}) = h[{1, 2}]
    BY <1>3, <1>4, <2>1 DEF ShownStep
  <2>6. \A s \in SUBSET {1, 2} : ShownStep(h, list, s) = h[s]
    BY <1>2, <2>2, <2>3, <2>4, <2>5
  <2>7. h = [s \in SUBSET (DOMAIN list) |-> h[s]]
    BY <1>2 DEF h
  <2>8. \A s \in SUBSET (DOMAIN list) : h[s] = ShownStep(h, list, s)
    BY <1>2, <2>6
  <2>9. h = [s \in SUBSET (DOMAIN list) |-> ShownStep(h, list, s)]
    BY <2>7, <2>8
  <2>10. IsShown(h, list)  BY <2>9 DEF IsShown
  <2> QED  BY <2>10
<1>6. IsShown(g, list)  BY <1>5
<1> HIDE DEF g
<1>7. \A s \in SUBSET (DOMAIN list) : g[s] = ShownStep(g, list, s)
  BY <1>6 DEF IsShown
<1>8. /\ {} \in SUBSET (DOMAIN list) /\ {1} \in SUBSET (DOMAIN list)
      /\ {1, 2} \in SUBSET (DOMAIN list)
  BY <1>2
<1>9. g[{}] = list[1]  BY <1>2, <1>8, <1>7 DEF ShownStep
<1>10. g[{1}] = Later(list[1], list[1])
  BY <1>3, <1>4, <1>8, <1>7, <1>9 DEF ShownStep
<1>11. g[{1, 2}] = Later(Later(list[1], list[1]), list[2])
  <2>1. g[{1, 2}] = ShownStep(g, list, {1, 2})  BY <1>8, <1>7
  <2>2. {1, 2} # {}  OBVIOUS
  <2>3. ShownStep(g, list, {1, 2}) = Later(g[{1, 2} \ {2}], list[2])
    BY <1>3, <2>2 DEF ShownStep
  <2> QED  BY <1>4, <1>10, <2>1, <2>3
<1> QED  BY <1>1, <1>2, <1>11

\* No challenge of a list of at most two started after the one shown had ended:
\* whichever the comparison takes, the other does not pass it.
LEMMA ShownNotSuperseded ==
    ASSUME NEW list \in Seq(Entry), list # <<>>, Len(list) <= 2, NEW e \in Range(list)
    PROVE  e.start <= EndOf(LatestShown(list))
<1>1. \A k \in DOMAIN list : /\ list[k] \in Entry
                             /\ list[k].start \in Nat
                             /\ EndOf(list[k]) \in Nat
                             /\ list[k].start <= EndOf(list[k])
  <2> TAKE k \in DOMAIN list
  <2>1. list[k] \in Entry  OBVIOUS
  <2> QED  BY <2>1, CalendarAssumption DEF Entry, EndOf
<1>2. Len(list) \in Nat /\ Len(list) # 0 /\ DOMAIN list = 1..Len(list)
  OBVIOUS
<1>3. PICK k \in DOMAIN list : e = list[k]
  BY DEF Range
<1>4. CASE Len(list) = 1
  <2>1. k = 1  BY <1>2, <1>3, <1>4
  <2> QED  BY <1>1, <1>3, <1>4, <2>1, ShownOfOne
<1>5. CASE Len(list) = 2
  <2>1. 1 \in DOMAIN list /\ 2 \in DOMAIN list /\ (k = 1 \/ k = 2)
    BY <1>2, <1>3, <1>5
  <2>2. LatestShown(list) = Later(list[1], list[2])
    BY <1>5, ShownOfTwo DEF Later
  <2>3. CASE list[1].start > EndOf(list[2])
    <3>1. LatestShown(list) = list[1]  BY <2>2, <2>3 DEF Later
    <3>2. list[2].start <= EndOf(list[1])
      BY <1>1, <2>1, <2>3
    <3> QED  BY <1>1, <1>3, <2>1, <3>1, <3>2
  <2>4. CASE ~(list[1].start > EndOf(list[2]))
    <3>1. LatestShown(list) = list[2]  BY <2>2, <2>4 DEF Later
    <3>2. list[1].start <= EndOf(list[2])
      BY <1>1, <2>1, <2>4
    <3> QED  BY <1>1, <1>3, <2>1, <3>1, <3>2
  <2> QED  BY <2>3, <2>4
<1> QED  BY <1>2, <1>4, <1>5

\* With the limit of two as it is in the code, no challenge in memory was started
\* after the one on the home page had ended, for any user and any number of
\* devices: the fold compares a start with an end, and it is the limit, kept on
\* every copy, that makes up for it.
THEOREM ShownNeverSuperseded ==
    ASSUME MaxActive <= 2
    PROVE  Spec => []LatestNotSuperseded
<1>1. TypeOK /\ AtMostTwoActive => LatestNotSuperseded
  <2> SUFFICES ASSUME TypeOK, AtMostTwoActive, NEW d \in Device, user[d].active # <<>>,
                      NEW e \in Range(user[d].active)
               PROVE  e.start <= EndOf(LatestShown(user[d].active))
    BY DEF LatestNotSuperseded
  <2>1. user[d].active \in Seq(Entry)  BY DEF TypeOK, Account
  <2>2. user[d].active \in ActiveLists  BY DEF ActiveLists, ListsOn
  <2>3. Len(user[d].active) <= 2
    BY <2>1, <2>2, LimitAssumption, LenProperties DEF AtMostTwoActive
  <2> QED  BY <2>1, <2>3, ShownNotSuperseded
<1> QED  BY <1>1, TypeCorrect, LimitHolds, PTL

=============================================================================
