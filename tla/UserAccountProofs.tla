------------------------- MODULE UserAccountProofs -------------------------
(***************************************************************************)
(* Type correctness and the three safety invariants of UserAccount, for    *)
(* every number of devices and challenges, any catalogue, and any limit,   *)
(* calendar and bounds.                                                    *)
(*                                                                         *)
(* Types first: most is what the handlers' list operators return; the      *)
(* lemmas on them also say where the elements of the results come from.    *)
(*                                                                         *)
(* The second part says where the next value of every copy of the account  *)
(* comes from: each of the five variables that hold one (the document, the *)
(* queues, memory, the rows, the answers in flight) has a lemma.  Each     *)
(* invariant is then inductive with TypeOK once the copies are taken       *)
(* together: a step makes a copy only from copies there are, so a property *)
(* of all of them passes to the new one.                                   *)
(***************************************************************************)
EXTENDS UserAccount, TLAPS, SequenceTheorems, WellFoundedInduction

-----------------------------------------------------------------------------
(* The greatest element that LastUnsent chooses exists.                    *)

LEMMA LeastNatural ==
    ASSUME NEW T \in SUBSET Nat, T # {}
    PROVE  \E x \in T : \A y \in T : x <= y
<1>1. PICK x \in T : \A y \in T : ~ (<<y, x>> \in OpToRel(<, Nat))
  BY NatLessThanWellFounded, WFMin
<1>2. \A y \in Nat : <<y, x>> \in OpToRel(<, Nat) <=> y < x
  BY Zenon DEF OpToRel
<1>3. ASSUME NEW y \in T PROVE x <= y
  <2>1. ~(y < x)  BY <1>1, <1>2
  <2> QED  BY <2>1
<1> QED  BY <1>3

LEMMA GreatestIndex ==
    ASSUME NEW n \in Nat, NEW T \in SUBSET (1..n), T # {}
    PROVE  \E x \in T : \A y \in T : y <= x
<1> DEFINE Rest == {n - i : i \in T}
<1>0. Rest \in SUBSET Nat
  OBVIOUS
<1>1. Rest # {}
  <2>1. PICK i \in T : TRUE  OBVIOUS
  <2> QED  BY <2>1
<1>2. PICK r \in Rest : \A y \in Rest : r <= y
  BY <1>0, <1>1, LeastNatural
<1>3. PICK x \in T : r = n - x
  OBVIOUS
<1>4. ASSUME NEW y \in T PROVE y <= x
  <2>1. n - y \in Rest  OBVIOUS
  <2>2. n - x <= n - y  BY <2>1, <1>2, <1>3
  <2> QED  BY <2>2
<1> QED  BY <1>4

-----------------------------------------------------------------------------
(* What reads and handlers compute.                                        *)

LEMMA MergeType ==
    ASSUME NEW a \in Account, NEW w \in Write PROVE Merge(a, w) \in Account
BY SMT DEF Merge, Account, Write

LEMMA LastUnsentType ==
    ASSUME NEW d \in Device, NEW f, queue \in [Device -> Seq(Write)]
    PROVE  \/ LastUnsent(d, f) = 0
           \/ /\ LastUnsent(d, f) \in DOMAIN queue[d]
              /\ f \in DOMAIN queue[d][LastUnsent(d, f)]
<1> DEFINE sent == WritesOf(d, f)
<1>1. CASE sent = {}
  BY <1>1 DEF LastUnsent
<1>2. CASE sent # {}
  <2>1. sent \in SUBSET (1..Len(queue[d]))  BY LenProperties DEF WritesOf
  <2>2. \E i \in sent : \A j \in sent : j <= i
    BY <1>2, <2>1, GreatestIndex, LenProperties
  <2>3. LastUnsent(d, f) \in sent
    BY <1>2, <2>2 DEF LastUnsent
  <2> QED  BY <2>3 DEF WritesOf
<1> QED  BY <1>1, <1>2

LEMMA OverlayType ==
    ASSUME NEW d \in Device, TypeOK
    PROVE  Overlay(d) \in Account
<1>1. \A f : \/ LastUnsent(d, f) = 0
             \/ /\ queue[d][LastUnsent(d, f)] \in Write
                /\ f \in DOMAIN queue[d][LastUnsent(d, f)]
  <2> SUFFICES ASSUME NEW f, LastUnsent(d, f) # 0
               PROVE  /\ queue[d][LastUnsent(d, f)] \in Write
                      /\ f \in DOMAIN queue[d][LastUnsent(d, f)]
    OBVIOUS
  <2>1. queue \in [Device -> Seq(Write)]  BY DEF TypeOK
  <2> QED  BY <2>1, LastUnsentType, ElementOfSeq, LenProperties
<1>2. doc \in Account  BY DEF TypeOK
<1>3. Seen(d, "active") \in Seq(Entry)
  BY <1>1, <1>2 DEF Seen, Write, Account
<1>4. Seen(d, "completed") \in Seq(Done)
  BY <1>1, <1>2 DEF Seen, Write, Account
<1>5. Seen(d, "coins") \in Int
  BY <1>1, <1>2 DEF Seen, Write, Account
<1> QED  BY <1>3, <1>4, <1>5 DEF Overlay, Account

LEMMA DecodedType ==
    ASSUME NEW a \in Account, today \in Nat
    PROVE  Decoded(a) \in Account /\ Decoded(a).active = a.active
               /\ Decoded(a).coins = a.coins
<1> DEFINE dated == [i \in DOMAIN a.completed |-> [a.completed[i] EXCEPT !.date = today]]
<1>1. dated \in Seq(Done)
  <2>1. a.completed \in Seq(Done)  BY DEF Account
  <2>2. DOMAIN a.completed = 1..Len(a.completed) /\ Len(a.completed) \in Nat
    BY <2>1, LenProperties
  <2>3. ASSUME NEW i \in 1..Len(a.completed)
        PROVE  [a.completed[i] EXCEPT !.date = today] \in Done
    <3>1. a.completed[i] \in Done  BY <2>1, ElementOfSeq
    <3> QED  BY <3>1 DEF Done
  <2>4. dated \in [1..Len(a.completed) -> Done]  BY <2>2, <2>3
  <2> QED  BY <2>2, <2>4
<1> HIDE DEF dated
<1>2. Decoded(a) = [a EXCEPT !.completed = dated]  BY DEF Decoded, dated
<1> QED  BY <1>1, <1>2 DEF Account

LEMMA ReorderingType ==
    ASSUME NEW S, NEW s \in Seq(S), NEW r \in Reorderings(s)
    PROVE  /\ r \in Seq(S)
           /\ Len(r) = Len(s)
           /\ \A i \in DOMAIN r : \E j \in DOMAIN s : r[i] = s[j]
<1>1. PICK p \in [DOMAIN s -> DOMAIN s] : r = [i \in DOMAIN s |-> s[p[i]]]
  BY DEF Reorderings
<1>2. DOMAIN s = 1..Len(s) /\ Len(s) \in Nat  BY LenProperties
<1>3. r \in [1..Len(s) -> S]  BY <1>1, <1>2
<1> QED  BY <1>1, <1>2, <1>3

LEMMA RemoveAtType ==
    ASSUME NEW S, NEW s \in Seq(S), NEW k \in 1..Len(s)
    PROVE  /\ RemoveAt(s, k) \in Seq(S)
           /\ Len(RemoveAt(s, k)) = Len(s) - 1
           /\ \A i \in DOMAIN RemoveAt(s, k) :
                \E j \in DOMAIN s : RemoveAt(s, k)[i] = s[j]
<1> DEFINE before == SubSeq(s, 1, k - 1)
           after  == SubSeq(s, k + 1, Len(s))
<1>0. Len(s) \in Nat /\ DOMAIN s = 1..Len(s)  BY LenProperties
<1>1. /\ before \in Seq(S) /\ Len(before) = k - 1
      /\ \A i \in 1..(k - 1) : before[i] = s[i]
  BY <1>0, SubSeqProperties, ElementOfSeq
<1>2. /\ after \in Seq(S) /\ Len(after) = Len(s) - k
      /\ \A i \in 1..(Len(s) - k) : after[i] = s[k + i]
  BY <1>0, SubSeqProperties, ElementOfSeq
<1> HIDE DEF before, after
<1>3. RemoveAt(s, k) = before \o after  BY DEF RemoveAt, before, after
<1>4. /\ RemoveAt(s, k) \in Seq(S) /\ Len(RemoveAt(s, k)) = Len(s) - 1
      /\ \A i \in 1..(Len(s) - 1) :
           RemoveAt(s, k)[i] = IF i <= k - 1 THEN before[i] ELSE after[i - (k - 1)]
  <2>1. Len(before) + Len(after) = Len(s) - 1  BY <1>0, <1>1, <1>2
  <2>2. /\ before \o after \in Seq(S)
        /\ Len(before \o after) = Len(before) + Len(after)
        /\ \A i \in 1..(Len(before) + Len(after)) : (before \o after)[i] =
             IF i <= Len(before) THEN before[i] ELSE after[i - Len(before)]
    BY <1>1, <1>2, ConcatProperties
  <2> QED  BY <1>1, <1>3, <2>1, <2>2
<1>5. ASSUME NEW i \in 1..(Len(s) - 1)
      PROVE  \E j \in DOMAIN s : RemoveAt(s, k)[i] = s[j]
  <2>1. CASE i <= k - 1
    <3>1. RemoveAt(s, k)[i] = s[i]  BY <1>0, <1>1, <1>4, <2>1
    <3> QED  BY <1>0, <3>1
  <2>2. CASE i > k - 1
    <3>1. i - (k - 1) \in 1..(Len(s) - k)  BY <1>0, <2>2
    <3>2. RemoveAt(s, k)[i] = s[k + (i - (k - 1))]  BY <1>0, <1>2, <1>4, <2>2, <3>1
    <3>3. k + (i - (k - 1)) \in DOMAIN s  BY <1>0, <3>1
    <3> QED  BY <3>2, <3>3
  <2> QED  BY <2>1, <2>2
<1>6. DOMAIN RemoveAt(s, k) = 1..(Len(s) - 1)
  BY <1>4, LenProperties
<1> QED  BY <1>4, <1>5, <1>6

LEMMA EmptyTypes ==
    /\ NewAccount \in Account
    /\ NoModal \in Modal
    /\ <<>> \in Seq(Entry) /\ <<>> \in Seq(Write) /\ <<>> \in Seq(Fetch)
BY DEF NewAccount, Account, NoModal, Modal

LEMMA StartedType ==
    ASSUME NEW a \in Account, NEW c \in Challenge, today \in Nat
    PROVE  /\ Started(a, c) \in Seq(Entry)
           /\ Len(Started(a, c)) = Len(a.active) + 1
           /\ \A i \in 1..Len(a.active) : Started(a, c)[i] = a.active[i]
           /\ Started(a, c)[Len(a.active) + 1].days = <<>>
<1>1. a.active \in Seq(Entry)  BY DEF Account
<1>2. [id |-> c, start |-> today, days |-> <<>>] \in Entry  BY DEF Entry
<1> QED  BY <1>1, <1>2, AppendProperties DEF Started

LEMMA LoggedType ==
    ASSUME NEW a \in Account, NEW c, today \in Nat
    PROVE  /\ Logged(a, c) \in Seq(Entry)
           /\ Len(Logged(a, c)) = Len(a.active)
           /\ \A i \in 1..Len(a.active) :
                Logged(a, c)[i] = IF a.active[i].id = c
                                  THEN [a.active[i] EXCEPT !.days = Append(@, today)]
                                  ELSE a.active[i]
<1>1. a.active \in Seq(Entry)  BY DEF Account
<1>2. DOMAIN a.active = 1..Len(a.active) /\ Len(a.active) \in Nat
  BY <1>1, LenProperties
<1>3. ASSUME NEW i \in 1..Len(a.active)
      PROVE  [a.active[i] EXCEPT !.days = Append(@, today)] \in Entry
  <2>1. a.active[i] \in Entry  BY <1>1, ElementOfSeq
  <2>2. Append(a.active[i].days, today) \in Seq(Nat)
    BY <2>1, AppendProperties DEF Entry
  <2> QED  BY <2>1, <2>2 DEF Entry
<1>4. \A i \in 1..Len(a.active) : a.active[i] \in Entry
  BY <1>1, ElementOfSeq
<1>5. Logged(a, c) \in [1..Len(a.active) -> Entry]
  BY <1>2, <1>3, <1>4 DEF Logged
<1>6. Logged(a, c) \in Seq(Entry) /\ Len(Logged(a, c)) = Len(a.active)
  BY <1>2, <1>5
<1> QED  BY <1>2, <1>6 DEF Logged

LEMMA RemainingType ==
    ASSUME NEW a \in Account, NEW c
    PROVE  /\ Remaining(a, c) \in Seq(Entry)
           /\ Len(Remaining(a, c)) <= Len(a.active)
           /\ \A i \in DOMAIN Remaining(a, c) :
                \E j \in DOMAIN a.active : Remaining(a, c)[i] = a.active[j]
<1>1. a.active \in Seq(Entry)  BY DEF Account
<1>2. DOMAIN a.active = 1..Len(a.active) /\ Len(a.active) \in Nat
  BY <1>1, LenProperties
<1>3. CASE Matches(a.active, c) = {}
  BY <1>1, <1>2, <1>3 DEF Remaining
<1>4. CASE Matches(a.active, c) # {}
  <2> DEFINE k == CHOOSE i \in Matches(a.active, c) : TRUE
  <2>1. k \in 1..Len(a.active)  BY <1>2, <1>4 DEF Matches
  <2> HIDE DEF k
  <2>2. Remaining(a, c) = RemoveAt(a.active, k)  BY <1>4 DEF Remaining, k
  <2>3. /\ RemoveAt(a.active, k) \in Seq(Entry)
        /\ Len(RemoveAt(a.active, k)) = Len(a.active) - 1
        /\ \A i \in DOMAIN RemoveAt(a.active, k) :
             \E j \in DOMAIN a.active : RemoveAt(a.active, k)[i] = a.active[j]
    BY <1>1, <2>1, RemoveAtType
  <2> QED  BY <1>2, <2>2, <2>3
<1> QED  BY <1>3, <1>4

LEMMA CompletedType ==
    ASSUME NEW a \in Account, NEW x \in Modal, x.kind = "claim"
    PROVE  Completed(a, x) \in Seq(Done)
<1>1. a.completed \in Seq(Done)  BY DEF Account
<1>2. [id |-> x.id, date |-> x.date, sp |-> x.coins] \in Done  BY DEF Done, Modal
<1> QED  BY <1>1, <1>2, AppendProperties DEF Completed

-----------------------------------------------------------------------------
(* The actions.                                                            *)

LEMMA NewFetchesType ==
    ASSUME NEW origins \in Seq(Origin)
    PROVE  NewFetches(origins) \in Seq(Fetch)
<1>1. DOMAIN origins = 1..Len(origins) /\ Len(origins) \in Nat  BY LenProperties
<1>2. \A i \in 1..Len(origins) : NewFetch(origins[i]) \in Fetch
  BY ElementOfSeq, EmptyTypes DEF NewFetch, Fetch
<1>3. NewFetches(origins) \in [1..Len(origins) -> Fetch]
  BY <1>1, <1>2 DEF NewFetches
<1> QED  BY <1>1, <1>3

LEMMA BeginType ==
    ASSUME NEW d \in Device, NEW origins \in Seq(Origin), TypeOK, Begin(d, origins)
    PROVE  fetches' \in [Device -> Seq(Fetch)]
<1>1. fetches[d] \o NewFetches(origins) \in Seq(Fetch)
  BY NewFetchesType, ConcatProperties DEF TypeOK
<1> QED  BY <1>1 DEF Begin, TypeOK

LEMMA IssueType ==
    ASSUME NEW d \in Device, NEW ws \in Seq(Write), TypeOK, Issue(d, ws)
    PROVE  queue' \in [Device -> Seq(Write)] /\ writes' \in Nat
<1>1. queue[d] \o ws \in Seq(Write)
  BY ConcatProperties DEF TypeOK
<1> QED  BY <1>1 DEF Issue, TypeOK

LEMMA InitType == Init => TypeOK
BY EmptyTypes DEF Init, TypeOK, Session

LEMMA DieType ==
    ASSUME NEW d \in Device, NEW k \in 0..Len(queue[d]), TypeOK, Die(d, k),
           UNCHANGED <<doc, today, writes, ledger>>
    PROVE  TypeOK'
<1>1. SubSeq(queue[d], 1, k) \in Seq(Write)
  <2>1. queue[d] \in Seq(Write)  BY DEF TypeOK
  <2>2. \A i \in 1..k : queue[d][i] \in Write  BY <2>1, ElementOfSeq
  <2> QED  BY <2>1, <2>2, SubSeqProperties
<1> QED  BY <1>1, EmptyTypes DEF TypeOK, Die, Session, ledger

\* The actions that only move between pages, or only begin fetches.
LEMMA PageType ==
    ASSUME TypeOK, NEW d \in Device,
           \/ SignIn(d) \/ OpenHome(d) \/ OpenChallenges(d) \/ ChangeSegment(d)
           \/ LeaveLog(d) \/ CloseClaim(d) \/ LeaveReward(d)
    PROVE  TypeOK'
<1>1. <<"login">> \in Seq(Origin) /\ <<"home">> \in Seq(Origin)
      /\ <<"view">> \in Seq(Origin) /\ <<"segment">> \in Seq(Origin)
  BY DEF Origin
<1>2. CASE SignIn(d)
  BY <1>1, <1>2, BeginType, EmptyTypes DEF SignIn, TypeOK, net, ledger, Session
<1>3. CASE OpenHome(d)
  BY <1>1, <1>3, BeginType DEF OpenHome, TypeOK, net, ledger
<1>4. CASE OpenChallenges(d)
  <2>1. user[d].active \in Seq(Entry)  BY DEF TypeOK, Account
  <2> QED
    BY <1>1, <1>4, <2>1, BeginType DEF OpenChallenges, TypeOK, net, ledger, Session
<1>5. CASE ChangeSegment(d)
  BY <1>1, <1>5, BeginType DEF ChangeSegment, TypeOK, net, ledger
<1>6. CASE LeaveLog(d)
  BY <1>1, <1>6, BeginType DEF LeaveLog, TypeOK, net, ledger
<1>7. CASE CloseClaim(d)
  <2>1. fetches' \in [Device -> Seq(Fetch)]
    BY <1>1, <1>7, BeginType DEF CloseClaim, TypeOK
  <2> QED  BY <1>7, <2>1, EmptyTypes DEF CloseClaim, TypeOK, net, ledger
<1>8. CASE LeaveReward(d)
  BY <1>8, EmptyTypes DEF LeaveReward, TypeOK, net, ledger
<1> QED
  BY <1>2, <1>3, <1>4, <1>5, <1>6, <1>7, <1>8

LEMMA AnswerFetchType ==
    ASSUME TypeOK, NEW d \in Device, NEW i \in DOMAIN fetches[d], AnswerFetch(d, i)
    PROVE  TypeOK'
<1>1. fetches[d] \in Seq(Fetch) /\ i \in 1..Len(fetches[d])
  BY LenProperties DEF TypeOK
<1>2. fetches[d][i] \in Fetch  BY <1>1, ElementOfSeq
<1>3. Decoded(Overlay(d)) \in Account
  BY OverlayType, DecodedType DEF TypeOK
<1> DEFINE answered == [fetches[d][i] EXCEPT !.answered = TRUE,
                                             !.snap = Decoded(Overlay(d))]
<1>4. answered \in Fetch  BY <1>2, <1>3 DEF Fetch
<1>5. [fetches[d] EXCEPT ![i] = answered] \in Seq(Fetch)
  BY <1>1, <1>4, ExceptSeq
<1>6. fetches' = [fetches EXCEPT ![d] = [fetches[d] EXCEPT ![i] = answered]]
  BY DEF AnswerFetch, TypeOK
<1>7. fetches' \in [Device -> Seq(Fetch)]
  <2> HIDE DEF answered
  <2> QED  BY <1>5, <1>6 DEF TypeOK
<1>8. UNCHANGED <<doc, queue, session, user, rows, logPage, modal, today, writes,
                  earned, spent>>
  BY DEF AnswerFetch, net, ledger
<1> QED  BY <1>7, <1>8 DEF TypeOK

LEMMA InstallFetchType ==
    ASSUME TypeOK, NEW d \in Device, NEW i \in DOMAIN fetches[d], InstallFetch(d, i)
    PROVE  TypeOK'
<1> DEFINE fetch  == fetches[d][i]
           others == RemoveAt(fetches[d], i)
<1>1. fetches[d] \in Seq(Fetch) /\ i \in 1..Len(fetches[d])
  BY LenProperties DEF TypeOK
<1>2. fetch \in Fetch  BY <1>1, ElementOfSeq
<1>3. others \in Seq(Fetch)  BY <1>1, RemoveAtType
<1>4. FollowUps(fetch) \in Seq(Origin)  BY DEF FollowUps, Origin
<1>5. others \o NewFetches(FollowUps(fetch)) \in Seq(Fetch)
  BY <1>3, <1>4, NewFetchesType, ConcatProperties
<1>6. fetch.snap.active \in Seq(Entry) /\ fetch.snap.completed \in Seq(Done)
      /\ fetch.snap.coins \in Int
  BY <1>2 DEF Fetch, Account
<1>7. PICK active \in Reorderings(fetch.snap.active),
           completed \in Reorderings(fetch.snap.completed) :
        /\ user' = [user EXCEPT ![d] = [active    |-> active,
                                        completed |-> completed,
                                        coins     |-> fetch.snap.coins]]
        /\ rows' = IF RefreshesRows(fetch) THEN [rows EXCEPT ![d] = active] ELSE rows
  BY DEF InstallFetch
<1>8. active \in Seq(Entry) /\ completed \in Seq(Done)
  BY <1>6, ReorderingType
<1>9. user' \in [Device -> Account]
  BY <1>6, <1>7, <1>8 DEF TypeOK, Account
<1>10. rows' \in [Device -> Seq(Entry)]
  BY <1>7, <1>8 DEF TypeOK
<1>11. fetches' \in [Device -> Seq(Fetch)]
  BY <1>5 DEF InstallFetch, TypeOK
<1>12. session' \in [Device -> Session]
  BY DEF InstallFetch, TypeOK, Session
<1>13. modal' \in [Device -> Modal]
  BY EmptyTypes DEF InstallFetch, TypeOK
<1> QED
  BY <1>9, <1>10, <1>11, <1>12, <1>13 DEF InstallFetch, TypeOK, net, ledger

LEMMA SendWriteType ==
    ASSUME TypeOK, NEW d \in Device, SendWrite(d)
    PROVE  TypeOK'
<1>1. queue[d] \in Seq(Write) /\ queue[d] # <<>>
  BY DEF TypeOK, SendWrite
<1>2. Head(queue[d]) \in Write /\ Tail(queue[d]) \in Seq(Write)
  BY <1>1, HeadTailProperties
<1>3. doc' \in Account
  BY <1>2, MergeType DEF SendWrite, TypeOK
<1> QED  BY <1>2, <1>3 DEF SendWrite, TypeOK, ledger

LEMMA StartChallengeType ==
    ASSUME TypeOK, NEW d \in Device, NEW c \in Challenge, StartChallenge(d, c)
    PROVE  TypeOK'
<1>1. user[d] \in Account  BY DEF TypeOK
<1>2. [active |-> Started(user[d], c)] \in Write
  BY <1>1, StartedType DEF TypeOK, Write
<1>3. <<[active |-> Started(user[d], c)]>> \in Seq(Write)  BY <1>2
<1>4. queue' \in [Device -> Seq(Write)] /\ writes' \in Nat
  BY <1>3, IssueType DEF StartChallenge
<1>5. <<"view">> \in Seq(Origin)  BY DEF Origin
<1>6. fetches' \in [Device -> Seq(Fetch)]
  BY <1>5, BeginType DEF StartChallenge
<1> QED  BY <1>4, <1>6 DEF StartChallenge, TypeOK, ledger

LEMMA LogActionType ==
    ASSUME TypeOK, NEW d \in Device, LogAction(d)
    PROVE  TypeOK'
<1>1. user[d] \in Account  BY DEF TypeOK
<1>2. [active |-> Logged(user[d], logPage[d])] \in Write
  BY <1>1, LoggedType DEF TypeOK, Write
<1>3. <<[active |-> Logged(user[d], logPage[d])]>> \in Seq(Write)  BY <1>2
<1>4. queue' \in [Device -> Seq(Write)] /\ writes' \in Nat
  BY <1>3, IssueType DEF LogAction
<1>5. <<"home", "view">> \in Seq(Origin)  BY DEF Origin
<1>6. fetches' \in [Device -> Seq(Fetch)]
  BY <1>5, BeginType DEF LogAction
<1> QED  BY <1>4, <1>6 DEF LogAction, TypeOK, ledger

LEMMA ClaimType ==
    ASSUME TypeOK, NEW d \in Device, Claim(d)
    PROVE  TypeOK'
<1> DEFINE w1 == [active    |-> Remaining(user[d], modal[d].id)]
           w2 == [completed |-> Completed(user[d], modal[d])]
           w3 == [coins     |-> user[d].coins + modal[d].coins]
<1>1. user[d] \in Account /\ modal[d] \in Modal /\ modal[d].kind = "claim"
  BY DEF TypeOK, Claim
<1>2. modal[d].coins \in Nat  BY <1>1 DEF Modal
<1>3. w1 \in Write
  BY <1>1, RemainingType DEF Write
<1>4. w2 \in Write
  BY <1>1, CompletedType DEF Write
<1>5. w3 \in Write
  BY <1>1, <1>2 DEF Write, Account
<1>6. <<w1, w2, w3>> \in Seq(Write)  BY <1>3, <1>4, <1>5
<1>7. queue' \in [Device -> Seq(Write)] /\ writes' \in Nat
  BY <1>6, IssueType DEF Claim
<1>8. <<"view">> \in Seq(Origin)  BY DEF Origin
<1>9. fetches' \in [Device -> Seq(Fetch)]
  BY <1>8, BeginType DEF Claim
<1> QED  BY <1>2, <1>7, <1>9, SMTT(20) DEF Claim, TypeOK

LEMMA OpenRowType ==
    ASSUME TypeOK, NEW d \in Device, NEW i \in DOMAIN rows[d],
           OpenClaim(d, i) \/ OpenLog(d, i)
    PROVE  TypeOK'
<1>1. rows[d] \in Seq(Entry) /\ i \in 1..Len(rows[d])
  BY LenProperties DEF TypeOK
<1>2. rows[d][i] \in Entry  BY <1>1, ElementOfSeq
<1>3. rows[d][i].id \in Challenge  BY <1>2 DEF Entry
<1>4. CASE OpenClaim(d, i)
  <2>1. EndOf(rows[d][i]) \in Nat
    BY <1>2, CalendarAssumption DEF EndOf, Entry
  <2>2. Value[rows[d][i].id] \in Nat /\ Len(rows[d][i].days) \in Nat
    BY <1>2, CatalogueAssumption, LenProperties DEF Entry
  <2>3. Value[rows[d][i].id] * Len(rows[d][i].days) \in Nat  BY <2>2
  <2> QED  BY <1>3, <1>4, <2>1, <2>3 DEF OpenClaim, TypeOK, Modal, net, ledger
<1>5. CASE OpenLog(d, i)
  BY <1>3, <1>5 DEF OpenLog, TypeOK, net, ledger
<1> QED  BY <1>4, <1>5

LEMMA RewardType ==
    ASSUME TypeOK, NEW d \in Device,
           (\E p \in Price : ChooseReward(d, p)) \/ TakeReward(d)
    PROVE  TypeOK'
<1>1. ASSUME NEW p \in Price, ChooseReward(d, p) PROVE TypeOK'
  <2>1. [NoModal EXCEPT !.kind = "reward", !.coins = p] \in Modal
    BY CatalogueAssumption DEF NoModal, Modal
  <2> QED  BY <1>1, <2>1 DEF ChooseReward, TypeOK, net, ledger
<1>2. CASE TakeReward(d)
  <2> DEFINE left == user[d].coins - modal[d].coins
  <2>1. user[d] \in Account /\ modal[d] \in Modal  BY DEF TypeOK
  <2>2. left \in Int /\ modal[d].coins \in Nat  BY <2>1 DEF Account, Modal
  <2>3. <<[coins |-> left]>> \in Seq(Write)  BY <2>2 DEF Write
  <2>4. queue' \in [Device -> Seq(Write)] /\ writes' \in Nat
    BY <1>2, <2>3, IssueType DEF TakeReward
  <2>5. user' \in [Device -> Account]
    BY <1>2, <2>1, <2>2 DEF TakeReward, TypeOK, Account
  <2> QED
    BY <1>2, <2>2, <2>4, <2>5, EmptyTypes, SMTT(20) DEF TakeReward, TypeOK
<1> QED  BY <1>1, <1>2

LEMMA TypeStep == TypeOK /\ [Next]_vars => TypeOK'
<1> SUFFICES ASSUME TypeOK, [Next]_vars PROVE TypeOK'
  OBVIOUS
<1>1. ASSUME NEW d \in Device, UserStep(d) PROVE TypeOK'
  <2>1. CASE SignOut(d)
    <3>1. Len(queue[d]) \in 0..Len(queue[d])
      BY LenProperties DEF TypeOK
    <3> QED  BY <2>1, <3>1, DieType DEF SignOut
  <2>2. CASE ClaimTraps(d)
    <3>1. Len(queue[d]) \in 0..Len(queue[d])
      BY LenProperties DEF TypeOK
    <3> QED  BY <2>2, <3>1, DieType DEF ClaimTraps
  <2> QED
    BY <1>1, <2>1, <2>2, PageType, StartChallengeType, OpenRowType,
       LogActionType, ClaimType, RewardType DEF UserStep
<1>2. ASSUME NEW d \in Device, NetworkStep(d) PROVE TypeOK'
  BY <1>2, AnswerFetchType, InstallFetchType, SendWriteType DEF NetworkStep
<1>3. ASSUME NEW d \in Device, Kill(d) PROVE TypeOK'
  BY <1>3, DieType DEF Kill
<1>4. CASE NextDay
  BY <1>4 DEF NextDay, TypeOK, net, ledger
<1>5. CASE UNCHANGED vars
  BY <1>5 DEF vars, TypeOK
<1> QED  BY <1>1, <1>2, <1>3, <1>4, <1>5 DEF Next

\* Whatever the constants: the document, its copies in memory, the answers in
\* flight and the writes in the queues always have the shape the code decodes.
THEOREM TypeCorrect == Spec => []TypeOK
<1>1. Init => TypeOK  BY InitType
<1>2. TypeOK /\ [Next]_vars => TypeOK'  BY TypeStep
<1> QED  BY <1>1, <1>2, PTL DEF Spec

-----------------------------------------------------------------------------
LEMMA ConcatElement ==
    ASSUME NEW S, NEW s \in Seq(S), NEW t \in Seq(S), NEW i \in DOMAIN (s \o t)
    PROVE  \/ \E j \in DOMAIN s : (s \o t)[i] = s[j]
           \/ \E j \in DOMAIN t : (s \o t)[i] = t[j]
<1>1. /\ DOMAIN s = 1..Len(s) /\ Len(s) \in Nat
      /\ DOMAIN t = 1..Len(t) /\ Len(t) \in Nat
  BY LenProperties
<1>2. /\ s \o t \in Seq(S) /\ Len(s \o t) = Len(s) + Len(t)
      /\ \A k \in 1..(Len(s) + Len(t)) :
           (s \o t)[k] = IF k <= Len(s) THEN s[k] ELSE t[k - Len(s)]
  BY ConcatProperties
<1>3. i \in 1..(Len(s) + Len(t))  BY <1>2, LenProperties
<1>4. CASE i <= Len(s)
  BY <1>1, <1>2, <1>3, <1>4
<1>5. CASE i > Len(s)
  <2>1. i - Len(s) \in DOMAIN t  BY <1>1, <1>3, <1>5
  <2>2. (s \o t)[i] = t[i - Len(s)]  BY <1>1, <1>2, <1>3, <1>5
  <2> QED  BY <2>1, <2>2
<1> QED  BY <1>1, <1>3, <1>4, <1>5

-----------------------------------------------------------------------------
(* The document.                                                           *)

LEMMA DocLineage ==
    ASSUME TypeOK, [Next]_vars
    PROVE  \/ doc' = doc
           \/ \E d \in Device : /\ 1 \in DOMAIN queue[d]
                                /\ doc' = Merge(doc, queue[d][1])
<1>1. ASSUME NEW d \in Device, SendWrite(d)
      PROVE  1 \in DOMAIN queue[d] /\ doc' = Merge(doc, queue[d][1])
  <2>1. queue[d] \in Seq(Write) /\ queue[d] # <<>>  BY <1>1 DEF TypeOK, SendWrite
  <2>2. 1 \in DOMAIN queue[d] /\ Head(queue[d]) = queue[d][1]
    BY <2>1, EmptySeq, LenProperties
  <2> QED  BY <1>1, <2>2 DEF SendWrite
<1>2. ASSUME NEW d \in Device, UserStep(d) PROVE doc' = doc
  BY <1>2 DEF UserStep, SignIn, SignOut, OpenHome, OpenChallenges, ChangeSegment,
       StartChallenge, OpenClaim, OpenLog, LeaveLog, LogAction, Claim, ClaimTraps,
       CloseClaim, ChooseReward, TakeReward, LeaveReward, net
<1>3. ASSUME NEW d \in Device, NEW i \in DOMAIN fetches[d],
             AnswerFetch(d, i) \/ InstallFetch(d, i)
      PROVE  doc' = doc
  BY <1>3 DEF AnswerFetch, InstallFetch, net
<1>4. ASSUME NEW d \in Device, Kill(d) PROVE doc' = doc
  BY <1>4 DEF Kill
<1>5. CASE NextDay \/ UNCHANGED vars
  BY <1>5 DEF NextDay, net, vars
<1> QED
  BY <1>1, <1>2, <1>3, <1>4, <1>5 DEF Next, NetworkStep

-----------------------------------------------------------------------------
(* The queues.                                                             *)

\* The writes that a tap of device d issues in this step.
Issued(d, w) ==
    \/ \E c \in Challenge : StartChallenge(d, c) /\ w = [active |-> Started(user[d], c)]
    \/ LogAction(d) /\ w = [active |-> Logged(user[d], logPage[d])]
    \/ /\ Claim(d)
       /\ \/ w = [active    |-> Remaining(user[d], modal[d].id)]
          \/ w = [completed |-> Completed(user[d], modal[d])]
          \/ w = [coins     |-> user[d].coins + modal[d].coins]
    \/ TakeReward(d) /\ w = [coins |-> user[d].coins - modal[d].coins]

LEMMA IssueLineage ==
    ASSUME TypeOK, NEW d \in Device, NEW ws \in Seq(Write), Issue(d, ws),
           NEW e \in Device, NEW i \in DOMAIN queue'[e]
    PROVE  \/ \E j \in DOMAIN queue[e] : queue'[e][i] = queue[e][j]
           \/ e = d /\ \E j \in DOMAIN ws : queue'[e][i] = ws[j]
<1>1. queue' = [queue EXCEPT ![d] = queue[d] \o ws] /\ queue[d] \in Seq(Write)
  BY DEF Issue, TypeOK
<1>2. CASE e = d
  <2>1. queue'[e] = queue[d] \o ws  BY <1>1, <1>2 DEF TypeOK
  <2>2. i \in DOMAIN (queue[d] \o ws)  BY <2>1, Zenon
  <2>3. \/ \E j \in DOMAIN queue[d] : (queue[d] \o ws)[i] = queue[d][j]
        \/ \E j \in DOMAIN ws : (queue[d] \o ws)[i] = ws[j]
    <3> DEFINE old == queue[d]
    <3>1. old \in Seq(Write) /\ ws \in Seq(Write) /\ i \in DOMAIN (old \o ws)
      BY <1>1, <2>2
    <3> HIDE DEF old
    <3>2. \/ \E j \in DOMAIN old : (old \o ws)[i] = old[j]
          \/ \E j \in DOMAIN ws : (old \o ws)[i] = ws[j]
      BY <3>1, ConcatElement
    <3> QED  BY <3>2 DEF old
  <2> QED  BY <1>2, <2>1, <2>3
<1>3. CASE e # d
  BY <1>1, <1>3 DEF TypeOK
<1> QED  BY <1>2, <1>3

LEMMA DieLineage ==
    ASSUME TypeOK, NEW d \in Device, NEW k \in 0..Len(queue[d]), Die(d, k),
           NEW e \in Device, NEW i \in DOMAIN queue'[e]
    PROVE  \E j \in DOMAIN queue[e] : queue'[e][i] = queue[e][j]
<1>1. queue' = [queue EXCEPT ![d] = SubSeq(queue[d], 1, k)] /\ queue[d] \in Seq(Write)
  BY DEF Die, TypeOK
<1>2. CASE e = d
  <2>1. DOMAIN queue[d] = 1..Len(queue[d]) /\ Len(queue[d]) \in Nat
    BY <1>1, LenProperties
  <2>2. \A j \in 1..k : queue[d][j] \in Write  BY <1>1, <2>1, ElementOfSeq
  <2>3. /\ SubSeq(queue[d], 1, k) \in Seq(Write)
        /\ Len(SubSeq(queue[d], 1, k)) = k
        /\ \A j \in 1..k : SubSeq(queue[d], 1, k)[j] = queue[d][j]
    BY <2>1, <2>2, SubSeqProperties
  <2>4. queue'[e] = SubSeq(queue[d], 1, k)  BY <1>1, <1>2 DEF TypeOK
  <2>5. i \in 1..k  BY <2>3, <2>4, LenProperties
  <2> QED  BY <1>2, <2>1, <2>3, <2>4, <2>5
<1>3. CASE e # d
  BY <1>1, <1>3 DEF TypeOK
<1> QED  BY <1>2, <1>3

LEMMA QueueLineage ==
    ASSUME TypeOK, [Next]_vars, NEW e \in Device, NEW i \in DOMAIN queue'[e]
    PROVE  \/ \E j \in DOMAIN queue[e] : queue'[e][i] = queue[e][j]
           \/ Issued(e, queue'[e][i])
<1> DEFINE Kept == \E j \in DOMAIN queue[e] : queue'[e][i] = queue[e][j]
<1>1. CASE UNCHANGED queue
  BY <1>1
<1>2. ASSUME NEW d \in Device, NEW c \in Challenge, StartChallenge(d, c)
      PROVE  Kept \/ Issued(e, queue'[e][i])
  <2> DEFINE w == [active |-> Started(user[d], c)]
  <2>1. w \in Write  BY StartedType DEF TypeOK, Write
  <2> HIDE DEF w
  <2>2. <<w>> \in Seq(Write) /\ DOMAIN <<w>> = {1} /\ <<w>>[1] = w  BY <2>1
  <2>3. Issue(d, <<w>>)  BY <1>2 DEF StartChallenge, w
  <2>4. Kept \/ (e = d /\ queue'[e][i] = w)
    <3>1. Kept \/ (e = d /\ \E j \in DOMAIN <<w>> : queue'[e][i] = <<w>>[j])
      BY <2>2, <2>3, IssueLineage, ZenonT(30)
    <3> QED  BY <2>2, <3>1
  <2> QED  BY <1>2, <2>4 DEF Issued, w
<1>3. ASSUME NEW d \in Device, LogAction(d)
      PROVE  Kept \/ Issued(e, queue'[e][i])
  <2> DEFINE w == [active |-> Logged(user[d], logPage[d])]
  <2>1. w \in Write  BY LoggedType DEF TypeOK, Write
  <2> HIDE DEF w
  <2>2. <<w>> \in Seq(Write) /\ DOMAIN <<w>> = {1} /\ <<w>>[1] = w  BY <2>1
  <2>3. Issue(d, <<w>>)  BY <1>3 DEF LogAction, w
  <2>4. Kept \/ (e = d /\ queue'[e][i] = w)
    <3>1. Kept \/ (e = d /\ \E j \in DOMAIN <<w>> : queue'[e][i] = <<w>>[j])
      BY <2>2, <2>3, IssueLineage, ZenonT(30)
    <3> QED  BY <2>2, <3>1
  <2> QED  BY <1>3, <2>4 DEF Issued, w
<1>4. ASSUME NEW d \in Device, TakeReward(d)
      PROVE  Kept \/ Issued(e, queue'[e][i])
  <2> DEFINE w == [coins |-> user[d].coins - modal[d].coins]
  <2>1. user[d] \in Account /\ modal[d] \in Modal  BY DEF TypeOK
  <2>2. w \in Write  BY <2>1 DEF Write, Account, Modal
  <2> HIDE DEF w
  <2>3. <<w>> \in Seq(Write) /\ DOMAIN <<w>> = {1} /\ <<w>>[1] = w  BY <2>2
  <2>4. Issue(d, <<w>>)  BY <1>4 DEF TakeReward, w
  <2>5. Kept \/ (e = d /\ queue'[e][i] = w)
    <3>1. Kept \/ (e = d /\ \E j \in DOMAIN <<w>> : queue'[e][i] = <<w>>[j])
      BY <2>3, <2>4, IssueLineage, ZenonT(30)
    <3> QED  BY <2>3, <3>1
  <2> QED  BY <1>4, <2>5 DEF Issued, w
<1>5. ASSUME NEW d \in Device, Claim(d)
      PROVE  Kept \/ Issued(e, queue'[e][i])
  <2> DEFINE w1 == [active    |-> Remaining(user[d], modal[d].id)]
             w2 == [completed |-> Completed(user[d], modal[d])]
             w3 == [coins     |-> user[d].coins + modal[d].coins]
  <2>1. user[d] \in Account /\ modal[d] \in Modal /\ modal[d].kind = "claim"
    BY <1>5 DEF TypeOK, Claim
  <2>2. w1 \in Write  BY <2>1, RemainingType DEF Write
  <2>3. w2 \in Write  BY <2>1, CompletedType DEF Write
  <2>4. w3 \in Write  BY <2>1 DEF Write, Account, Modal
  <2>5. Issue(d, <<w1, w2, w3>>)  BY <1>5 DEF Claim
  <2>6. Kept \/ (e = d /\ queue'[e][i] \in {w1, w2, w3})
    <3> HIDE DEF w1, w2, w3
    <3>1. /\ <<w1, w2, w3>> \in Seq(Write) /\ DOMAIN <<w1, w2, w3>> = 1..3
          /\ \A j \in 1..3 : <<w1, w2, w3>>[j] \in {w1, w2, w3}
      BY <2>2, <2>3, <2>4
    <3>2. \/ Kept
          \/ e = d /\ \E j \in DOMAIN <<w1, w2, w3>> : queue'[e][i] = <<w1, w2, w3>>[j]
      BY <2>5, <3>1, IssueLineage, Zenon
    <3> QED  BY <3>1, <3>2
  <2> QED  BY <1>5, <2>6 DEF Issued
<1>6. ASSUME NEW d \in Device, NEW k \in 0..Len(queue[d]), Die(d, k) PROVE Kept
  BY <1>6, DieLineage
<1>7. ASSUME NEW d \in Device, SignOut(d) \/ ClaimTraps(d) PROVE Kept
  <2>1. Len(queue[d]) \in 0..Len(queue[d])  BY LenProperties DEF TypeOK
  <2> QED  BY <1>6, <1>7, <2>1 DEF SignOut, ClaimTraps
<1>8. ASSUME NEW d \in Device, Kill(d) PROVE Kept
  BY <1>6, <1>8 DEF Kill
<1>9. ASSUME NEW d \in Device, SendWrite(d) PROVE Kept
  <2>1. queue[d] \in Seq(Write) /\ queue[d] # <<>>  BY <1>9 DEF TypeOK, SendWrite
  <2>2. queue' = [queue EXCEPT ![d] = Tail(queue[d])]  BY <1>9 DEF SendWrite
  <2>3. CASE e # d
    BY <2>2, <2>3 DEF TypeOK
  <2>4. CASE e = d
    <3>1. queue'[e] = Tail(queue[d])  BY <2>2, <2>4 DEF TypeOK
    <3>2. /\ Tail(queue[d]) \in Seq(Write)
          /\ Len(Tail(queue[d])) = Len(queue[d]) - 1
          /\ \A j \in 1..Len(Tail(queue[d])) : Tail(queue[d])[j] = queue[d][j + 1]
      BY <2>1, HeadTailProperties
    <3>3. /\ DOMAIN queue[d] = 1..Len(queue[d]) /\ Len(queue[d]) \in Nat
          /\ i \in 1..Len(Tail(queue[d]))
      BY <2>1, <3>1, <3>2, LenProperties
    <3>4. i + 1 \in DOMAIN queue[d]  BY <3>2, <3>3
    <3> QED  BY <2>4, <3>1, <3>2, <3>3, <3>4
  <2> QED  BY <2>3, <2>4
<1>10. ASSUME NEW d \in Device, UserStep(d)
       PROVE  Kept \/ Issued(e, queue'[e][i])
  <2>1. CASE \/ SignIn(d) \/ OpenHome(d) \/ OpenChallenges(d) \/ ChangeSegment(d)
             \/ LeaveLog(d) \/ CloseClaim(d) \/ LeaveReward(d)
    BY <1>1, <2>1 DEF SignIn, OpenHome, OpenChallenges, ChangeSegment, LeaveLog,
         CloseClaim, LeaveReward, net
  <2>2. CASE \/ \E j \in DOMAIN rows[d] : OpenClaim(d, j) \/ OpenLog(d, j)
             \/ \E p \in Price : ChooseReward(d, p)
    BY <1>1, <2>2 DEF OpenClaim, OpenLog, ChooseReward, net
  <2> QED
    BY <1>2, <1>3, <1>4, <1>5, <1>7, <1>10, <2>1, <2>2 DEF UserStep
<1>11. ASSUME NEW d \in Device, NEW j \in DOMAIN fetches[d],
              AnswerFetch(d, j) \/ InstallFetch(d, j)
       PROVE  Kept
  BY <1>1, <1>11 DEF AnswerFetch, InstallFetch, net
<1>12. CASE NextDay \/ UNCHANGED vars
  BY <1>1, <1>12 DEF NextDay, net, vars
<1> QED
  BY <1>8, <1>9, <1>10, <1>11, <1>12 DEF Next, NetworkStep
-----------------------------------------------------------------------------
(* The answers in flight.                                                  *)

LEMMA NewFetchesSnap ==
    ASSUME NEW origins \in Seq(Origin), NEW i \in DOMAIN NewFetches(origins)
    PROVE  NewFetches(origins)[i].snap = NewAccount
BY DEF NewFetches, NewFetch

LEMMA BeginLineage ==
    ASSUME TypeOK, NEW d \in Device, NEW origins \in Seq(Origin), Begin(d, origins),
           NEW e \in Device, NEW i \in DOMAIN fetches'[e]
    PROVE  \/ \E j \in DOMAIN fetches[e] : fetches'[e][i] = fetches[e][j]
           \/ fetches'[e][i].snap = NewAccount
<1> DEFINE old == fetches[d]
           new == NewFetches(origins)
<1>1. old \in Seq(Fetch) /\ new \in Seq(Fetch)  BY NewFetchesType DEF TypeOK
<1>2. fetches' = [fetches EXCEPT ![d] = old \o new]  BY DEF Begin
<1>3. \A j \in DOMAIN new : new[j].snap = NewAccount  BY NewFetchesSnap
<1>4. CASE e = d
  <2>1. fetches'[e] = old \o new  BY <1>2, <1>4 DEF TypeOK
  <2> HIDE DEF old, new
  <2>2. i \in DOMAIN (old \o new)  BY <2>1, Zenon
  <2>3. old \in Seq(Fetch)  BY <1>1
  <2>4. new \in Seq(Fetch)  BY <1>1
  <2>5. \/ \E j \in DOMAIN old : (old \o new)[i] = old[j]
        \/ \E j \in DOMAIN new : (old \o new)[i] = new[j]
    BY <2>2, <2>3, <2>4, ConcatElement, SMTT(30)
  <2> QED  BY <1>3, <1>4, <2>1, <2>5 DEF old
<1>5. CASE e # d
  BY <1>2, <1>5 DEF TypeOK
<1> QED  BY <1>4, <1>5

LEMMA FollowUpsType ==
    ASSUME NEW fetch PROVE FollowUps(fetch) \in Seq(Origin)
<1>1. <<"home">> \in Seq(Origin) /\ <<"view">> \in Seq(Origin) /\ <<>> \in Seq(Origin)
  BY DEF Origin
<1> QED  BY <1>1 DEF FollowUps

LEMMA InstallLineage ==
    ASSUME TypeOK, NEW d \in Device, NEW k \in DOMAIN fetches[d], InstallFetch(d, k),
           NEW e \in Device, NEW i \in DOMAIN fetches'[e]
    PROVE  \/ \E j \in DOMAIN fetches[e] : fetches'[e][i] = fetches[e][j]
           \/ fetches'[e][i].snap = NewAccount
<1> DEFINE all == fetches[d]
           old == RemoveAt(all, k)
           new == NewFetches(FollowUps(fetches[d][k]))
<1>1. all \in Seq(Fetch) /\ k \in 1..Len(all)  BY LenProperties DEF TypeOK
<1>2. FollowUps(fetches[d][k]) \in Seq(Origin)  BY FollowUpsType
<1>3. new \in Seq(Fetch) /\ \A j \in DOMAIN new : new[j].snap = NewAccount
  BY <1>2, NewFetchesType, NewFetchesSnap
<1>4. fetches' = [fetches EXCEPT ![d] = old \o new]  BY DEF InstallFetch
<1>5. CASE e = d
  <2>1. fetches'[e] = old \o new  BY <1>4, <1>5 DEF TypeOK
  <2> HIDE DEF all, new
  <2>2. old \in Seq(Fetch) /\ \A j \in DOMAIN old : \E m \in DOMAIN all : old[j] = all[m]
    BY <1>1, RemoveAtType
  <2> HIDE DEF old
  <2>3. i \in DOMAIN (old \o new)  BY <2>1, Zenon
  <2>4. \/ \E j \in DOMAIN old : (old \o new)[i] = old[j]
        \/ \E j \in DOMAIN new : (old \o new)[i] = new[j]
    BY <1>3, <2>2, <2>3, ConcatElement
  <2> QED  BY <1>3, <1>5, <2>1, <2>2, <2>4 DEF all
<1>6. CASE e # d
  BY <1>4, <1>6 DEF TypeOK
<1> QED  BY <1>5, <1>6

\* An answer in flight is one that was, that of a new fetch, or what the
\* document and the unsent writes make of it now.
LEMMA FetchLineage ==
    ASSUME TypeOK, [Next]_vars, NEW e \in Device, NEW i \in DOMAIN fetches'[e]
    PROVE  \/ \E j \in DOMAIN fetches[e] : fetches'[e][i].snap = fetches[e][j].snap
           \/ fetches'[e][i].snap = NewAccount
           \/ fetches'[e][i].snap = Decoded(Overlay(e))
<1> DEFINE Explained ==
             \/ \E j \in DOMAIN fetches[e] : fetches'[e][i].snap = fetches[e][j].snap
             \/ fetches'[e][i].snap = NewAccount
             \/ fetches'[e][i].snap = Decoded(Overlay(e))
<1>1. CASE UNCHANGED fetches
  BY <1>1
<1>2. /\ <<"login">> \in Seq(Origin) /\ <<"home">> \in Seq(Origin)
      /\ <<"view">> \in Seq(Origin) /\ <<"segment">> \in Seq(Origin)
      /\ <<"home", "view">> \in Seq(Origin)
  BY DEF Origin
<1>3. ASSUME NEW d \in Device, NEW origins \in Seq(Origin), Begin(d, origins)
      PROVE  Explained
  <2>1. \/ \E j \in DOMAIN fetches[e] : fetches'[e][i] = fetches[e][j]
        \/ fetches'[e][i].snap = NewAccount
    BY <1>3, BeginLineage, Zenon
  <2> QED  BY <2>1, Zenon
<1>4. ASSUME NEW d \in Device, NEW k, Die(d, k) PROVE Explained
  <2>1. fetches' = [fetches EXCEPT ![d] = <<>>]  BY <1>4 DEF Die
  <2> QED  BY <2>1 DEF TypeOK
<1>5. ASSUME NEW d \in Device, UserStep(d) PROVE Explained
  <2>1. CASE \/ SignIn(d) \/ OpenHome(d) \/ OpenChallenges(d) \/ ChangeSegment(d)
             \/ \E c \in Challenge : StartChallenge(d, c)
             \/ LeaveLog(d) \/ LogAction(d) \/ Claim(d)
    <3>1. \E origins \in Seq(Origin) : Begin(d, origins)
      BY <1>2, <2>1 DEF SignIn, OpenHome, OpenChallenges, ChangeSegment,
           StartChallenge, LeaveLog, LogAction, Claim
    <3> QED  BY <1>3, <3>1
  <2>2. CASE CloseClaim(d)
    <3>1. Begin(d, <<"view">>) \/ UNCHANGED fetches  BY <2>2 DEF CloseClaim
    <3> QED  BY <1>1, <1>2, <1>3, <3>1
  <2>3. CASE SignOut(d) \/ ClaimTraps(d)
    BY <1>4, <2>3 DEF SignOut, ClaimTraps
  <2>4. CASE \/ \E j \in DOMAIN rows[d] : OpenClaim(d, j) \/ OpenLog(d, j)
             \/ \E p \in Price : ChooseReward(d, p)
             \/ TakeReward(d) \/ LeaveReward(d)
    BY <1>1, <2>4 DEF OpenClaim, OpenLog, ChooseReward, TakeReward, LeaveReward
  <2> QED  BY <1>5, <2>1, <2>2, <2>3, <2>4 DEF UserStep
<1>6. ASSUME NEW d \in Device, NEW k \in DOMAIN fetches[d], InstallFetch(d, k)
      PROVE  Explained
  <2>1. \/ \E j \in DOMAIN fetches[e] : fetches'[e][i] = fetches[e][j]
        \/ fetches'[e][i].snap = NewAccount
    BY <1>6, InstallLineage, Zenon
  <2> QED  BY <2>1, Zenon
<1>7. ASSUME NEW d \in Device, NEW k \in DOMAIN fetches[d], AnswerFetch(d, k)
      PROVE  Explained
  <2> DEFINE answered == [fetches[d][k] EXCEPT !.answered = TRUE,
                                               !.snap = Decoded(Overlay(d))]
  <2>1. fetches' = [fetches EXCEPT ![d] = [fetches[d] EXCEPT ![k] = answered]]
    BY <1>7 DEF AnswerFetch, TypeOK
  <2>2. fetches[d] \in Seq(Fetch) /\ k \in 1..Len(fetches[d])
    BY LenProperties DEF TypeOK
  <2>3. fetches[d][k] \in Fetch  BY <2>2, ElementOfSeq
  <2>4. answered.snap = Decoded(Overlay(d))  BY <2>3 DEF Fetch
  <2> HIDE DEF answered
  <2>5. CASE e = d
    <3>1. fetches'[e] = [fetches[d] EXCEPT ![k] = answered]  BY <2>1, <2>5 DEF TypeOK
    <3>2. i \in DOMAIN fetches[d]  BY <3>1
    <3>3. CASE i = k
      BY <2>4, <2>5, <3>1, <3>2, <3>3
    <3>4. CASE i # k
      BY <2>5, <3>1, <3>2, <3>4
    <3> QED  BY <3>3, <3>4
  <2>6. CASE e # d
    BY <2>1, <2>6 DEF TypeOK
  <2> QED  BY <2>5, <2>6
<1>8. ASSUME NEW d \in Device, SendWrite(d) \/ Kill(d) PROVE Explained
  BY <1>1, <1>4, <1>8 DEF SendWrite, Kill
<1>9. CASE NextDay \/ UNCHANGED vars
  BY <1>1, <1>9 DEF NextDay, vars
<1> QED
  BY <1>5, <1>6, <1>7, <1>8, <1>9 DEF Next, NetworkStep

-----------------------------------------------------------------------------
(* Memory and the rows.                                                    *)

\* Memory of device e and its rows, after the installation of some answer.
InstalledFrom(e, snap) ==
    /\ user'[e].active \in Reorderings(snap.active)
    /\ user'[e].coins = snap.coins
    /\ rows'[e] = rows[e] \/ rows'[e] = user'[e].active

LEMMA InstallMemory ==
    ASSUME TypeOK, NEW d \in Device, NEW k \in DOMAIN fetches[d], InstallFetch(d, k),
           NEW e \in Device
    PROVE  \/ user'[e] = user[e] /\ rows'[e] = rows[e]
           \/ InstalledFrom(d, fetches[d][k].snap) /\ e = d
<1> DEFINE snap == fetches[d][k].snap
<1>1. PICK active \in Reorderings(snap.active), completed \in Reorderings(snap.completed) :
        /\ user' = [user EXCEPT ![d] = [active    |-> active,
                                        completed |-> completed,
                                        coins     |-> snap.coins]]
        /\ rows' = IF RefreshesRows(fetches[d][k])
                   THEN [rows EXCEPT ![d] = active] ELSE rows
  BY DEF InstallFetch
<1> HIDE DEF snap
<1>2. CASE e = d
  <2>1. user'[d].active = active /\ user'[d].coins = snap.coins
    BY <1>1 DEF TypeOK
  <2>2. rows'[d] = rows[d] \/ rows'[d] = active
    BY <1>1 DEF TypeOK
  <2> QED  BY <1>1, <1>2, <2>1, <2>2 DEF InstalledFrom, snap
<1>3. CASE e # d
  BY <1>1, <1>3 DEF TypeOK
<1> QED  BY <1>2, <1>3

\* Memory keeps its value, is emptied, takes over an answer, or is charged for
\* a reward; the rows are copies of memory, present or past.
LEMMA MemoryLineage ==
    ASSUME TypeOK, [Next]_vars, NEW e \in Device
    PROVE  \/ /\ user'[e] = user[e]
              /\ rows'[e] = rows[e] \/ rows'[e] = user[e].active
           \/ /\ user'[e] = NewAccount
              /\ rows'[e] = rows[e] \/ rows'[e] = <<>>
           \/ \E k \in DOMAIN fetches[e] : InstalledFrom(e, fetches[e][k].snap)
           \/ /\ TakeReward(e)
              /\ user'[e] = [user[e] EXCEPT !.coins = user[e].coins - modal[e].coins]
              /\ rows'[e] = rows[e]
<1> DEFINE Same    == user'[e] = user[e] /\ rows'[e] = rows[e]
           Copied  == user'[e] = user[e] /\ rows'[e] = user[e].active
           Emptied == user'[e] = NewAccount /\ (rows'[e] = rows[e] \/ rows'[e] = <<>>)
           Charged == /\ TakeReward(e)
                      /\ user'[e] = [user[e] EXCEPT !.coins = user[e].coins - modal[e].coins]
                      /\ rows'[e] = rows[e]
           Installed == \E k \in DOMAIN fetches[e] : InstalledFrom(e, fetches[e][k].snap)
<1>1. CASE UNCHANGED <<user, rows>>
  BY <1>1
<1>2. ASSUME NEW d \in Device, NEW k, Die(d, k) PROVE Same \/ Emptied
  BY <1>2 DEF Die, TypeOK
<1>3. ASSUME NEW d \in Device, UserStep(d) PROVE Same \/ Copied \/ Emptied \/ Charged
  <2>1. CASE SignIn(d)
    BY <2>1 DEF SignIn, TypeOK
  <2>2. CASE OpenChallenges(d)
    BY <2>2 DEF OpenChallenges, TypeOK
  <2>3. CASE TakeReward(d)
    <3>1. CASE e = d
      <4>1. user'[e] = [user[e] EXCEPT !.coins = user[e].coins - modal[e].coins]
        BY <2>3, <3>1 DEF TakeReward, TypeOK
      <4>2. rows' = rows  BY <2>3 DEF TakeReward
      <4> QED  BY <2>3, <3>1, <4>1, <4>2
    <3>2. CASE e # d
      BY <2>3, <3>2 DEF TakeReward, TypeOK
    <3> QED  BY <3>1, <3>2
  <2>4. CASE SignOut(d) \/ ClaimTraps(d)
    BY <1>2, <2>4 DEF SignOut, ClaimTraps
  <2>5. CASE \/ OpenHome(d) \/ ChangeSegment(d)
             \/ \E c \in Challenge : StartChallenge(d, c)
             \/ \E j \in DOMAIN rows[d] : OpenClaim(d, j) \/ OpenLog(d, j)
             \/ LeaveLog(d) \/ LogAction(d) \/ Claim(d) \/ CloseClaim(d)
             \/ \E p \in Price : ChooseReward(d, p)
             \/ LeaveReward(d)
    BY <1>1, <2>5 DEF OpenHome, ChangeSegment, StartChallenge, OpenClaim, OpenLog,
         LeaveLog, LogAction, Claim, CloseClaim, ChooseReward, LeaveReward
  <2> QED  BY <1>3, <2>1, <2>2, <2>3, <2>4, <2>5 DEF UserStep
<1>4. ASSUME NEW d \in Device, NEW k \in DOMAIN fetches[d], InstallFetch(d, k)
      PROVE  Same \/ Installed
  BY <1>4, InstallMemory
<1>5. ASSUME NEW d \in Device, NEW k \in DOMAIN fetches[d], AnswerFetch(d, k)
      PROVE  Same
  BY <1>1, <1>5 DEF AnswerFetch
<1>6. ASSUME NEW d \in Device, SendWrite(d) \/ Kill(d) PROVE Same \/ Emptied
  BY <1>1, <1>2, <1>6 DEF SendWrite, Kill
<1>7. CASE NextDay \/ UNCHANGED vars
  BY <1>1, <1>7 DEF NextDay, vars
<1>8. Same \/ Copied \/ Emptied \/ Charged \/ Installed
  BY <1>3, <1>4, <1>5, <1>6, <1>7 DEF Next, NetworkStep
<1> QED  BY <1>8

-----------------------------------------------------------------------------
(* What a read returns.                                                    *)

LEMMA SeenLineage ==
    ASSUME TypeOK, NEW d \in Device, NEW f
    PROVE  \/ Seen(d, f) = doc[f]
           \/ \E i \in DOMAIN queue[d] : /\ f \in DOMAIN queue[d][i]
                                        /\ Seen(d, f) = queue[d][i][f]
BY LastUnsentType DEF TypeOK, Seen


-----------------------------------------------------------------------------
(* Where the lists of active challenges of the next state come from.       *)

LEMMA ActiveListsAre ==
    \A list : list \in ActiveLists <=>
        \/ list = doc.active
        \/ \E d \in Device :
             \/ list = user[d].active
             \/ list = rows[d]
             \/ \E i \in DOMAIN fetches[d] : list = fetches[d][i].snap.active
             \/ \E i \in WritesOf(d, "active") : list = queue[d][i].active
<1> SUFFICES ASSUME NEW list
             PROVE  list \in ActiveLists <=>
                \/ list = doc.active
                \/ \E d \in Device :
                     \/ list = user[d].active
                     \/ list = rows[d]
                     \/ \E i \in DOMAIN fetches[d] : list = fetches[d][i].snap.active
                     \/ \E i \in WritesOf(d, "active") : list = queue[d][i].active
  OBVIOUS
<1>1. list \in ActiveLists <=>
        list = doc.active \/ \E d \in Device : list \in ListsOn(d)
  BY Zenon DEF ActiveLists
<1>2. ASSUME NEW d \in Device
      PROVE  list \in ListsOn(d) <=>
               \/ list = user[d].active
               \/ list = rows[d]
               \/ \E i \in DOMAIN fetches[d] : list = fetches[d][i].snap.active
               \/ \E i \in WritesOf(d, "active") : list = queue[d][i].active
  BY DEF ListsOn
<1> QED  BY <1>1, <1>2, Zenon

\* The lists that a step can make of the present ones.
Descends(list) ==
    \/ list = <<>>
    \/ list \in ActiveLists
    \/ \E old \in ActiveLists : list \in Reorderings(old)
    \/ \E d \in Device :
         \/ \E c \in Challenge : StartChallenge(d, c) /\ list = Started(user[d], c)
         \/ list = Logged(user[d], logPage[d])
         \/ list = Remaining(user[d], modal[d].id)

LEMMA WrittenDescends ==
    ASSUME TypeOK, [Next]_vars, NEW e \in Device, NEW i \in WritesOf(e, "active")'
    PROVE  Descends(queue'[e][i].active)
<1>1. i \in DOMAIN queue'[e] /\ "active" \in DOMAIN queue'[e][i]
  BY DEF WritesOf
<1>2. CASE \E j \in DOMAIN queue[e] : queue'[e][i] = queue[e][j]
  <2>1. PICK j \in DOMAIN queue[e] : queue'[e][i] = queue[e][j]  BY <1>2
  <2>2. j \in WritesOf(e, "active")  BY <1>1, <2>1 DEF WritesOf
  <2>3. queue[e][j].active \in ActiveLists  BY <2>2, ActiveListsAre
  <2> QED  BY <2>1, <2>3 DEF Descends
<1>3. CASE Issued(e, queue'[e][i])
  <2>1. \/ \E c \in Challenge : /\ StartChallenge(e, c)
                               /\ queue'[e][i].active = Started(user[e], c)
        \/ queue'[e][i].active = Logged(user[e], logPage[e])
        \/ queue'[e][i].active = Remaining(user[e], modal[e].id)
    <3> DEFINE w == queue'[e][i]
    <3>1. Issued(e, w) /\ "active" \in DOMAIN w  BY <1>1, <1>3
    <3> HIDE DEF w
    <3>2. ASSUME NEW x, w = [completed |-> x] \/ w = [coins |-> x] PROVE FALSE
      BY <3>1, <3>2
    <3>3. ASSUME NEW x, w = [active |-> x] PROVE w.active = x
      BY <3>3
    <3>4. \/ \E c \in Challenge : StartChallenge(e, c) /\ w.active = Started(user[e], c)
          \/ w.active = Logged(user[e], logPage[e])
          \/ w.active = Remaining(user[e], modal[e].id)
      BY <3>1, <3>2, <3>3, Zenon DEF Issued
    <3> QED  BY <3>4 DEF w
  <2> QED  BY <2>1 DEF Descends
<1> QED  BY <1>1, <1>2, <1>3, QueueLineage

LEMMA SeenActive ==
    ASSUME TypeOK, NEW d \in Device
    PROVE  Decoded(Overlay(d)).active \in ActiveLists
<1>1. Overlay(d) \in Account /\ Overlay(d).active = Seen(d, "active")
  BY OverlayType DEF Overlay
<1>2. Decoded(Overlay(d)).active = Seen(d, "active")
  BY <1>1, DecodedType DEF TypeOK
<1>3. \/ Seen(d, "active") = doc.active
      \/ \E i \in WritesOf(d, "active") : Seen(d, "active") = queue[d][i].active
  BY SeenLineage, Zenon DEF WritesOf
<1> QED  BY <1>2, <1>3, ActiveListsAre

LEMMA ActiveDescends ==
    ASSUME TypeOK, [Next]_vars, NEW list \in ActiveLists'
    PROVE  Descends(list)
<1>1. \/ list = doc'.active
      \/ \E e \in Device :
           \/ list = user'[e].active
           \/ list = rows'[e]
           \/ \E i \in DOMAIN fetches'[e] : list = fetches'[e][i].snap.active
           \/ \E i \in WritesOf(e, "active")' : list = queue'[e][i].active
  <2>1. list = doc'.active \/ \E e \in Device : list \in ListsOn(e)'
    BY Zenon DEF ActiveLists
  <2>2. ASSUME NEW e \in Device, list \in ListsOn(e)'
        PROVE  \/ list = user'[e].active
               \/ list = rows'[e]
               \/ \E i \in DOMAIN fetches'[e] : list = fetches'[e][i].snap.active
               \/ \E i \in WritesOf(e, "active")' : list = queue'[e][i].active
    BY <2>2 DEF ListsOn
  <2> QED  BY <2>1, <2>2, Zenon
<1>2. CASE list = doc'.active
  <2>1. CASE doc' = doc
    BY <1>2, <2>1, ActiveListsAre DEF Descends
  <2>2. ASSUME NEW d \in Device, 1 \in DOMAIN queue[d], doc' = Merge(doc, queue[d][1])
        PROVE  list \in ActiveLists
    <3>1. "active" \in DOMAIN doc  BY DEF TypeOK, Account
    <3>2. list = IF "active" \in DOMAIN queue[d][1] THEN queue[d][1].active ELSE doc.active
      BY <1>2, <2>2, <3>1 DEF Merge
    <3> QED  BY <2>2, <3>2, ActiveListsAre DEF WritesOf
  <2> QED  BY <2>1, <2>2, DocLineage DEF Descends
<1>3. ASSUME NEW e \in Device, list = user'[e].active PROVE Descends(list)
  <2>1. NewAccount.active = <<>>  BY DEF NewAccount
  <2>2. ASSUME NEW k \in DOMAIN fetches[e], InstalledFrom(e, fetches[e][k].snap)
        PROVE  Descends(list)
    <3>1. list \in Reorderings(fetches[e][k].snap.active)
      BY <1>3, <2>2 DEF InstalledFrom
    <3> QED  BY <3>1, ActiveListsAre DEF Descends
  <2>3. user[e] \in Account  BY DEF TypeOK
  <2>4. [user[e] EXCEPT !.coins = user[e].coins - modal[e].coins].active = user[e].active
    BY <2>3 DEF Account
  <2>5. user[e].active \in ActiveLists  BY ActiveListsAre
  <2> QED  BY <1>3, <2>1, <2>2, <2>4, <2>5, MemoryLineage DEF Descends
<1>4. ASSUME NEW e \in Device, list = rows'[e] PROVE Descends(list)
  <2>1. user[e].active \in ActiveLists /\ rows[e] \in ActiveLists  BY ActiveListsAre
  <2>2. ASSUME NEW k \in DOMAIN fetches[e], InstalledFrom(e, fetches[e][k].snap)
        PROVE  Descends(list)
    <3>1. \/ list = rows[e]
          \/ list \in Reorderings(fetches[e][k].snap.active)
      BY <1>4, <2>2 DEF InstalledFrom
    <3> QED  BY <2>1, <3>1, ActiveListsAre DEF Descends
  <2> QED  BY <1>4, <2>1, <2>2, MemoryLineage DEF Descends
<1>5. ASSUME NEW e \in Device, NEW i \in DOMAIN fetches'[e],
             list = fetches'[e][i].snap.active
      PROVE  Descends(list)
  <2>1. \A j \in DOMAIN fetches[e] : fetches[e][j].snap.active \in ActiveLists
    BY ActiveListsAre
  <2>2. NewAccount.active = <<>>  BY DEF NewAccount
  <2> QED  BY <1>5, <2>1, <2>2, SeenActive, FetchLineage DEF Descends
<1>6. ASSUME NEW e \in Device, NEW i \in WritesOf(e, "active")', list = queue'[e][i].active
      PROVE  Descends(list)
  BY <1>6, WrittenDescends
<1> QED  BY <1>1, <1>2, <1>3, <1>4, <1>5, <1>6
-----------------------------------------------------------------------------
(* The limit of two active challenges.                                     *)

LEMMA ActiveListType ==
    ASSUME TypeOK, NEW list \in ActiveLists
    PROVE  list \in Seq(Entry)
<1>1. \A d \in Device : user[d].active \in Seq(Entry) /\ rows[d] \in Seq(Entry)
  BY DEF TypeOK, Account
<1>2. doc.active \in Seq(Entry)  BY DEF TypeOK, Account
<1>3. ASSUME NEW d \in Device, NEW i \in DOMAIN fetches[d]
      PROVE  fetches[d][i].snap.active \in Seq(Entry)
  <2>1. fetches[d][i] \in Fetch  BY ElementOfSeq, LenProperties DEF TypeOK
  <2> QED  BY <2>1 DEF Fetch, Account
<1>4. ASSUME NEW d \in Device, NEW i \in WritesOf(d, "active")
      PROVE  queue[d][i].active \in Seq(Entry)
  <2>1. queue[d][i] \in Write /\ "active" \in DOMAIN queue[d][i]
    BY ElementOfSeq, LenProperties DEF TypeOK, WritesOf
  <2> QED  BY <2>1 DEF Write
<1> QED  BY <1>1, <1>2, <1>3, <1>4, ActiveListsAre

LEMMA LimitInit == Init => AtMostTwoActive
<1> SUFFICES ASSUME Init, NEW list \in ActiveLists PROVE Len(list) <= MaxActive
  BY DEF AtMostTwoActive
<1>1. list = <<>>
  <2>1. doc.active = <<>> /\ \A d \in Device : user[d].active = <<>> /\ rows[d] = <<>>
    BY DEF Init, NewAccount
  <2>2. \A d \in Device : DOMAIN fetches[d] = {} /\ WritesOf(d, "active") = {}
    BY DEF Init, WritesOf
  <2> QED  BY <2>1, <2>2, ActiveListsAre
<1>2. Len(<<>>) = 0  BY EmptySeq
<1> QED  BY <1>1, <1>2, LimitAssumption

LEMMA LimitStep == TypeOK /\ AtMostTwoActive /\ [Next]_vars => AtMostTwoActive'
<1> SUFFICES ASSUME TypeOK, AtMostTwoActive, [Next]_vars, NEW list \in ActiveLists'
             PROVE  Len(list) <= MaxActive
  BY DEF AtMostTwoActive
<1>1. \A old \in ActiveLists :
        old \in Seq(Entry) /\ Len(old) \in Nat /\ Len(old) <= MaxActive
  BY ActiveListType, LenProperties DEF AtMostTwoActive
<1>2. \A d \in Device : user[d] \in Account /\ user[d].active \in ActiveLists
  BY ActiveListsAre DEF TypeOK
<1>3. today \in Nat  BY DEF TypeOK
<1>4. CASE list = <<>>
  BY <1>4, EmptySeq, LimitAssumption
<1>5. CASE list \in ActiveLists
  BY <1>1, <1>5
<1>6. ASSUME NEW old \in ActiveLists, list \in Reorderings(old)
      PROVE  Len(list) <= MaxActive
  <2>1. Len(list) = Len(old)  BY <1>1, <1>6, ReorderingType
  <2> QED  BY <1>1, <2>1
<1>7. ASSUME NEW d \in Device, NEW c \in Challenge, StartChallenge(d, c),
             list = Started(user[d], c)
      PROVE  Len(list) <= MaxActive
  <2>1. Len(list) = Len(user[d].active) + 1  BY <1>2, <1>3, <1>7, StartedType
  <2>2. Len(user[d].active) # MaxActive  BY <1>7 DEF StartChallenge
  <2> QED  BY <1>1, <1>2, <2>1, <2>2, LimitAssumption
<1>8. ASSUME NEW d \in Device, list = Logged(user[d], logPage[d])
      PROVE  Len(list) <= MaxActive
  <2>1. Len(list) = Len(user[d].active)  BY <1>2, <1>3, <1>8, LoggedType
  <2> QED  BY <1>1, <1>2, <2>1
<1>9. ASSUME NEW d \in Device, list = Remaining(user[d], modal[d].id)
      PROVE  Len(list) <= MaxActive
  <2>1. list \in Seq(Entry) /\ Len(list) <= Len(user[d].active)
    BY <1>2, <1>9, RemainingType
  <2>2. Len(list) \in Nat  BY <2>1, LenProperties
  <2> QED  BY <1>1, <1>2, <2>1, <2>2, LimitAssumption
<1> QED
  BY <1>4, <1>5, <1>6, <1>7, <1>8, <1>9, ActiveDescends DEF Descends

\* The limit tested by checkIfChallengesIsTwo holds in every copy of the
\* account, however many devices write lists of their own over each other's:
\* no list is longer than the one it was made of, except a start's.
THEOREM LimitHolds == Spec => []AtMostTwoActive
<1>1. Init => AtMostTwoActive  BY LimitInit
<1>2. TypeOK /\ AtMostTwoActive /\ [Next]_vars => AtMostTwoActive'  BY LimitStep
<1> QED  BY <1>1, <1>2, TypeCorrect, PTL DEF Spec

-----------------------------------------------------------------------------
(* The order of the logs.                                                  *)

\* One entry, seen on day now.
EntryInOrder(e, now) ==
    /\ e.start <= now
    /\ \A i, j \in DOMAIN e.days : i <= j => e.days[i] <= e.days[j]
    /\ \A i \in DOMAIN e.days : e.start <= e.days[i] /\ e.days[i] <= now

LEMMA OrderIs ==
    LogsInOrder <=> \A list \in ActiveLists : \A k \in DOMAIN list :
                       EntryInOrder(list[k], today)
BY Zenon DEF LogsInOrder, EntryInOrder

LEMMA OrderLasts ==
    ASSUME NEW e \in Entry, NEW n \in Nat, NEW m \in Nat, n <= m, EntryInOrder(e, n)
    PROVE  EntryInOrder(e, m)
<1>1. e.start \in Nat /\ \A i \in DOMAIN e.days : e.days[i] \in Nat
  BY ElementOfSeq, LenProperties DEF Entry
<1> QED  BY <1>1 DEF EntryInOrder

LEMMA OrderOfLogged ==
    ASSUME NEW e \in Entry, NEW n \in Nat, EntryInOrder(e, n)
    PROVE  EntryInOrder([e EXCEPT !.days = Append(e.days, n)], n)
<1> DEFINE days == e.days
           new  == Append(days, n)
<1>1. days \in Seq(Nat) /\ Len(days) \in Nat /\ DOMAIN days = 1..Len(days)
  BY LenProperties DEF Entry
<1>2. /\ new \in Seq(Nat) /\ Len(new) = Len(days) + 1
      /\ \A i \in 1..Len(days) : new[i] = days[i]
      /\ new[Len(days) + 1] = n
  BY <1>1, AppendProperties
<1>3. DOMAIN new = 1..(Len(days) + 1)  BY <1>2, LenProperties
<1>4. e.start \in Nat /\ \A i \in 1..Len(days) : days[i] \in Nat
  BY <1>1, ElementOfSeq DEF Entry
<1>5. /\ e.start <= n
      /\ \A i, j \in 1..Len(days) : i <= j => days[i] <= days[j]
      /\ \A i \in 1..Len(days) : e.start <= days[i] /\ days[i] <= n
  BY <1>1 DEF EntryInOrder
<1>6. [e EXCEPT !.days = new].start = e.start /\ [e EXCEPT !.days = new].days = new
  BY DEF Entry
<1> HIDE DEF days, new
<1>7. ASSUME NEW i \in DOMAIN new, NEW j \in DOMAIN new, i <= j
      PROVE  new[i] <= new[j]
  <2>1. CASE j \in 1..Len(days)
    <3>1. i \in 1..Len(days)  BY <1>1, <1>3, <1>7, <2>1
    <3> QED  BY <1>2, <1>5, <1>7, <2>1, <3>1
  <2>2. CASE j = Len(days) + 1 /\ i \in 1..Len(days)
    BY <1>2, <1>5, <2>2
  <2>3. CASE j = Len(days) + 1 /\ i = Len(days) + 1
    BY <1>2, <2>3
  <2> QED  BY <1>1, <1>3, <1>7, <2>1, <2>2, <2>3
<1>8. ASSUME NEW i \in DOMAIN new PROVE e.start <= new[i] /\ new[i] <= n
  BY <1>1, <1>2, <1>3, <1>4, <1>5, <1>8
<1>9. EntryInOrder([e EXCEPT !.days = new], n)
  BY <1>5, <1>6, <1>7, <1>8 DEF EntryInOrder
<1> QED  BY <1>9 DEF new, days

LEMMA TodayGrows ==
    ASSUME TypeOK, [Next]_vars PROVE today' \in Nat /\ today <= today'
<1>1. today \in Nat  BY DEF TypeOK
<1>2. ASSUME NEW d \in Device, UserStep(d) PROVE today' = today
  BY <1>2 DEF UserStep, SignIn, SignOut, OpenHome, OpenChallenges, ChangeSegment,
       StartChallenge, OpenClaim, OpenLog, LeaveLog, LogAction, Claim, ClaimTraps,
       CloseClaim, ChooseReward, TakeReward, LeaveReward
<1>3. ASSUME NEW d \in Device, NEW k \in DOMAIN fetches[d],
             AnswerFetch(d, k) \/ InstallFetch(d, k)
      PROVE  today' = today
  BY <1>3 DEF AnswerFetch, InstallFetch
<1>4. ASSUME NEW d \in Device, SendWrite(d) \/ Kill(d) PROVE today' = today
  BY <1>4 DEF SendWrite, Kill
<1>5. ASSUME UNCHANGED vars PROVE today' = today
  BY <1>5 DEF vars
<1>6. ASSUME NextDay PROVE today' = today + 1
  BY <1>6 DEF NextDay
<1>7. today' = today \/ today' = today + 1
  BY <1>2, <1>3, <1>4, <1>5, <1>6 DEF Next, NetworkStep
<1> QED  BY <1>1, <1>7

LEMMA OrderInit == Init => LogsInOrder
<1> SUFFICES ASSUME Init, NEW list \in ActiveLists PROVE DOMAIN list = {}
  BY DEF LogsInOrder
<1>1. doc.active = <<>> /\ \A d \in Device : user[d].active = <<>> /\ rows[d] = <<>>
  BY DEF Init, NewAccount
<1>2. \A d \in Device : DOMAIN fetches[d] = {} /\ WritesOf(d, "active") = {}
  BY DEF Init, WritesOf
<1> QED  BY <1>1, <1>2, ActiveListsAre

LEMMA OrderStep == TypeOK /\ LogsInOrder /\ [Next]_vars => LogsInOrder'
<1> SUFFICES ASSUME TypeOK, LogsInOrder, [Next]_vars,
                    NEW list \in ActiveLists', NEW k \in DOMAIN list
             PROVE  EntryInOrder(list[k], today')
  BY Zenon DEF LogsInOrder, EntryInOrder
<1>1. today \in Nat /\ today' \in Nat /\ today <= today'
  BY TodayGrows DEF TypeOK
<1>2. ASSUME NEW old \in ActiveLists, NEW j \in DOMAIN old
      PROVE  /\ old[j] \in Entry
             /\ EntryInOrder(old[j], today)
             /\ EntryInOrder(old[j], today')
  <2>1. old[j] \in Entry  BY ActiveListType, ElementOfSeq, LenProperties
  <2>2. EntryInOrder(old[j], today)  BY OrderIs
  <2> QED  BY <1>1, <2>1, <2>2, OrderLasts
<1>3. \A d \in Device : user[d] \in Account /\ user[d].active \in ActiveLists
                        /\ user[d].active \in Seq(Entry)
  BY ActiveListsAre DEF TypeOK, Account
<1>4. CASE list = <<>>
  BY <1>4
<1>5. CASE list \in ActiveLists
  BY <1>2, <1>5
<1>6. ASSUME NEW old \in ActiveLists, list \in Reorderings(old)
      PROVE  EntryInOrder(list[k], today')
  <2>1. \E j \in DOMAIN old : list[k] = old[j]
    BY <1>6, ActiveListType, ReorderingType
  <2> QED  BY <1>2, <2>1
<1>7. ASSUME NEW d \in Device, NEW c \in Challenge, list = Started(user[d], c)
      PROVE  EntryInOrder(list[k], today')
  <2> DEFINE old == user[d].active
             new == [id |-> c, start |-> today, days |-> <<>>]
  <2>1. old \in Seq(Entry) /\ new \in Entry /\ list = Append(old, new)
    <3>1. new \in Entry  BY <1>1 DEF Entry
    <3>2. list = Append(old, new)  BY <1>7 DEF Started
    <3>3. old \in Seq(Entry)  BY <1>3
    <3> QED  BY <3>1, <3>2, <3>3
  <2>2. Len(old) \in Nat /\ DOMAIN old = 1..Len(old)  BY <2>1, LenProperties
  <2>3. EntryInOrder(new, today')  BY <1>1 DEF EntryInOrder
  <2>4. old \in ActiveLists  BY <1>3
  <2> HIDE DEF old, new
  <2>5. /\ list \in Seq(Entry) /\ Len(list) = Len(old) + 1
        /\ \A j \in 1..Len(old) : list[j] = old[j]
        /\ list[Len(old) + 1] = new
    BY <2>1, AppendProperties
  <2>6. k \in 1..(Len(old) + 1)  BY <2>5, LenProperties
  <2>7. CASE k \in 1..Len(old)
    BY <1>2, <2>2, <2>4, <2>5, <2>7
  <2>8. CASE k = Len(old) + 1
    BY <2>3, <2>5, <2>8
  <2> QED  BY <2>2, <2>6, <2>7, <2>8
<1>8. ASSUME NEW d \in Device, list = Logged(user[d], logPage[d])
      PROVE  EntryInOrder(list[k], today')
  <2> DEFINE old == user[d].active
  <2>1. /\ list \in Seq(Entry) /\ Len(list) = Len(old)
        /\ \A j \in 1..Len(old) :
             list[j] = IF old[j].id = logPage[d]
                       THEN [old[j] EXCEPT !.days = Append(@, today)] ELSE old[j]
    <3>1. list \in Seq(Entry) /\ Len(list) = Len(old)
      BY <1>1, <1>3, <1>8, LoggedType
    <3>2. DOMAIN old = 1..Len(old)  BY <1>3, LenProperties
    <3> QED  BY <1>8, <3>1, <3>2 DEF Logged
  <2>2. k \in 1..Len(old) /\ k \in DOMAIN old  BY <1>3, <2>1, LenProperties
  <2>3. /\ old[k] \in Entry /\ EntryInOrder(old[k], today)
        /\ EntryInOrder(old[k], today')
    BY <1>2, <1>3, <2>2
  <2>4. CASE old[k].id # logPage[d]
    BY <2>1, <2>2, <2>3, <2>4
  <2>5. CASE old[k].id = logPage[d]
    <3> DEFINE e == [old[k] EXCEPT !.days = Append(old[k].days, today)]
    <3>1. list[k] = e  BY <2>1, <2>2, <2>5
    <3>2. e \in Entry
      <4>1. Append(old[k].days, today) \in Seq(Nat)
        BY <1>1, <2>3, AppendProperties DEF Entry
      <4> QED  BY <2>3, <4>1 DEF Entry
    <3>3. EntryInOrder(e, today)  BY <1>1, <2>3, OrderOfLogged
    <3> HIDE DEF e
    <3>4. EntryInOrder(e, today')  BY <1>1, <3>2, <3>3, OrderLasts
    <3> QED  BY <3>1, <3>4
  <2> QED  BY <2>4, <2>5
<1>9. ASSUME NEW d \in Device, list = Remaining(user[d], modal[d].id)
      PROVE  EntryInOrder(list[k], today')
  <2>1. \E j \in DOMAIN user[d].active : list[k] = user[d].active[j]
    BY <1>3, <1>9, RemainingType
  <2> QED  BY <1>2, <1>3, <2>1
<1> QED
  BY <1>4, <1>5, <1>6, <1>7, <1>8, <1>9, ActiveDescends DEF Descends

\* Whatever copies overwrite each other, the last element of daysCompleted,
\* which didSelectRowAt takes for the latest log, is the latest one.
THEOREM OrderHolds == Spec => []LogsInOrder
<1>1. Init => LogsInOrder  BY OrderInit
<1>2. TypeOK /\ LogsInOrder /\ [Next]_vars => LogsInOrder'  BY OrderStep
<1> QED  BY <1>1, <1>2, TypeCorrect, PTL DEF Spec

-----------------------------------------------------------------------------
(* The balance.                                                            *)

LEMMA BalancesAre ==
    \A c : c \in Balances <=>
        \/ c = doc.coins
        \/ \E d \in Device :
             \/ c = user[d].coins
             \/ \E i \in DOMAIN fetches[d] : c = fetches[d][i].snap.coins
             \/ \E i \in WritesOf(d, "coins") : c = queue[d][i].coins
<1> SUFFICES ASSUME NEW c
             PROVE  c \in Balances <=>
                \/ c = doc.coins
                \/ \E d \in Device :
                     \/ c = user[d].coins
                     \/ \E i \in DOMAIN fetches[d] : c = fetches[d][i].snap.coins
                     \/ \E i \in WritesOf(d, "coins") : c = queue[d][i].coins
  OBVIOUS
<1>1. c \in Balances <=> c = doc.coins \/ \E d \in Device : c \in BalancesOn(d)
  BY Zenon DEF Balances
<1>2. ASSUME NEW d \in Device
      PROVE  c \in BalancesOn(d) <=>
               \/ c = user[d].coins
               \/ \E i \in DOMAIN fetches[d] : c = fetches[d][i].snap.coins
               \/ \E i \in WritesOf(d, "coins") : c = queue[d][i].coins
  BY DEF BalancesOn
<1> QED  BY <1>1, <1>2, Zenon

\* The balances that a step can make of the present ones.
BalanceDescends(c) ==
    \/ c = 0
    \/ c \in Balances
    \/ \E d \in Device : \/ Claim(d) /\ c = user[d].coins + modal[d].coins
                         \/ TakeReward(d) /\ c = user[d].coins - modal[d].coins

LEMMA WrittenBalance ==
    ASSUME TypeOK, [Next]_vars, NEW e \in Device, NEW i \in WritesOf(e, "coins")'
    PROVE  BalanceDescends(queue'[e][i].coins)
<1>1. i \in DOMAIN queue'[e] /\ "coins" \in DOMAIN queue'[e][i]
  BY DEF WritesOf
<1>2. CASE \E j \in DOMAIN queue[e] : queue'[e][i] = queue[e][j]
  <2>1. PICK j \in DOMAIN queue[e] : queue'[e][i] = queue[e][j]  BY <1>2
  <2>2. j \in WritesOf(e, "coins")  BY <1>1, <2>1 DEF WritesOf
  <2>3. queue[e][j].coins \in Balances  BY <2>2, BalancesAre
  <2> QED  BY <2>1, <2>3 DEF BalanceDescends
<1>3. CASE Issued(e, queue'[e][i])
  <2> DEFINE w == queue'[e][i]
  <2>1. Issued(e, w) /\ "coins" \in DOMAIN w  BY <1>1, <1>3
  <2> HIDE DEF w
  <2>2. ASSUME NEW x, w = [completed |-> x] \/ w = [active |-> x] PROVE FALSE
    BY <2>1, <2>2
  <2>3. ASSUME NEW x, w = [coins |-> x] PROVE w.coins = x
    BY <2>3
  <2>4. \/ Claim(e) /\ w.coins = user[e].coins + modal[e].coins
        \/ TakeReward(e) /\ w.coins = user[e].coins - modal[e].coins
    BY <2>1, <2>2, <2>3, Zenon DEF Issued
  <2>5. queue'[e][i].coins = w.coins  BY DEF w
  <2> HIDE DEF w
  <2>6. BalanceDescends(w.coins)  BY <2>4 DEF BalanceDescends
  <2> QED  BY <2>5, <2>6, Zenon
<1> QED  BY <1>1, <1>2, <1>3, QueueLineage

LEMMA SeenCoins ==
    ASSUME TypeOK, NEW d \in Device
    PROVE  Decoded(Overlay(d)).coins \in Balances
<1>1. Overlay(d) \in Account /\ Overlay(d).coins = Seen(d, "coins")
  BY OverlayType DEF Overlay
<1>2. Decoded(Overlay(d)).coins = Seen(d, "coins")
  BY <1>1, DecodedType DEF TypeOK
<1>3. \/ Seen(d, "coins") = doc.coins
      \/ \E i \in WritesOf(d, "coins") : Seen(d, "coins") = queue[d][i].coins
  BY SeenLineage, Zenon DEF WritesOf
<1> QED  BY <1>2, <1>3, BalancesAre

LEMMA CoinsDescend ==
    ASSUME TypeOK, [Next]_vars, NEW c \in Balances'
    PROVE  BalanceDescends(c)
<1>1. \/ c = doc'.coins
      \/ \E e \in Device :
           \/ c = user'[e].coins
           \/ \E i \in DOMAIN fetches'[e] : c = fetches'[e][i].snap.coins
           \/ \E i \in WritesOf(e, "coins")' : c = queue'[e][i].coins
  <2>1. c = doc'.coins \/ \E e \in Device : c \in BalancesOn(e)'
    BY Zenon DEF Balances
  <2>2. ASSUME NEW e \in Device, c \in BalancesOn(e)'
        PROVE  \/ c = user'[e].coins
               \/ \E i \in DOMAIN fetches'[e] : c = fetches'[e][i].snap.coins
               \/ \E i \in WritesOf(e, "coins")' : c = queue'[e][i].coins
    BY <2>2 DEF BalancesOn
  <2> QED  BY <2>1, <2>2, Zenon
<1>2. CASE c = doc'.coins
  <2>1. CASE doc' = doc
    BY <1>2, <2>1, BalancesAre DEF BalanceDescends
  <2>2. ASSUME NEW d \in Device, 1 \in DOMAIN queue[d], doc' = Merge(doc, queue[d][1])
        PROVE  c \in Balances
    <3>1. "coins" \in DOMAIN doc  BY DEF TypeOK, Account
    <3>2. c = IF "coins" \in DOMAIN queue[d][1] THEN queue[d][1].coins ELSE doc.coins
      BY <1>2, <2>2, <3>1 DEF Merge
    <3> QED  BY <2>2, <3>2, BalancesAre DEF WritesOf
  <2> QED  BY <2>1, <2>2, DocLineage DEF BalanceDescends
<1>3. ASSUME NEW e \in Device, c = user'[e].coins PROVE BalanceDescends(c)
  <2>1. NewAccount.coins = 0  BY DEF NewAccount
  <2>2. ASSUME NEW k \in DOMAIN fetches[e], InstalledFrom(e, fetches[e][k].snap)
        PROVE  c \in Balances
    <3>1. c = fetches[e][k].snap.coins  BY <1>3, <2>2 DEF InstalledFrom
    <3> QED  BY <3>1, BalancesAre
  <2>3. user[e] \in Account  BY DEF TypeOK
  <2>4. [user[e] EXCEPT !.coins = user[e].coins - modal[e].coins].coins
          = user[e].coins - modal[e].coins
    BY <2>3 DEF Account
  <2>5. user[e].coins \in Balances  BY BalancesAre
  <2> QED  BY <1>3, <2>1, <2>2, <2>4, <2>5, MemoryLineage DEF BalanceDescends
<1>4. ASSUME NEW e \in Device, NEW i \in DOMAIN fetches'[e], c = fetches'[e][i].snap.coins
      PROVE  BalanceDescends(c)
  <2>1. \A j \in DOMAIN fetches[e] : fetches[e][j].snap.coins \in Balances
    BY BalancesAre
  <2>2. NewAccount.coins = 0  BY DEF NewAccount
  <2> QED  BY <1>4, <2>1, <2>2, SeenCoins, FetchLineage DEF BalanceDescends
<1>5. ASSUME NEW e \in Device, NEW i \in WritesOf(e, "coins")', c = queue'[e][i].coins
      PROVE  BalanceDescends(c)
  BY <1>5, WrittenBalance
<1> QED  BY <1>1, <1>2, <1>3, <1>4, <1>5

LEMMA BalanceType ==
    ASSUME TypeOK, NEW c \in Balances PROVE c \in Int
<1>1. doc.coins \in Int /\ \A d \in Device : user[d].coins \in Int
  BY DEF TypeOK, Account
<1>2. ASSUME NEW d \in Device, NEW i \in DOMAIN fetches[d]
      PROVE  fetches[d][i].snap.coins \in Int
  <2>1. fetches[d][i] \in Fetch  BY ElementOfSeq, LenProperties DEF TypeOK
  <2> QED  BY <2>1 DEF Fetch, Account
<1>3. ASSUME NEW d \in Device, NEW i \in WritesOf(d, "coins")
      PROVE  queue[d][i].coins \in Int
  <2>1. queue[d][i] \in Write /\ "coins" \in DOMAIN queue[d][i]
    BY ElementOfSeq, LenProperties DEF TypeOK, WritesOf
  <2> QED  BY <2>1 DEF Write
<1> QED  BY <1>1, <1>2, <1>3, BalancesAre

\* The histories of credits and prices only grow, each by what a claim or a
\* reward writes.
LEMMA LedgerGrows ==
    ASSUME TypeOK, [Next]_vars
    PROVE  /\ earned' \in Nat /\ spent' \in Nat
           /\ earned <= earned' /\ spent <= spent'
           /\ \A d \in Device : Claim(d) => earned' = earned + modal[d].coins
           /\ \A d \in Device : TakeReward(d) => spent' = spent + modal[d].coins
<1>1. earned \in Nat /\ spent \in Nat  BY DEF TypeOK
<1>2. TypeOK'  BY TypeStep
<1>3. earned' \in Nat /\ spent' \in Nat  BY <1>2 DEF TypeOK
<1>4. \A d \in Device : modal[d] \in Modal /\ modal[d].coins \in Nat
  BY DEF TypeOK, Modal
<1>5. ASSUME NEW d \in Device, Claim(d)
      PROVE  earned' = earned + modal[d].coins /\ spent' = spent
  BY <1>5 DEF Claim
<1>6. ASSUME NEW d \in Device, TakeReward(d)
      PROVE  spent' = spent + modal[d].coins /\ earned' = earned
  BY <1>6 DEF TakeReward
<1>7. ASSUME NEW d \in Device, UserStep(d), ~Claim(d), ~TakeReward(d)
      PROVE  UNCHANGED <<earned, spent>>
  BY <1>7 DEF UserStep, SignIn, SignOut, OpenHome, OpenChallenges, ChangeSegment,
       StartChallenge, OpenClaim, OpenLog, LeaveLog, LogAction, ClaimTraps,
       CloseClaim, ChooseReward, LeaveReward, ledger
<1>8. ASSUME NEW d \in Device, NEW k \in DOMAIN fetches[d],
             AnswerFetch(d, k) \/ InstallFetch(d, k)
      PROVE  UNCHANGED <<earned, spent>>
  BY <1>8 DEF AnswerFetch, InstallFetch, ledger
<1>9. ASSUME NEW d \in Device, SendWrite(d) \/ Kill(d)
      PROVE  UNCHANGED <<earned, spent>>
  BY <1>9 DEF SendWrite, Kill, ledger
<1>10. ASSUME NextDay \/ UNCHANGED vars PROVE UNCHANGED <<earned, spent>>
  BY <1>10 DEF NextDay, vars, ledger
<1>11. \/ \E d \in Device : Claim(d) \/ TakeReward(d)
       \/ UNCHANGED <<earned, spent>>
  BY <1>7, <1>8, <1>9, <1>10 DEF Next, NetworkStep
<1>12. earned <= earned' /\ spent <= spent'
  <2>1. ASSUME NEW d \in Device, Claim(d) \/ TakeReward(d)
        PROVE  earned <= earned' /\ spent <= spent'
    BY <1>1, <1>4, <1>5, <1>6, <2>1
  <2>2. ASSUME UNCHANGED <<earned, spent>> PROVE earned <= earned' /\ spent <= spent'
    BY <1>1, <2>2
  <2> QED  BY <1>11, <2>1, <2>2
<1> QED  BY <1>3, <1>5, <1>6, <1>12

LEMMA BalanceInit == Init => BalancesExplained
<1> SUFFICES ASSUME Init, NEW c \in Balances PROVE 0 <= c + spent /\ c <= earned
  BY DEF BalancesExplained
<1>1. doc.coins = 0 /\ \A d \in Device : user[d].coins = 0
  BY DEF Init, NewAccount
<1>2. \A d \in Device : DOMAIN fetches[d] = {} /\ WritesOf(d, "coins") = {}
  BY DEF Init, WritesOf
<1>3. c = 0  BY <1>1, <1>2, BalancesAre
<1>4. spent = 0 /\ earned = 0  BY DEF Init
<1> QED  BY <1>3, <1>4

LEMMA BalanceStep == TypeOK /\ BalancesExplained /\ [Next]_vars => BalancesExplained'
<1> SUFFICES ASSUME TypeOK, BalancesExplained, [Next]_vars, NEW c \in Balances'
             PROVE  0 <= c + spent' /\ c <= earned'
  BY DEF BalancesExplained
<1> DEFINE credit == earned'
           debit  == spent'
<1>1. earned \in Nat /\ spent \in Nat  BY DEF TypeOK
<1>2. /\ credit \in Nat /\ debit \in Nat
      /\ earned <= credit /\ spent <= debit
      /\ \A d \in Device : Claim(d) => credit = earned + modal[d].coins
      /\ \A d \in Device : TakeReward(d) => debit = spent + modal[d].coins
  BY LedgerGrows
<1>3. \A b \in Balances : b \in Int /\ 0 <= b + spent /\ b <= earned
  BY BalanceType DEF BalancesExplained
<1>4. \A d \in Device : user[d].coins \in Balances /\ modal[d].coins \in Nat
  BY BalancesAre DEF TypeOK, Modal
<1>5. 0 <= c + debit /\ c <= credit
  <2> HIDE DEF credit, debit
  <2>1. CASE c = 0
    BY <1>2, <2>1
  <2>2. CASE c \in Balances
    BY <1>1, <1>2, <1>3, <2>2
  <2>3. ASSUME NEW d \in Device, Claim(d), c = user[d].coins + modal[d].coins
        PROVE  0 <= c + debit /\ c <= credit
    <3>1. credit = earned + modal[d].coins  BY <1>2, <2>3
    <3> QED  BY <1>1, <1>2, <1>3, <1>4, <2>3, <3>1
  <2>4. ASSUME NEW d \in Device, TakeReward(d), c = user[d].coins - modal[d].coins
        PROVE  0 <= c + debit /\ c <= credit
    <3>1. debit = spent + modal[d].coins  BY <1>2, <2>4
    <3> QED  BY <1>1, <1>2, <1>3, <1>4, <2>4, <3>1
  <2> QED  BY <2>1, <2>2, <2>3, <2>4, CoinsDescend DEF BalanceDescends
<1> QED  BY <1>5

\* Whatever writes of closeActiveChallenge and updateSP are lost, delayed or
\* overwritten by stale ones: no copy of the balance exceeds the points the
\* claim sheets credited, or is below what the rewards taken explain.
THEOREM BalanceHolds == Spec => []BalancesExplained
<1>1. Init => BalancesExplained  BY BalanceInit
<1>2. TypeOK /\ BalancesExplained /\ [Next]_vars => BalancesExplained'  BY BalanceStep
<1> QED  BY <1>1, <1>2, TypeCorrect, PTL DEF Spec
=============================================================================
