---------------------------- MODULE LedgerProofs ----------------------------
(***************************************************************************)
(* A patient user's account implements ChallengeLedger, for all values of  *)
(* the constants: what a tap writes is exactly one operation of the        *)
(* ledger, because memory, rows and open sheets are current (PatientInv),  *)
(* and what happens between the taps is none.                              *)
(***************************************************************************)
EXTENDS PatientProofs

-----------------------------------------------------------------------------
(* The account whatever its queues: Current.                               *)

\* The account is what the device with unsent writes reads, or any other.
LEMMA CurrentIs ==
    ASSUME NEW d \in Device
    PROVE  /\ TypeOK /\ (\A e \in Device \ {d} : queue[e] = <<>>) => Current = Overlay(d)
           /\ TypeOK' /\ (\A e \in Device \ {d} : queue'[e] = <<>>) => Current' = Overlay(d)'
<1>1. ASSUME TypeOK, \A e \in Device \ {d} : queue[e] = <<>> PROVE Current = Overlay(d)
  <2>1. CASE queue[d] = <<>>
    <3>1. Overlay(d) = doc  BY <1>1, <2>1, SettledOverlay
    <3> QED  BY <1>1, <2>1, <3>1 DEF Current
  <2>2. CASE queue[d] # <<>>
    <3>1. (CHOOSE e \in Device : queue[e] # <<>>) = d  BY <1>1, <2>2
    <3> QED  BY <2>2, <3>1 DEF Current
  <2> QED  BY <2>1, <2>2
<1>2. ASSUME TypeOK', \A e \in Device \ {d} : queue'[e] = <<>>
      PROVE  Current' = Overlay(d)'
  <2>1. CASE queue'[d] = <<>>
    <3>1. doc' \in Account  BY <1>2 DEF TypeOK
    <3>2. Overlay(d)' = doc'  BY <2>1, <3>1, OverlayIs, UnderEmpty
    <3> QED  BY <1>2, <2>1, <3>2 DEF Current
  <2>2. CASE queue'[d] # <<>>
    <3>1. (CHOOSE e \in Device : queue'[e] # <<>>) = d  BY <1>2, <2>2
    <3> QED  BY <2>2, <3>1 DEF Current
  <2> QED  BY <2>1, <2>2
<1> QED  BY <1>1, <1>2

LEMMA CurrentKept ==
    ASSUME queue' = queue, doc' = doc
    PROVE  Current' = Current
<1>1. ASSUME NEW d PROVE Overlay(d)' = Overlay(d)
  BY DEF Overlay, Seen, LastUnsent, WritesOf
<1> QED  BY <1>1 DEF Current

\* A step that leaves the account and the day alone is no step of the ledger.
LEMMA LedgerStutters ==
    ASSUME Current' = Current, today' = today
    PROVE  UNCHANGED Ledger!ledgerVars
<1>1. PaidBag(Current)' = PaidBag(Current')  BY DEF PaidBag
<1> QED  BY <1>1 DEF Ledger!ledgerVars

LEMMA DayStep ==
    ASSUME NextDay
    PROVE  Ledger!Tomorrow
<1>1. Current' = Current /\ today' = today + 1  BY CurrentKept DEF NextDay, net
<1>2. PaidBag(Current)' = PaidBag(Current')  BY DEF PaidBag
<1> QED  BY <1>1, <1>2 DEF Ledger!Tomorrow

\* What the taps that write start from.
LEMMA BeforeWrite ==
    ASSUME TypeOK, TypeOK', NEW d \in Device, Alone(d), Settled(d), DeviceCurrent(d),
           SignedIn(d), UserStep(d)
    PROVE  /\ Current = doc /\ Current' = Overlay(d)'
           /\ user[d] \in Account /\ doc \in Account
           /\ Range(user[d].active) = Range(doc.active)
           /\ Len(user[d].active) = Len(doc.active)
           /\ RunsOnce(doc.active) => RunsOnce(user[d].active)
           /\ PaidBag(user[d]) = PaidBag(doc)
           /\ user[d].coins = doc.coins
           /\ Overlay(d) = doc
<1>1. \A e \in Device \ {d} : queue[e] = <<>> /\ queue'[e] = <<>>
  BY OthersKeep DEF Alone, Settled
<1>2. Current = Overlay(d) /\ Current' = Overlay(d)'  BY <1>1, CurrentIs
<1>3. SameAccount(user[d], doc) /\ Overlay(d) = doc  BY MemoryIsDocument
<1>4. user[d] \in Account /\ doc \in Account /\ doc.active \in Seq(Entry)
  BY DEF TypeOK, Account
<1>5. /\ Range(user[d].active) = Range(doc.active)
      /\ Len(user[d].active) = Len(doc.active)
      /\ RunsOnce(doc.active) => RunsOnce(user[d].active)
  BY <1>3, <1>4, ReorderedRange, ReorderedRunsOnce, ReorderingType DEF SameAccount
<1> QED  BY <1>2, <1>3, <1>4, <1>5 DEF SameAccount

LEMMA StartStep ==
    ASSUME TypeOK, TypeOK', AtMostTwoActive, NEW d \in Device, Alone(d), Settled(d),
           DeviceCurrent(d), NEW c \in Challenge, StartChallenge(d, c),
           RunsOnce(Overlay(d).active)'
    PROVE  Ledger!Start(c)
<1> DEFINE e == [id |-> c, start |-> today, days |-> <<>>]
<1>1. SignedIn(d) /\ UserStep(d) /\ today' = today /\ today \in Nat
  BY DEF StartChallenge, AtChallenges, Uncovered, UserStep, TypeOK
<1>2. /\ Current = doc /\ Current' = Overlay(d)'
      /\ user[d] \in Account /\ doc \in Account
      /\ Range(user[d].active) = Range(doc.active)
      /\ Len(user[d].active) = Len(doc.active)
  BY <1>1, BeforeWrite
<1>3. Current' = [doc EXCEPT !.active = Started(user[d], c)]
  BY <1>2, StartWrites
<1>4. /\ Current'.active = Started(user[d], c)
      /\ Current'.completed = Current.completed
      /\ Current'.coins = Current.coins
  BY <1>2, <1>3 DEF Account
<1>5. Range(Started(user[d], c)) = Range(doc.active) \cup {e}
  BY <1>1, <1>2, StartedRange
<1>6. Cardinality(Range(doc.active)) < MaxActive
  <2>1. doc.active \in Seq(Entry) /\ user[d].active \in Seq(Entry)
    BY <1>2 DEF Account
  <2>2. /\ Cardinality(Range(doc.active)) <= Len(doc.active)
        /\ Cardinality(Range(doc.active)) \in Nat
    BY <2>1, RangeFinite
  <2>3. Len(doc.active) \in Nat  BY <2>1, LenProperties
  <2>4. Len(user[d].active) <= MaxActive
    BY ActiveListsAre DEF AtMostTwoActive
  <2>5. Len(user[d].active) # MaxActive  BY DEF StartChallenge
  <2> QED  BY <1>2, <2>2, <2>3, <2>4, <2>5, LimitAssumption
<1>7. ASSUME NEW r \in Range(doc.active) PROVE r.id # c
  <2> DEFINE s == user[d].active
             t == Started(user[d], c)
  <2>1. s \in Seq(Entry)  BY <1>2 DEF Account
  <2>2. DOMAIN s = 1..Len(s) /\ Len(s) \in Nat  BY <2>1, LenProperties
  <2>3. t = Append(s, e)  BY DEF Started
  <2>4. e \in Entry  BY <1>1 DEF Entry
  <2>5. RunsOnce(t)
    <3>1. RunsOnce(Overlay(d)'.active)  BY DEF RunsOnce
    <3> QED  BY <1>2, <1>4, <3>1
  <2>6. PICK i \in DOMAIN s : s[i] = r  BY <1>2 DEF Range
  <2> HIDE DEF s, t
  <2>7. /\ DOMAIN t = 1..(Len(s) + 1) /\ t[Len(s) + 1] = e
        /\ \A j \in 1..Len(s) : t[j] = s[j]
    <3> HIDE DEF e
    <3> QED  BY <2>1, <2>2, <2>3, <2>4, AppendProperties, LenProperties
  <2>8. i \in DOMAIN t /\ Len(s) + 1 \in DOMAIN t /\ i # Len(s) + 1 /\ t[i] = r
    BY <2>2, <2>6, <2>7
  <2>9. t[Len(s) + 1].id = c  BY <2>7
  <2> QED  BY <2>5, <2>8, <2>9 DEF RunsOnce
<1>8. PaidBag(Current)' = PaidBag(Current)  BY <1>4 DEF PaidBag
<1>9. Ledger!Cardinality(Range(Current.active)) = Cardinality(Range(Current.active))
  BY DEF Ledger!Cardinality, Cardinality
<1> QED  BY <1>1, <1>2, <1>4, <1>5, <1>6, <1>7, <1>8, <1>9 DEF Ledger!Start

LEMMA LogStep ==
    ASSUME TypeOK, TypeOK', NEW d \in Device, Alone(d), Settled(d),
           DeviceCurrent(d), RunsOnce(Overlay(d).active), LogAction(d)
    PROVE  \/ UNCHANGED Ledger!ledgerVars
           \/ \E r \in Range(Current.active) : Ledger!Log(r)
<1> DEFINE c == logPage[d]
           s == user[d].active
<1>1. SignedIn(d) /\ UserStep(d) /\ today' = today /\ today \in Nat
  BY DEF LogAction, Uncovered, UserStep, TypeOK
<1>2. /\ Current = doc /\ Current' = Overlay(d)'
      /\ user[d] \in Account /\ doc \in Account
      /\ Range(s) = Range(doc.active)
      /\ RunsOnce(s) /\ Overlay(d) = doc
  BY <1>1, BeforeWrite
<1>3. Current' = [doc EXCEPT !.active = Logged(user[d], c)]
  BY <1>2, LogWrites
<1>4. /\ Current'.active = Logged(user[d], c)
      /\ Current'.completed = Current.completed
      /\ Current'.coins = Current.coins
  BY <1>2, <1>3 DEF Account
<1>5. PaidBag(Current)' = PaidBag(Current)  BY <1>4 DEF PaidBag
<1>6. CASE Matches(s, c) = {}
  <2>1. Range(Current.active)' = Range(Current.active)
    BY <1>1, <1>2, <1>4, <1>6, LoggedRange
  <2> QED  BY <1>1, <1>4, <1>5, <2>1 DEF Ledger!ledgerVars
<1>7. ASSUME NEW k \in Matches(s, c)
      PROVE  Ledger!Log(s[k]) /\ s[k] \in Range(Current.active)
  <2>1. Range(Logged(user[d], c)) =
          (Range(s) \ {s[k]}) \cup {[s[k] EXCEPT !.days = Append(@, today)]}
    BY <1>1, <1>2, <1>7, LoggedRange
  <2>2. s[k] \in Range(s) /\ s[k].id = c  BY DEF Matches, Range
  <2>3. PICK j \in DOMAIN doc.active : doc.active[j] = s[k]  BY <1>2, <2>2 DEF Range
  <2>4. \A i \in DOMAIN s[k].days : s[k].days[i] < today
    BY <1>2, <2>2, <2>3 DEF DeviceCurrent, LogDue, LogAction
  <2> QED  BY <1>1, <1>2, <1>4, <1>5, <2>1, <2>2, <2>4 DEF Ledger!Log
<1> QED  BY <1>6, <1>7

\* A completion added to a list is one more in its bag.
LEMMA PaidAdded ==
    ASSUME NEW a \in Account, NEW done \in Done, NEW b,
           b.completed = Append(a.completed, done)
    PROVE  PaidBag(b) = OneMore(PaidBag(a), Payment(done))
<1> DEFINE c == a.completed
           s == Payments(c)
           x == Payment(done)
           S == [id: Challenge, sp: Nat]
<1>1. c \in Seq(Done) /\ Append(c, done) \in Seq(Done)
  BY DEF Account
<1>2. /\ s \in Seq(S) /\ Len(s) = Len(c)
      /\ \A i \in 1..Len(c) : s[i] = Payment(c[i])
  BY <1>1, PaymentsType
<1>3. x \in S  BY DEF Payment, Done
<1>4. /\ Payments(Append(c, done)) \in Seq(S)
      /\ Len(Payments(Append(c, done))) = Len(Append(c, done))
      /\ \A i \in 1..Len(Append(c, done)) :
            Payments(Append(c, done))[i] = Payment(Append(c, done)[i])
  BY <1>1, PaymentsType
<1>5. /\ Len(c) \in Nat /\ Len(Append(c, done)) = Len(c) + 1
      /\ \A i \in 1..Len(c) : Append(c, done)[i] = c[i]
      /\ Append(c, done)[Len(c) + 1] = done
  BY <1>1, AppendProperties, LenProperties
<1> HIDE DEF c, s, x, S
<1>6. Payments(Append(c, done)) = Append(s, x)
  <2>1. /\ Append(s, x) \in Seq(S) /\ Len(Append(s, x)) = Len(c) + 1
        /\ \A i \in 1..Len(c) : Append(s, x)[i] = s[i]
        /\ Append(s, x)[Len(c) + 1] = x
    BY <1>2, <1>3, AppendProperties
  <2> DEFINE p == Payments(Append(c, done))
             q == Append(s, x)
  <2>2. p \in Seq(S) /\ Len(p) = Len(c) + 1 /\ q \in Seq(S) /\ Len(q) = Len(c) + 1
    BY <1>4, <1>5, <2>1
  <2>3. ASSUME NEW i \in 1..(Len(c) + 1) PROVE p[i] = q[i]
    <3>1. CASE i \in 1..Len(c)
      BY <1>2, <1>4, <1>5, <2>1, <3>1
    <3>2. CASE i = Len(c) + 1
      BY <1>4, <1>5, <2>1, <3>2 DEF x
    <3>3. i \in 1..Len(c) \/ i = Len(c) + 1  BY <1>5
    <3> HIDE DEF p, q
    <3> QED  BY <3>1, <3>2, <3>3
  <2> HIDE DEF p, q
  <2>4. p = q  BY <2>2, <2>3, SeqEqual
  <2> QED  BY <2>4 DEF p, q
<1>7. PaidBag(b) = BagOf(Append(s, x))
  <2>1. PaidBag(b) = BagOf(Payments(b.completed))  BY PaidBagIs
  <2>2. b.completed = Append(c, done)  BY DEF c
  <2> QED  BY <1>6, <2>1, <2>2
<1>8. PaidBag(a) = BagOf(s)  BY PaidBagIs DEF s, c
<1>9. BagOf(Append(s, x)) = OneMore(BagOf(s), x)
  <2>1. s \in Seq(S)  BY <1>2
  <2>2. x \in S  BY <1>3
  <2> QED  BY <2>1, <2>2, BagAppended, Zenon
<1> QED  BY <1>7, <1>8, <1>9 DEF x

LEMMA FinishStep ==
    ASSUME TypeOK, TypeOK', NEW d \in Device, Alone(d), Settled(d),
           DeviceCurrent(d), RunsOnce(Overlay(d).active), Claim(d)
    PROVE  \E r \in Range(Current.active) : Ledger!Finish(r)
<1> DEFINE c == modal[d].id
           s == user[d].active
           done == [id |-> modal[d].id, date |-> modal[d].date, sp |-> modal[d].coins]
<1>1. SignedIn(d) /\ UserStep(d) /\ today' = today /\ today \in Nat
  BY DEF Claim, DeviceCurrent, SheetsInSession, SignedIn, UserStep, TypeOK
<1>2. /\ Current = doc /\ Current' = Overlay(d)'
      /\ user[d] \in Account /\ doc \in Account
      /\ Range(s) = Range(doc.active)
      /\ RunsOnce(s) /\ Overlay(d) = doc
      /\ PaidBag(user[d]) = PaidBag(doc) /\ user[d].coins = doc.coins
  BY <1>1, BeforeWrite
<1>3. modal[d] \in Modal /\ modal[d].kind = "claim"  BY DEF TypeOK, Claim
<1>4. /\ Current'.active = Remaining(user[d], c)
      /\ Current'.completed = Append(user[d].completed, done)
      /\ Current'.coins = user[d].coins + modal[d].coins
  BY <1>2, ClaimWrites DEF Completed
<1>5. PICK j \in DOMAIN doc.active : Due(modal[d], doc.active[j])
  <2>1. ~Refreshing(d)  BY DEF Settled, Refreshing
  <2> QED  BY <1>2, <1>3, <2>1 DEF DeviceCurrent, ClaimDue
<1>6. PICK k \in DOMAIN s : s[k] = doc.active[j]
  BY <1>2 DEF Range
<1>7. Due(modal[d], s[k])  BY <1>5, <1>6
<1> DEFINE r == s[k]
           points == Value[r.id] * Len(r.days)
<1>8. /\ k \in Matches(s, c) /\ r.id = c /\ points = modal[d].coins
      /\ EndOf(r) <= today
  BY <1>7 DEF Matches, Due
<1>9. r \in Range(Current.active)  BY <1>2, <1>6 DEF Range
<1>10. today >= r.start + ChallengeDays
  <2>1. s \in Seq(Entry)  BY <1>2 DEF Account
  <2>2. r \in Entry  BY <2>1, ElementOfSeq, LenProperties
  <2>3. r.start \in Nat  BY <2>2 DEF Entry
  <2> QED  BY <1>1, <1>8, <2>3, CalendarAssumption DEF EndOf
<1>11. Range(Current.active)' = Range(Current.active) \ {r}
  <2>1. Range(Remaining(user[d], c)) = Range(s) \ {s[k]}
    BY <1>2, <1>8, RemainingRange
  <2> QED  BY <1>2, <1>4, <2>1
<1>12. PaidBag(Current)' = OneMore(PaidBag(Current), Payment(done))
  <2>1. done \in Done  BY <1>3 DEF Modal, Done
  <2>2. PaidBag(Current)' = PaidBag(Current')  BY DEF PaidBag
  <2>3. Current'.completed = Append(user[d].completed, done)  BY <1>4
  <2> HIDE DEF done
  <2>4. PaidBag(Current') = OneMore(PaidBag(user[d]), Payment(done))
    BY <1>2, <2>1, <2>3, PaidAdded
  <2> QED  BY <1>2, <2>2, <2>4
<1>13. Payment(done) = [id |-> r.id, sp |-> points]
  BY <1>8 DEF Payment
<1> DEFINE x == [id |-> r.id, sp |-> points]
<1>14. PaidBag(Current)' = Ledger!(+)(PaidBag(Current), Ledger!SetToBag({x}))
  <2> DEFINE B == PaidBag(Current)
  <2>1. PaidBag(Current)' = OneMore(B, x)  BY <1>12, <1>13
  <2> HIDE DEF B, x
  <2>2. OneMore(B, x) = Ledger!(+)(B, Ledger!SetToBag({x}))
    BY DEF OneMore, Ledger!(+), Ledger!SetToBag
  <2> QED  BY <2>1, <2>2 DEF B
<1>15. Current'.coins = Current.coins + points  BY <1>2, <1>4, <1>8
<1>16. Ledger!Finish(r)
  BY <1>1, <1>10, <1>11, <1>14, <1>15 DEF Ledger!Finish
<1> QED  BY <1>9, <1>16

LEMMA SpendStep ==
    ASSUME TypeOK, TypeOK', NEW d \in Device, Alone(d), Settled(d),
           DeviceCurrent(d), TakeReward(d)
    PROVE  \E p \in Price : Ledger!Spend(p)
<1>1. SignedIn(d) /\ UserStep(d) /\ today' = today
  BY DEF TakeReward, DeviceCurrent, SheetsInSession, UserStep
<1>2. /\ Current = doc /\ Current' = Overlay(d)' /\ doc \in Account
      /\ user[d].coins = doc.coins
  BY <1>1, BeforeWrite
<1>3. modal[d].coins \in Price /\ modal[d].coins <= user[d].coins
  BY DEF TakeReward, DeviceCurrent, RewardCovered
<1>4. Current' = [doc EXCEPT !.coins = user[d].coins - modal[d].coins]
  BY <1>2, RewardWrites
<1>5. /\ Current'.active = Current.active /\ Current'.completed = Current.completed
      /\ Current'.coins = Current.coins - modal[d].coins
  BY <1>2, <1>4 DEF Account
<1>6. PaidBag(Current)' = PaidBag(Current)  BY <1>5 DEF PaidBag
<1>7. Ledger!Spend(modal[d].coins)
  BY <1>1, <1>2, <1>3, <1>5, <1>6 DEF Ledger!Spend
<1> QED  BY <1>3, <1>7

LEMMA LedgerInit == Init => Ledger!Init
<1> SUFFICES ASSUME Init PROVE Ledger!Init
  OBVIOUS
<1>1. Current = NewAccount /\ today = 0  BY DEF Init, Current
<1>2. NewAccount.active = <<>> /\ NewAccount.completed = <<>> /\ NewAccount.coins = 0
  BY DEF NewAccount
<1>3. Range(<<>>) = {}  BY DEF Range
<1>4. PaidBag(NewAccount) = Ledger!EmptyBag
  BY <1>2 DEF PaidBag, Range, Ledger!EmptyBag, Ledger!SetToBag
<1> QED  BY <1>1, <1>2, <1>3, <1>4 DEF Ledger!Init

LEMMA LedgerStep ==
    ASSUME TypeOK, TypeOK', AtMostTwoActive, PatientInv, [PatientNext]_vars
    PROVE  [Ledger!Next]_(Ledger!ledgerVars)
<1> DEFINE Implements == Ledger!Next \/ UNCHANGED Ledger!ledgerVars
<1>1. /\ OneDevice
      /\ \A d \in Device : DeviceCurrent(d) /\ RunsOnce(Overlay(d).active)
  BY DEF PatientInv
<1>2. ASSUME NEW d \in Device, Alone(d), Settled(d), UserStep(d) \/ Kill(d), PatientNext
      PROVE  Implements
  <2>1. ASSUME NEW c \in Challenge, StartChallenge(d, c) PROVE Ledger!Start(c)
    <3>1. RunsOnce(Overlay(d).active)'  BY <1>2 DEF PatientNext
    <3> QED  BY <1>1, <1>2, <2>1, <3>1, StartStep
  <2>2. CASE LogAction(d)
    <3>1. \/ UNCHANGED Ledger!ledgerVars
          \/ \E r \in Range(Current.active) : Ledger!Log(r)
      BY <1>1, <1>2, <2>2, LogStep
    <3> QED  BY <3>1 DEF Ledger!Next
  <2>3. CASE Claim(d)
    <3>1. \E r \in Range(Current.active) : Ledger!Finish(r)
      BY <1>1, <1>2, <2>3, FinishStep
    <3> QED  BY <3>1 DEF Ledger!Next
  <2>4. CASE TakeReward(d)
    <3>1. \E p \in Price : Ledger!Spend(p)
      BY <1>1, <1>2, <2>4, SpendStep
    <3> QED  BY <3>1 DEF Ledger!Next
  <2>5. CASE queue' = queue /\ doc' = doc /\ today' = today
    BY <2>5, CurrentKept, LedgerStutters
  <2>6. CASE \E c \in Challenge : StartChallenge(d, c)
    BY <2>1, <2>6 DEF Ledger!Next
  <2> QED  BY <1>2, <2>2, <2>3, <2>4, <2>5, <2>6, OnlyFourWrite
<1>3. ASSUME NEW d \in Device, SendWrite(d) PROVE Implements
  <2>1. ~Settled(d)  BY <1>3 DEF SendWrite, Settled
  <2>2. \A e \in Device \ {d} : queue[e] = <<>>
    BY <1>1, <2>1 DEF OneDevice, Settled
  <2>3. \A e \in Device \ {d} : queue'[e] = <<>>
    BY <1>3, <2>2 DEF SendWrite, TypeOK
  <2>4. Current = Overlay(d) /\ Current' = Overlay(d)'  BY <2>2, <2>3, CurrentIs
  <2>5. Overlay(d)' = Overlay(d)  BY <1>3, OverlaySent
  <2>6. today' = today  BY <1>3 DEF SendWrite
  <2> QED  BY <2>4, <2>5, <2>6, LedgerStutters
<1>4. ASSUME NEW d \in Device, NEW i \in DOMAIN fetches[d],
             AnswerFetch(d, i) \/ InstallFetch(d, i)
      PROVE  Implements
  <2>1. queue' = queue /\ doc' = doc /\ today' = today
    BY <1>4 DEF AnswerFetch, InstallFetch, net
  <2> QED  BY <2>1, CurrentKept, LedgerStutters
<1>5. CASE NextDay
  BY <1>5, DayStep DEF Ledger!Next
<1>6. CASE UNCHANGED vars
  <2>1. queue' = queue /\ doc' = doc /\ today' = today  BY <1>6 DEF vars
  <2> QED  BY <2>1, CurrentKept, LedgerStutters
<1> QED
  BY <1>2, <1>3, <1>4, <1>5, <1>6 DEF PatientNext, WaitingNext, NetworkStep

\* The account of a patient user implements the ledger: every start, log,
\* claim (three separate writes, and the sheet that stays open after them) and
\* reward is one step of ChallengeLedger at the tap, and all that happens
\* between phone and server is no step of it.
THEOREM AccountImplementsLedger == PatientSpec => ImplementsLedger
<1>1. PatientSpec => []TypeOK /\ []AtMostTwoActive
  BY PatientIsSpec, TypeCorrect, LimitHolds, PTL
<1>2. Init => Ledger!Init  BY LedgerInit
<1>3. TypeOK /\ TypeOK' /\ AtMostTwoActive /\ PatientInv /\ [PatientNext]_vars
        => [Ledger!Next]_(Ledger!ledgerVars)
  BY LedgerStep
<1> QED
  BY <1>1, <1>2, <1>3, PatientInvariant, PTL DEF PatientSpec, ImplementsLedger, Ledger!Spec
=============================================================================
