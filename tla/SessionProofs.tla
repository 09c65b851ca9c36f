-------------------------- MODULE SessionProofs ---------------------------
(***************************************************************************)
(* The two e-mail addresses of an account, and the session: theorems about *)
(* SignUp and about AppStart.                                              *)
(*                                                                         *)
(* The addresses: for each account the last write queued and the last change *)
(* under way are of one address (EmailInv).  The session: while all work is of *)
(* one button and one address and no change of the address is under way with *)
(* it (Calm), the account a chain stands for, the one signed in and the    *)
(* model's are the same.                                                   *)
(***************************************************************************)
EXTENDS AppStartProofs

-----------------------------------------------------------------------------
(* The two e-mail addresses.                                               *)

EmailAt(u, k) == k \in DOMAIN queue[u] /\ queue[u][k].kind = "email"
ChangeAt(u, k) == k \in DOMAIN changes /\ changes[k].uid = u
NoEmail(u) == \A k : ~EmailAt(u, k)
NoChange(u) == \A k : ~ChangeAt(u, k)
LastEmail(u, k) == EmailAt(u, k) /\ \A j : EmailAt(u, j) => j <= k
LastChange(u, k) == ChangeAt(u, k) /\ \A j : ChangeAt(u, j) => j <= k

\* a is what the login's address will be when all changes are made.
Agree(u, a) ==
    /\ \A k : LastChange(u, k) => changes[k].email = a
    /\ NoChange(u) => login[u] = a

OneSession(u) ==
    \A j, k : ChangeAt(u, j) /\ ChangeAt(u, k) => changes[j].session = changes[k].session

\* The document agrees if no e-mail of it is queued, else the last e-mail queued.
DocumentAgrees(u) == docs[u] # NoDocument /\ NoEmail(u) => Agree(u, docs[u].email)
EmailAgrees(u) == \A k : LastEmail(u, k) => Agree(u, queue[u][k].email)

\* E-mails are queued behind the document they change.
EmailsFollow(u) ==
    \A j : EmailAt(u, j) /\ docs[u] = NoDocument => \E k : NewAt(u, k, u) /\ k < j

NewAgrees(u) ==
    \A v \in Account : \A k : NewAt(v, k, u) =>
       /\ NoEmail(u) => Agree(u, queue[v][k].email)
       /\ v # u => NoEmail(u) /\ NoChange(u)

CreatorAgrees(u) ==
    \A t : Creating(t) /\ work[t].uid = u =>
       work[t].address = login[u] /\ NoEmail(u) /\ NoChange(u)

EmailInv(u) ==
    /\ OneSession(u)
    /\ DocumentAgrees(u)
    /\ EmailAgrees(u)
    /\ EmailsFollow(u)
    /\ NewAgrees(u)
    /\ CreatorAgrees(u)

Emails == \A u \in Registered \ apart : EmailInv(u)

\* The changes of u are as they were.
SameChanges(u) ==
    /\ login'[u] = login[u]
    /\ \A k : ChangeAt(u, k)' <=> ChangeAt(u, k)
    /\ \A k : ChangeAt(u, k) => changes'[k] = changes[k]

\* Logins and changes as they were.
LEMMA AgreeKept ==
    ASSUME NEW u, SameChanges(u)
    PROVE  /\ \A a : Agree(u, a) => Agree(u, a)'
           /\ NoChange(u) => NoChange(u)'
           /\ OneSession(u) => OneSession(u)'
  <1>1. \A k : LastChange(u, k)' => LastChange(u, k) /\ changes'[k] = changes[k]
    BY DEF SameChanges, LastChange
  <1>2. NoChange(u)' <=> NoChange(u)
    BY DEF SameChanges, NoChange
  <1>3. \A a : Agree(u, a) => Agree(u, a)'
    BY <1>1, <1>2 DEF Agree, SameChanges
  <1>4. OneSession(u) => OneSession(u)'
    BY DEF OneSession, SameChanges
  <1> QED
    BY <1>2, <1>3, <1>4

\* The changes of an account as they were.
LEMMA ChangesSame ==
    ASSUME changes' = changes, NEW u, login'[u] = login[u]
    PROVE  SameChanges(u)
  BY DEF SameChanges, ChangeAt

\* The e-mails queued for u are as they were.
SameEmails(u) ==
    /\ \A k : EmailAt(u, k)' <=> EmailAt(u, k)
    /\ \A k : EmailAt(u, k) => queue'[u][k].email = queue[u][k].email

\* No document of u is queued that was not queued before.
NoMoreNew(u) ==
    \A v \in Account : \A k : NewAt(v, k, u)' => NewAt(v, k, u) /\ queue'[v][k].email = queue[v][k].email

\* No work creates u that did not before.
NoMoreCreators(u) ==
    \A t : Creating(t)' /\ work'[t].uid = u =>
       Creating(t) /\ work[t].uid = u /\ work'[t].address = work[t].address

\* A step that leaves an account's writes, changes and login alone.
LEMMA EmailInvKept ==
    ASSUME NEW u, EmailInv(u), SameChanges(u), SameEmails(u), NoMoreNew(u), NoMoreCreators(u),
           docs'[u] = docs[u], EmailsFollow(u)'
    PROVE  EmailInv(u)'
  <1>1. NoEmail(u)' <=> NoEmail(u)
    BY DEF NoEmail, SameEmails
  <1>2. \A k : LastEmail(u, k)' => LastEmail(u, k) /\ queue'[u][k].email = queue[u][k].email
    BY DEF LastEmail, SameEmails
  <1>3. \A a : Agree(u, a) => Agree(u, a)'
    BY AgreeKept
  <1>4. (NoChange(u) => NoChange(u)') /\ OneSession(u)'
    BY AgreeKept DEF EmailInv
  <1>5. DocumentAgrees(u)'
    <2>1. DocumentAgrees(u)
      BY DEF EmailInv
    <2>2. PICK a : a = docs[u].email
      OBVIOUS
    <2>3. Agree(u, a)' <=> Agree(u, docs[u].email)'
      BY <2>2 DEF Agree
    <2> QED
      BY <1>1, <1>3, <2>1, <2>2, <2>3 DEF DocumentAgrees
  <1>6. EmailAgrees(u)'
    <2>1. EmailAgrees(u)
      BY DEF EmailInv
    <2>2. SUFFICES ASSUME NEW k, LastEmail(u, k)' PROVE Agree(u, queue[u][k].email)'
      BY DEF EmailAgrees
    <2>3. PICK a : a = queue[u][k].email
      OBVIOUS
    <2>4. Agree(u, a)
      BY <1>2, <2>1, <2>2, <2>3 DEF EmailAgrees
    <2>5. Agree(u, a)' /\ a = queue'[u][k].email
      BY <1>2, <1>3, <2>2, <2>3, <2>4
    <2> QED
      BY <2>5 DEF Agree
  <1>7. NewAgrees(u)'
    <2>1. NewAgrees(u)
      BY DEF EmailInv
    <2>2. SUFFICES ASSUME NEW v \in Account, NEW k, NewAt(v, k, u)'
                   PROVE  /\ NoEmail(u)' => Agree(u, queue[v][k].email)'
                          /\ v # u => NoEmail(u)' /\ NoChange(u)'
      BY DEF NewAgrees
    <2>3. NewAt(v, k, u) /\ queue'[v][k].email = queue[v][k].email
      BY <2>2 DEF NoMoreNew
    <2>4. PICK a : a = queue[v][k].email
      OBVIOUS
    <2>5. NoEmail(u)' => Agree(u, a)'
      BY <1>1, <1>3, <2>1, <2>3, <2>4 DEF NewAgrees
    <2>6. Agree(u, a)' => Agree(u, queue[v][k].email)'
      BY <2>3, <2>4 DEF Agree
    <2> QED
      BY <1>1, <1>4, <2>1, <2>3, <2>5, <2>6 DEF NewAgrees
  <1>8. CreatorAgrees(u)'
    BY <1>1, <1>4 DEF CreatorAgrees, NoMoreCreators, EmailInv, SameChanges
  <1> QED
    BY <1>4, <1>5, <1>6, <1>7, <1>8 DEF EmailInv

\* Queues as they were.
LEMMA QueueSame ==
    ASSUME queue' = queue, docs' = docs, NEW u, EmailsFollow(u)
    PROVE  SameEmails(u) /\ NoMoreNew(u) /\ EmailsFollow(u)'
  BY DEF SameEmails, NoMoreNew, EmailsFollow, EmailAt, NewAt

\* Steps that only move chains.
CreatorsKept ==
    \A t : Creating(t)' =>
       Creating(t) /\ work'[t].uid = work[t].uid /\ work'[t].address = work[t].address

\* A step that leaves all queues, changes and logins alone.
LEMMA EmailsQuiet ==
    ASSUME Emails, docs' = docs, queue' = queue, login' = login, changes' = changes,
           apart' = apart, CreatorsKept
    PROVE  Emails'
  <1> SUFFICES ASSUME NEW u \in Registered', u \notin apart' PROVE EmailInv(u)'
    BY DEF Emails
  <1>1. u \in Registered \ apart
    BY DEF Registered
  <1>2. EmailInv(u)
    BY <1>1 DEF Emails
  <1>3. SameEmails(u) /\ NoMoreNew(u) /\ EmailsFollow(u)'
    BY <1>2, QueueSame DEF EmailInv
  <1>4. SameChanges(u)
    BY ChangesSame
  <1>5. NoMoreCreators(u)
    BY DEF CreatorsKept, NoMoreCreators
  <1> QED
    BY <1>2, <1>3, <1>4, <1>5, EmailInvKept

\* One chain moves and creates what it created.
LEMMA CreatorsOfOne ==
    ASSUME NEW t \in DOMAIN work, AllButOne(work, work', t), SameTap(work[t], work'[t]),
           \/ work'[t].stage \notin {"created", "uploading"}
           \/ Creating(t) /\ work'[t].uid = work[t].uid
    PROVE  CreatorsKept
  BY DEF AllButOne, SameTap, CreatorsKept, Creating

\* A chain ends.
LEMMA CreatorsOfDropped ==
    ASSUME NEW t, Dropped(work, work', t)
    PROVE  CreatorsKept
  BY DEF Dropped, CreatorsKept, Creating

\* The chains are as they were.
LEMMA CreatorsOfSame ==
    ASSUME NEW t, SameChains(work, work', t),
           t \in DOMAIN work' => work'[t].stage \notin {"created", "uploading"}
    PROVE  CreatorsKept
  BY DEF SameChains, SameChain, CreatorsKept, Creating

\* The steps that touch no address.
LEMMA QuietEmails ==
    ASSUME Accounted, Emails,
           \/ GoBack \/ SignOut \/ \E p \in {"login", "details"} : OpenPage(p)
           \/ \E kind \in {"register", "signin"} : \E a \in Address :
                 Begin(kind, a) /\ (error' = error \/ error' = FALSE)
           \/ \E t \in DOMAIN work :
                 \/ RefuseLogin(t) \/ RefuseSignIn(t) \/ LoseLogin(t) \/ LoseUpload(t) \/ LoseAnswer(t)
                 \/ TakeLogin(t) \/ (Upload(t) /\ auth = Nobody)
                 \/ FinishRegistration(t) \/ AcceptSignIn(t)
                 \/ AnswerFetch(t) \/ (\E c \in Challenge : LookUp(t, c)) \/ FinishFetch(t)
           \/ Aside
    PROVE  Emails'
  <1>t. AccountTypes
    BY DEF Accounted
  <1> DEFINE Still == docs' = docs /\ queue' = queue /\ login' = login /\ changes' = changes
                      /\ apart' = apart
  <1>1. ASSUME GoBack \/ SignOut \/ \E p \in {"login", "details"} : OpenPage(p)
        PROVE  Still /\ CreatorsKept
    <2>1. SameWork(work, work') /\ Still
      BY <1>t, <1>1, PagesDo
    <2>2. SameChains(work, work', 0) /\ 0 \notin DOMAIN work'
      <3>1. DOMAIN work' = DOMAIN work /\ \A i \in DOMAIN work : SameChain(work[i], work'[i])
        BY <2>1 DEF SameWork
      <3> QED
        BY <1>t, <3>1 DEF SameChains, AccountTypes
    <2> QED
      BY <2>1, <2>2, CreatorsOfSame
  <1>2. ASSUME NEW kind \in {"register", "signin"}, NEW a \in Address,
               Begin(kind, a), error' = error \/ error' = FALSE
        PROVE  Still /\ CreatorsKept
    <2>1. error' \in BOOLEAN
      BY <1>t, <1>2 DEF AccountTypes
    <2>2. Tap(work, work', taps', kind, a) /\ Still
      BY <1>t, <1>2, <2>1, BeginDoes
    <2>3. \A i : Creating(i)' => i # taps'
      BY <2>2 DEF Tap, Tapped, Creating
    <2>4. \A i \in DOMAIN work' : i # taps' => i \in DOMAIN work /\ work'[i] = work[i]
      BY <2>2 DEF Tap
    <2> QED
      BY <2>2, <2>3, <2>4 DEF CreatorsKept, Creating
  <1>3. ASSUME NEW t \in DOMAIN work,
               RefuseLogin(t) \/ RefuseSignIn(t) \/ LoseLogin(t) \/ LoseUpload(t) \/ LoseAnswer(t)
        PROVE  Still /\ CreatorsKept
    BY <1>t, <1>3, LossesDo, CreatorsOfDropped
  <1>4. ASSUME NEW t \in DOMAIN work, TakeLogin(t)
        PROVE  Still /\ CreatorsKept
    BY <1>t, <1>4, TakeLoginDoes, CreatorsOfOne DEF Creating
  <1>5. ASSUME NEW t \in DOMAIN work, Upload(t), auth = Nobody
        PROVE  Still /\ CreatorsKept
    BY <1>t, <1>5, UploadStops, CreatorsOfDropped
  <1>6. ASSUME NEW t \in DOMAIN work, FinishRegistration(t) \/ AcceptSignIn(t)
        PROVE  Still /\ CreatorsKept
    <2>1. FetchBegun(work, work', t, auth') /\ Still
      BY <1>t, <1>6, FetchBegins
    <2>2. SameChains(work, work', t) /\ work'[t].stage = "fetching"
      BY <2>1 DEF FetchBegun, SameChains
    <2> QED
      BY <2>1, <2>2, CreatorsOfSame
  <1>7. ASSUME NEW t \in DOMAIN work, AnswerFetch(t)
        PROVE  Still /\ CreatorsKept
    BY <1>t, <1>7, AnswerFetchDoes, CreatorsOfOne
  <1>8. ASSUME NEW t \in DOMAIN work, NEW c, LookUp(t, c)
        PROVE  Still /\ CreatorsKept
    BY <1>t, <1>8, LookUpDoes, CreatorsOfOne
  <1>9. ASSUME NEW t \in DOMAIN work, FinishFetch(t)
        PROVE  Still /\ CreatorsKept
    <2>1. Finished(work, work', t) /\ Still
      BY <1>t, <1>9, FinishFetchDoes
    <2>2. SameChains(work, work', t) /\ t \notin DOMAIN work'
      BY <2>1 DEF Finished, SameChains
    <2> QED
      BY <2>1, <2>2, CreatorsOfSame
  <1>10. ASSUME Aside PROVE Still /\ CreatorsKept
    <2>1. Still /\ work' = work
      BY <1>t, <1>10, AsideDoes
    <2> QED
      BY <2>1 DEF CreatorsKept, Creating
  <1>11. Still /\ CreatorsKept
    BY <1>1, <1>2, <1>3, <1>4, <1>5, <1>6, <1>7, <1>8, <1>9, <1>10
  <1> QED
    BY <1>11, EmailsQuiet

-----------------------------------------------------------------------------
\* A new account has nothing but its login.
LEMMA CreateLoginEmails ==
    ASSUME Accounted, Emails, NEW t \in DOMAIN work, CreateLogin(t)
    PROVE  Emails'
  <1> DEFINE x == work'[t].uid
  <1>1. AccountTypes /\ Numbered /\ Known /\ OneCreator
    BY DEF Accounted, Counted
  <1>2. /\ AllButOne(work, work', t) /\ SameTap(work[t], work'[t])
        /\ work[t].stage = "creating" /\ work'[t].stage = "created"
        /\ x = Cardinality(Registered) + 1 /\ x \in Account
        /\ login' = [login EXCEPT ![x] = work[t].address]
        /\ docs' = docs /\ queue' = queue /\ changes' = changes /\ apart' = apart
    BY <1>1, CreateLoginDoes
  <1>3. work[t].address \in Address /\ login \in Logins
    BY <1>1, WorkOf DEF AccountTypes
  <1> HIDE DEF x
  <1>4. x \notin Registered /\ Registered' = Registered \cup {x}
    BY <1>1, <1>2, <1>3, NextAccount
  <1>5. work'[t].uid = x /\ work'[t].address = work[t].address /\ DOMAIN work' = DOMAIN work
        /\ \A i \in DOMAIN work \ {t} : work'[i] = work[i]
    BY <1>2 DEF x, AllButOne, SameTap
  <1>6. SUFFICES ASSUME NEW u \in Registered', u \notin apart' PROVE EmailInv(u)'
    BY DEF Emails
  <1>7. u \in Account
    BY DEF Registered
  <1>8. CASE u # x
    <2>1. u \in Registered \ apart
      BY <1>2, <1>4, <1>6, <1>8
    <2>2. EmailInv(u)
      BY <2>1 DEF Emails
    <2>3. SameEmails(u) /\ NoMoreNew(u) /\ EmailsFollow(u)'
      BY <1>2, <2>2, QueueSame DEF EmailInv
    <2>4. login'[u] = login[u]
      BY <1>2, <1>3, <1>8 DEF Logins
    <2>5. SameChanges(u)
      BY <1>2, <2>4, ChangesSame
    <2>6. NoMoreCreators(u)
      BY <1>5, <1>8 DEF NoMoreCreators, Creating
    <2> QED
      BY <1>2, <2>2, <2>3, <2>5, <2>6, EmailInvKept
  <1>9. CASE u = x
    <2>1. u \notin Registered /\ login'[u] = work[t].address
      BY <1>2, <1>3, <1>4, <1>7, <1>9 DEF Logins
    <2>2. u # Nobody
      BY <1>1, <1>7, StillKnown DEF Nobody, Accounted
    <2>3. docs[u] = NoDocument /\ (\A k : ~ChangeAt(u, k))
      BY <1>1, <1>7, <2>1 DEF Known, ChangeAt
    <2>a. EmailsOwn
      BY DEF Accounted, Counted
    <2>4. \A k : ~EmailAt(u, k)
      BY <1>1, <1>7, <2>1, <2>a DEF Known, EmailAt, EmailsOwn
    <2>b. \A v \in Account : \A k : ~NewAt(v, k, u)
      BY <1>1, <2>1 DEF Known, NewAt
    <2>5. /\ NoEmail(u)' /\ NoChange(u)' /\ docs'[u] = NoDocument
          /\ (\A v \in Account : \A k : ~NewAt(v, k, u)')
          /\ (\A k : ~EmailAt(u, k)') /\ (\A k : ~ChangeAt(u, k)')
      BY <1>2, <2>3, <2>4, <2>b DEF NoEmail, NoChange, EmailAt, ChangeAt, NewAt
    <2>6. \A i : Creating(i)' /\ work'[i].uid = u => i = t
      BY <1>1, <1>5, <2>1, <2>2 DEF Known, Creating
    <2>7. CreatorAgrees(u)'
      BY <1>5, <2>1, <2>5, <2>6 DEF CreatorAgrees
    <2>8. OneSession(u)' /\ DocumentAgrees(u)' /\ EmailAgrees(u)' /\ EmailsFollow(u)' /\ NewAgrees(u)'
      BY <2>5 DEF OneSession, DocumentAgrees, EmailAgrees, EmailsFollow, NewAgrees, LastEmail
    <2> QED
      BY <2>7, <2>8 DEF EmailInv
  <1> QED
    BY <1>8, <1>9

\* The document queued carries the address of its login.
LEMMA UploadEmails ==
    ASSUME Accounted, Emails, NEW t \in DOMAIN work, Upload(t), auth # Nobody
    PROVE  Emails'
  <1> DEFINE x == work[t].uid
             n == Len(queue[auth]) + 1
  <1>1. AccountTypes /\ OneCreator
    BY DEF Accounted, Counted
  <1>2. /\ AllButOne(work, work', t) /\ auth \in Account
        /\ work[t].stage = "uploading" /\ work'[t].stage = "writing" /\ x \in Account
        /\ docs' = docs /\ login' = login /\ changes' = changes /\ apart' = apart
    BY <1>1, UploadQueues
  <1>3. PICK image \in BOOLEAN : /\ NewWrite(t, image) \in PendingWrite
                                 /\ queue' = Queued(queue, auth, NewWrite(t, image))
    BY <1>1, UploadQueues
  <1> DEFINE r == NewWrite(t, image)
  <1>4. r \in PendingWrite /\ r.kind = "new" /\ r.uid = x /\ r.email = work[t].address
    BY <1>3 DEF NewWrite
  <1>5. queue \in Queues /\ queue' = Queued(queue, auth, r)
    BY <1>1, <1>3 DEF AccountTypes
  <1> HIDE DEF x, r
  <1>6. Longer(queue, queue', auth, r, n)
    BY <1>2, <1>4, <1>5, QueueAppended
  <1> HIDE DEF n
  <1>7. /\ \A v \in Account : v # auth => queue'[v] = queue[v]
        /\ \A k : k \in DOMAIN queue'[auth] <=> k \in DOMAIN queue[auth] \/ k = n
        /\ queue'[auth][n] = r /\ n \notin DOMAIN queue[auth]
        /\ \A k \in DOMAIN queue[auth] : queue'[auth][k] = queue[auth][k]
    BY <1>6 DEF Longer
  <1>8. \A v \in Account : \A k : k \in DOMAIN queue'[v] =>
           \/ k \in DOMAIN queue[v] /\ queue'[v][k] = queue[v][k]
           \/ v = auth /\ k = n /\ queue'[v][k] = r
    BY <1>7
  <1>9. \A v \in Account : \A k \in DOMAIN queue[v] :
           k \in DOMAIN queue'[v] /\ queue'[v][k] = queue[v][k]
    BY <1>7
  <1>10. \A u \in Account : SameEmails(u)
    BY <1>4, <1>8, <1>9 DEF SameEmails, EmailAt
  <1>11. \A u : SameChanges(u)
    BY <1>2, ChangesSame
  <1>12. Creating(t) /\ work[t].uid = x
    BY <1>2 DEF Creating, x
  <1>13. \A i : Creating(i)' => Creating(i) /\ work'[i] = work[i] /\ i # t
    BY <1>2 DEF Creating, AllButOne
  <1>14. \A u : NoMoreCreators(u)
    BY <1>13 DEF NoMoreCreators
  <1>15. SUFFICES ASSUME NEW u \in Registered', u \notin apart' PROVE EmailInv(u)'
    BY DEF Emails
  <1>16. u \in Registered \ apart /\ u \in Account
    BY <1>2, <1>15 DEF Registered
  <1>17. EmailInv(u)
    BY <1>16 DEF Emails
  <1>18. EmailsFollow(u)'
    <2>1. \A j : EmailAt(u, j) /\ docs[u] = NoDocument => \E k : NewAt(u, k, u) /\ k < j
      BY <1>17 DEF EmailInv, EmailsFollow
    <2>2. \A k : NewAt(u, k, u) => NewAt(u, k, u)'
      BY <1>9, <1>16 DEF NewAt
    <2>3. \A j : EmailAt(u, j)' => EmailAt(u, j)
      BY <1>10, <1>16 DEF SameEmails
    <2> QED
      BY <1>2, <2>1, <2>2, <2>3 DEF EmailsFollow
  <1>19. CASE u # x
    <2>1. NoMoreNew(u)
      BY <1>4, <1>8, <1>19 DEF NoMoreNew, NewAt
    <2> QED
      BY <1>2, <1>10, <1>11, <1>14, <1>16, <1>17, <1>18, <2>1, EmailInvKept
  <1>20. CASE u = x
    <2>1. work[t].address = login[u] /\ NoEmail(u) /\ NoChange(u)
      BY <1>12, <1>17, <1>20 DEF EmailInv, CreatorAgrees
    <2>2. NoEmail(u)' /\ NoChange(u)' /\ OneSession(u)'
      <3>1. NoEmail(u)'
        BY <1>10, <1>16, <2>1 DEF NoEmail, SameEmails
      <3>2. SameChanges(u) /\ OneSession(u)
        BY <1>11, <1>17 DEF EmailInv
      <3> QED
        BY <2>1, <3>1, <3>2, AgreeKept
    <2>3. docs[u] = NoDocument /\ \A v \in Account : \A k : ~NewAt(v, k, u)
      BY <1>1, <1>12, <1>20 DEF OneCreator, NewAt
    <2>4. \A v \in Account : \A k : NewAt(v, k, u)' => queue'[v][k] = r
      BY <1>8, <2>3 DEF NewAt
    <2>5. \A i : ~(Creating(i)' /\ work'[i].uid = u)
      BY <1>1, <1>12, <1>13, <1>20 DEF OneCreator, Creating
    <2>6. NewAgrees(u)'
      <3>1. SUFFICES ASSUME NEW v \in Account, NEW k, NewAt(v, k, u)'
                     PROVE  Agree(u, queue[v][k].email)'
        BY <2>2 DEF NewAgrees
      <3>2. queue'[v][k].email = login[u]
        BY <1>4, <2>1, <2>4, <3>1
      <3> QED
        BY <1>2, <2>2, <3>2 DEF Agree, NoChange, LastChange
    <2>7. DocumentAgrees(u)' /\ EmailAgrees(u)' /\ CreatorAgrees(u)'
      BY <1>2, <2>2, <2>3, <2>5 DEF DocumentAgrees, EmailAgrees, CreatorAgrees, LastEmail, NoEmail
    <2> QED
      BY <1>18, <2>2, <2>6, <2>7 DEF EmailInv
  <1> QED
    BY <1>19, <1>20

-----------------------------------------------------------------------------
\* The first write of the signed-in account leaves the queue.
LEMMA HeadGone ==
    ASSUME AccountTypes, auth \in Account, queue[auth] # <<>>, queue' = Sent(queue, auth)
    PROVE  /\ \A v \in Account : \A k : k \in DOMAIN queue'[v] =>
                 /\ k \in Nat \ {0} /\ Before(v, k, auth) \in DOMAIN queue[v]
                 /\ queue'[v][k] = queue[v][Before(v, k, auth)]
                 /\ ~(v = auth /\ Before(v, k, auth) = 1)
           /\ \A v \in Account : \A j \in DOMAIN queue[v] :
                 ~(v = auth /\ j = 1) => \E k \in DOMAIN queue'[v] : j = Before(v, k, auth)
  <1>1. Shorter(queue, queue', auth)
    BY QueueSent DEF AccountTypes
  <1>2. \A v \in Account : \A k \in DOMAIN queue'[v] :
           /\ k \in Nat \ {0} /\ Before(v, k, auth) \in DOMAIN queue[v]
           /\ queue'[v][k] = queue[v][Before(v, k, auth)]
    BY <1>1 DEF Shorter
  <1>3. \A v \in Account : \A k \in DOMAIN queue'[v] : ~(v = auth /\ Before(v, k, auth) = 1)
    BY <1>2 DEF Before
  <1> QED
    BY <1>1, <1>2, <1>3 DEF Shorter

\* What it leaves of the e-mails and documents queued.
Moved1 ==
    \A u \in Account :
       /\ \A k : EmailAt(u, k)' =>
             /\ EmailAt(u, Before(u, k, auth)) /\ queue'[u][k].email = queue[u][Before(u, k, auth)].email
             /\ ~(u = auth /\ Before(u, k, auth) = 1) /\ k \in Nat
       /\ \A j : EmailAt(u, j) /\ ~(u = auth /\ j = 1) =>
             \E k : EmailAt(u, k)' /\ j = Before(u, k, auth)
       /\ \A v \in Account : \A k : NewAt(v, k, u)' =>
             /\ NewAt(v, Before(v, k, auth), u)
             /\ queue'[v][k].email = queue[v][Before(v, k, auth)].email
             /\ ~(v = auth /\ Before(v, k, auth) = 1) /\ k \in Nat
       /\ \A v \in Account : \A j : NewAt(v, j, u) /\ ~(v = auth /\ j = 1) =>
             \E k : NewAt(v, k, u)' /\ j = Before(v, k, auth)

\* The writes behind the first move up one place.
LEMMA HeadMoved ==
    ASSUME AccountTypes, auth \in Account, queue[auth] # <<>>, queue' = Sent(queue, auth)
    PROVE  Moved1
  <1>1. \A v \in Account : \A k : k \in DOMAIN queue'[v] =>
           /\ k \in Nat \ {0} /\ Before(v, k, auth) \in DOMAIN queue[v]
           /\ queue'[v][k] = queue[v][Before(v, k, auth)]
           /\ ~(v = auth /\ Before(v, k, auth) = 1)
    BY HeadGone
  <1>2. \A v \in Account : \A j \in DOMAIN queue[v] :
           ~(v = auth /\ j = 1) => \E k \in DOMAIN queue'[v] : j = Before(v, k, auth)
    BY HeadGone
  <1> SUFFICES ASSUME NEW u \in Account
               PROVE
       /\ \A k : EmailAt(u, k)' =>
             /\ EmailAt(u, Before(u, k, auth)) /\ queue'[u][k].email = queue[u][Before(u, k, auth)].email
             /\ ~(u = auth /\ Before(u, k, auth) = 1) /\ k \in Nat
       /\ \A j : EmailAt(u, j) /\ ~(u = auth /\ j = 1) =>
             \E k : EmailAt(u, k)' /\ j = Before(u, k, auth)
       /\ \A v \in Account : \A k : NewAt(v, k, u)' =>
             /\ NewAt(v, Before(v, k, auth), u)
             /\ queue'[v][k].email = queue[v][Before(v, k, auth)].email
             /\ ~(v = auth /\ Before(v, k, auth) = 1) /\ k \in Nat
       /\ \A v \in Account : \A j : NewAt(v, j, u) /\ ~(v = auth /\ j = 1) =>
             \E k : NewAt(v, k, u)' /\ j = Before(v, k, auth)
    BY DEF Moved1
  <1>3. \A k : EmailAt(u, k)' =>
             /\ EmailAt(u, Before(u, k, auth)) /\ queue'[u][k].email = queue[u][Before(u, k, auth)].email
             /\ ~(u = auth /\ Before(u, k, auth) = 1) /\ k \in Nat
    BY <1>1 DEF EmailAt
  <1>4. \A j : EmailAt(u, j) /\ ~(u = auth /\ j = 1) =>
             \E k : EmailAt(u, k)' /\ j = Before(u, k, auth)
    BY <1>1, <1>2 DEF EmailAt
  <1>5. \A v \in Account : \A k : NewAt(v, k, u)' =>
             /\ NewAt(v, Before(v, k, auth), u)
             /\ queue'[v][k].email = queue[v][Before(v, k, auth)].email
             /\ ~(v = auth /\ Before(v, k, auth) = 1) /\ k \in Nat
    BY <1>1 DEF NewAt
  <1>6. \A v \in Account : \A j : NewAt(v, j, u) /\ ~(v = auth /\ j = 1) =>
             \E k : NewAt(v, k, u)' /\ j = Before(v, k, auth)
    BY <1>1, <1>2 DEF NewAt
  <1> QED
    BY <1>3, <1>4, <1>5, <1>6

\* ... and keep their order.
LEMMA BeforeKeepsOrder ==
    ASSUME NEW u, NEW a, NEW j \in Nat, NEW k \in Nat
    PROVE  /\ Before(u, j, a) <= Before(u, k, a) <=> j <= k
           /\ Before(u, j, a) < Before(u, k, a) <=> j < k
           /\ u = a => Before(u, k, a) >= 1
           /\ Before(u, k, a) \in Nat
  BY DEF Before

\* The write w tells its document its e-mail, or nothing.
Tells(w) ==
    /\ \A u \in Account : docs[u] # NoDocument => docs'[u] # NoDocument
    /\ w.kind = "new" => w.uid # auth \/ docs'[w.uid] # NoDocument
    /\ \A u \in Account : docs'[u] # NoDocument =>
          \/ docs'[u] = docs[u] /\ ~(w.kind = "email" /\ u = w.uid)
          \/ u = w.uid /\ docs'[u].email = w.email

\* A write that is answered leaves the addresses agreeing.
LEMMA HeadEmails ==
    ASSUME Accounted, Emails, auth \in Account, queue[auth] # <<>>,
           NEW w \in PendingWrite, w = queue[auth][1], 1 \in DOMAIN queue[auth],
           queue' = Sent(queue, auth), ToldOf(work, work', w), Tells(w),
           login' = login, changes' = changes, apart' = apart
    PROVE  Emails'
  <1> SUFFICES ASSUME NEW u \in Registered', u \notin apart' PROVE EmailInv(u)'
    BY DEF Emails
  <1>1. u \in Registered \ apart /\ u \in Account
    BY DEF Registered
  <1>2. EmailInv(u)
    BY <1>1 DEF Emails
  <1>3. AccountTypes /\ EmailsOwn /\ OneCreator
    BY DEF Accounted, Counted
  <1>4. Moved1
    BY <1>3, HeadMoved
  <1>5. /\ \A k : EmailAt(u, k)' =>
             /\ EmailAt(u, Before(u, k, auth)) /\ queue'[u][k].email = queue[u][Before(u, k, auth)].email
             /\ k \in Nat
        /\ \A j : EmailAt(u, j) /\ ~(u = auth /\ j = 1) =>
             \E k : EmailAt(u, k)' /\ j = Before(u, k, auth)
    BY <1>1, <1>4 DEF Moved1
  <1>6. /\ \A v \in Account : \A k : NewAt(v, k, u)' =>
             /\ NewAt(v, Before(v, k, auth), u)
             /\ queue'[v][k].email = queue[v][Before(v, k, auth)].email
             /\ k \in Nat
        /\ \A v \in Account : \A j : NewAt(v, j, u) /\ ~(v = auth /\ j = 1) =>
             \E k : NewAt(v, k, u)' /\ j = Before(v, k, auth)
    BY <1>1, <1>4 DEF Moved1
  <1>7. \A k : EmailAt(u, k) \/ NewAt(u, k, u) => k \in Nat /\ k >= 1
    <2>1. Len(queue[u]) \in Nat /\ DOMAIN queue[u] = 1..Len(queue[u])
      BY <1>1, <1>3, QueueElements DEF AccountTypes
    <2> QED
      BY <2>1 DEF EmailAt, NewAt
  <1>8. EmailAt(auth, 1) <=> w.kind = "email"
    BY DEF EmailAt
  <1>9. w.kind = "email" => w.uid = auth
    BY <1>3 DEF EmailsOwn
  <1>10. SameChanges(u)
    BY ChangesSame
  <1>11. (\A a : Agree(u, a) => Agree(u, a)') /\ (NoChange(u) => NoChange(u)') /\ OneSession(u)'
    BY <1>2, <1>10, AgreeKept DEF EmailInv
  <1>12. \A k : LastEmail(u, k)' =>
            LastEmail(u, Before(u, k, auth)) /\ queue'[u][k].email = queue[u][Before(u, k, auth)].email
    <2>1. SUFFICES ASSUME NEW k, LastEmail(u, k)'
                   PROVE  \A j : EmailAt(u, j) => j <= Before(u, k, auth)
      BY <1>5 DEF LastEmail
    <2>2. k \in Nat /\ EmailAt(u, Before(u, k, auth))
      BY <1>5, <2>1 DEF LastEmail
    <2>3. SUFFICES ASSUME NEW j, EmailAt(u, j) PROVE j <= Before(u, k, auth)
      OBVIOUS
    <2>4. CASE u = auth /\ j = 1
      BY <2>2, <2>4, BeforeKeepsOrder
    <2>5. CASE ~(u = auth /\ j = 1)
      <3>1. PICK i : EmailAt(u, i)' /\ j = Before(u, i, auth)
        BY <1>5, <2>3, <2>5
      <3>2. i \in Nat /\ i <= k
        BY <1>5, <2>1, <3>1 DEF LastEmail
      <3> QED
        BY <2>2, <3>1, <3>2, BeforeKeepsOrder
    <2> QED
      BY <2>4, <2>5
  <1>13. NoEmail(u) => NoEmail(u)'
    BY <1>5 DEF NoEmail
  <1>14. NoEmail(u)' => NoEmail(u) \/ (w.kind = "email" /\ u = auth /\ LastEmail(u, 1))
    <2>1. SUFFICES ASSUME NoEmail(u)', ~NoEmail(u)
                   PROVE  w.kind = "email" /\ u = auth /\ LastEmail(u, 1)
      OBVIOUS
    <2>2. \A j : EmailAt(u, j) => u = auth /\ j = 1
      BY <1>5, <2>1 DEF NoEmail
    <2> QED
      BY <1>8, <2>1, <2>2 DEF NoEmail, LastEmail
  <1>15. EmailAgrees(u)'
    <2>1. SUFFICES ASSUME NEW k, LastEmail(u, k)' PROVE Agree(u, queue[u][k].email)'
      BY DEF EmailAgrees
    <2>2. PICK a : a = queue'[u][k].email
      OBVIOUS
    <2>3. Agree(u, a)
      BY <1>2, <1>12, <2>1, <2>2 DEF EmailInv, EmailAgrees
    <2>4. Agree(u, a)'
      BY <1>11, <2>3
    <2> QED
      BY <2>2, <2>4 DEF Agree
  <1>16. EmailsFollow(u)'
    <2>1. SUFFICES ASSUME NEW j, EmailAt(u, j)', docs'[u] = NoDocument
                   PROVE  \E k : NewAt(u, k, u)' /\ k < j
      BY DEF EmailsFollow
    <2>2. docs[u] = NoDocument /\ j \in Nat /\ EmailAt(u, Before(u, j, auth))
      BY <1>1, <1>5, <2>1 DEF Tells
    <2>3. PICK i : NewAt(u, i, u) /\ i < Before(u, j, auth)
      BY <1>2, <2>2 DEF EmailInv, EmailsFollow
    <2>4. ~(u = auth /\ i = 1)
      BY <2>1, <2>3 DEF Tells, NewAt
    <2>5. PICK k : NewAt(u, k, u)' /\ i = Before(u, k, auth)
      BY <1>1, <1>6, <2>3, <2>4
    <2>6. k \in Nat
      BY <1>1, <1>6, <2>5
    <2> QED
      BY <2>2, <2>3, <2>5, <2>6, BeforeKeepsOrder
  <1>17. \A v \in Account : \A k : NewAt(v, k, u) => docs[u] = NoDocument
    BY <1>1, <1>3 DEF OneCreator, NewAt
  <1>18. docs[u] = NoDocument => ~LastEmail(u, 1)
    BY <1>2, <1>7 DEF EmailInv, EmailsFollow, LastEmail
  <1>19. NewAgrees(u)'
    <2>1. SUFFICES ASSUME NEW v \in Account, NEW k, NewAt(v, k, u)'
                   PROVE  /\ NoEmail(u)' => Agree(u, queue[v][k].email)'
                          /\ v # u => NoEmail(u)' /\ NoChange(u)'
      BY DEF NewAgrees
    <2>2. PICK a : a = queue'[v][k].email
      OBVIOUS
    <2>3. PICK i : NewAt(v, i, u) /\ a = queue[v][i].email
      BY <1>6, <2>1, <2>2
    <2>4. NoEmail(u)' => NoEmail(u)
      BY <1>14, <1>17, <1>18, <2>3
    <2>5. /\ NoEmail(u) => Agree(u, a)
          /\ v # u => NoEmail(u) /\ NoChange(u)
      BY <1>2, <2>3 DEF EmailInv, NewAgrees
    <2>6. Agree(u, a)' => Agree(u, queue[v][k].email)'
      BY <2>2 DEF Agree
    <2> QED
      BY <1>11, <1>13, <2>4, <2>5, <2>6
  <1>20. CreatorAgrees(u)'
    <2>1. \A i : Creating(i)' => Creating(i) /\ work'[i] = work[i]
      BY DEF ToldOf, AllButOne, Creating
    <2> QED
      BY <1>2, <1>11, <1>13, <2>1 DEF EmailInv, CreatorAgrees
  <1>21. DocumentAgrees(u)'
    <2>1. SUFFICES ASSUME docs'[u] # NoDocument, NoEmail(u)' PROVE Agree(u, docs[u].email)'
      BY DEF DocumentAgrees
    <2>2. PICK a : a = docs'[u].email
      OBVIOUS
    <2>3. Agree(u, a)' => Agree(u, docs[u].email)'
      BY <2>2 DEF Agree
    <2>4. CASE docs'[u] = docs[u] /\ ~(w.kind = "email" /\ u = w.uid)
      <3>1. NoEmail(u)
        BY <1>9, <1>14, <2>1, <2>4
      <3>2. Agree(u, a)
        BY <1>2, <2>1, <2>2, <2>4, <3>1 DEF EmailInv, DocumentAgrees
      <3> QED
        BY <1>11, <2>3, <3>2
    <2>5. CASE u = w.uid /\ docs'[u].email = w.email
      <3>1. CASE w.kind = "new"
        <4>1. NoEmail(u) /\ NewAt(auth, 1, u)
          BY <1>14, <2>1, <2>5, <3>1 DEF NewAt
        <4>2. Agree(u, a)
          BY <1>2, <2>2, <2>5, <4>1 DEF EmailInv, NewAgrees
        <4> QED
          BY <1>11, <2>3, <4>2
      <3>2. CASE w.kind = "email"
        <4>1. u = auth /\ EmailAt(u, 1)
          BY <1>8, <1>9, <2>5, <3>2
        <4>2. LastEmail(u, 1)
          BY <1>14, <2>1, <4>1 DEF NoEmail
        <4>3. Agree(u, a)
          BY <1>2, <2>2, <2>5, <4>1, <4>2 DEF EmailInv, EmailAgrees
        <4> QED
          BY <1>11, <2>3, <4>3
      <3> QED
        BY <3>1, <3>2 DEF PendingWrite
    <2> QED
      BY <1>1, <2>1, <2>4, <2>5 DEF Tells
  <1> QED
    BY <1>11, <1>15, <1>16, <1>19, <1>20, <1>21 DEF EmailInv

\* So every write answered does.
LEMMA WriteEmails ==
    ASSUME Accounted, Emails, SendWrite \/ RefuseWrite
    PROVE  Emails'
  <1>w. AccountTypes /\ Waiting /\ EmailsOwn
    BY DEF Accounted, Counted
  <1> DEFINE w == Head(queue[auth])
  <1>1. ASSUME SendWrite PROVE Emails'
    <2>1. /\ auth \in Account /\ queue[auth] # <<>> /\ w \in PendingWrite /\ w = queue[auth][1]
          /\ 1 \in DOMAIN queue[auth] /\ queue' = Sent(queue, auth) /\ ToldOf(work, work', w)
          /\ Applied(w) /\ login' = login /\ changes' = changes /\ apart' = apart
      BY <1>w, <1>1, SendWriteDoes
    <2> HIDE DEF w
    <2>2. /\ w.kind \in {"new", "email"} /\ w.uid \in Account
          /\ Written(w) # NoDocument /\ Written(w).email = w.email
      BY <2>1, WrittenType DEF PendingWrite
    <2>3. Tells(w)
      BY <2>1, <2>2 DEF Applied, Tells
    <2> QED
      BY <2>1, <2>3, HeadEmails
  <1>2. ASSUME RefuseWrite PROVE Emails'
    <2>1. /\ auth \in Account /\ queue[auth] # <<>> /\ w \in PendingWrite /\ w = queue[auth][1]
          /\ 1 \in DOMAIN queue[auth] /\ queue' = Sent(queue, auth) /\ ToldOf(work, work', w)
          /\ login' = login /\ changes' = changes /\ apart' = apart /\ docs' = docs
          /\ w.uid # auth
      BY <1>w, <1>2, RefuseWriteDoes
    <2> HIDE DEF w
    <2>2. w.kind # "email"
      BY <1>w, <2>1 DEF EmailsOwn
    <2>3. Tells(w)
      BY <2>1, <2>2 DEF Tells
    <2> QED
      BY <2>1, <2>3, HeadEmails
  <1> QED
    BY <1>1, <1>2

\* The numbers to m are those to m - 1 and m.
LEMMA OneMore == ASSUME NEW m \in Nat \ {0}, NEW k PROVE k \in 1..m <=> k \in 1..(m - 1) \/ k = m
  OBVIOUS

\* A change begins: the document's e-mail is queued and the login's is asked for.
LEMMA ChangeEmails ==
    ASSUME Accounted, Emails, NEW a \in Address, ChangeEmail(a)
    PROVE  Emails'
  <1> DEFINE r == EmailWrite(a)
             c == ChangeTo(a)
             n == Len(queue[auth]) + 1
             m == Len(changes) + 1
  <1>1. AccountTypes /\ OneCreator
    BY DEF Accounted, Counted
  <1>2. /\ auth \in Account /\ r \in PendingWrite /\ queue' = Queued(queue, auth, r)
        /\ c \in ChangeOf /\ changes' = Append(changes, c)
        /\ apart' = IF \/ Seen(auth) = NoDocument
                       \/ \E k \in DOMAIN changes :
                             changes[k].uid = auth /\ changes[k].session # session
                    THEN apart \cup {auth} ELSE apart
        /\ docs' = docs /\ login' = login /\ work' = work
    BY <1>1, ChangeEmailDoes
  <1>3. /\ r.kind = "email" /\ r.uid = auth /\ r.email = a
        /\ c.uid = auth /\ c.email = a /\ c.session = session
    BY DEF EmailWrite, ChangeTo
  <1>4. queue \in Queues /\ changes \in Seq(ChangeOf)
    BY <1>1 DEF AccountTypes, Changes
  <1> HIDE DEF r, c
  <1>5. Longer(queue, queue', auth, r, n)
    BY <1>2, <1>4, QueueAppended
  <1> HIDE DEF n
  <1>6. /\ \A v \in Account : v # auth => queue'[v] = queue[v]
        /\ \A k : k \in DOMAIN queue'[auth] <=> k \in DOMAIN queue[auth] \/ k = n
        /\ queue'[auth][n] = r /\ n \notin DOMAIN queue[auth]
        /\ \A k \in DOMAIN queue[auth] : queue'[auth][k] = queue[auth][k] /\ k < n
    BY <1>5 DEF Longer
  <1>7. \A v \in Account : \A k : k \in DOMAIN queue'[v] =>
           \/ k \in DOMAIN queue[v] /\ queue'[v][k] = queue[v][k]
           \/ v = auth /\ k = n /\ queue'[v][k] = r
    BY <1>6
  <1>8. \A v \in Account : \A k \in DOMAIN queue[v] :
           k \in DOMAIN queue'[v] /\ queue'[v][k] = queue[v][k]
    BY <1>6
  <1>9. /\ m \in Nat \ {0} /\ DOMAIN changes = 1..(m - 1) /\ DOMAIN changes' = 1..m
        /\ \A k \in 1..(m - 1) : changes'[k] = changes[k]
        /\ changes'[m] = c
    <2>1. /\ Len(changes) \in Nat /\ DOMAIN changes = 1..Len(changes)
          /\ DOMAIN changes' = 1..(Len(changes) + 1)
          /\ \A k \in 1..Len(changes) : changes'[k] = changes[k]
          /\ changes'[Len(changes) + 1] = c
      BY <1>2, <1>4, Appended
    <2>2. m \in Nat \ {0} /\ m - 1 = Len(changes)
      BY <2>1
    <2> QED
      BY <2>1, <2>2
  <1> HIDE DEF m
  <1>10. \A k : k \in DOMAIN changes' <=> k \in DOMAIN changes \/ k = m
    BY <1>9, OneMore
  <1>11. \A k \in DOMAIN changes : changes'[k] = changes[k] /\ k < m
    BY <1>9
  <1>12. \A u \in Account : NoMoreNew(u)
    BY <1>3, <1>7 DEF NoMoreNew, NewAt
  <1>13. \A u : NoMoreCreators(u)
    BY <1>2 DEF NoMoreCreators, Creating
  <1>14. SUFFICES ASSUME NEW u \in Registered', u \notin apart' PROVE EmailInv(u)'
    BY DEF Emails
  <1>15. u \in Registered \ apart /\ u \in Account
    BY <1>2, <1>14 DEF Registered
  <1>16. EmailInv(u)
    BY <1>15 DEF Emails
  <1>17. CASE u # auth
    <2>1. queue'[u] = queue[u]
      BY <1>6, <1>15, <1>17
    <2>2. SameEmails(u)
      BY <2>1 DEF SameEmails, EmailAt
    <2>3. EmailsFollow(u)'
      <3>1. EmailsFollow(u)
        BY <1>16 DEF EmailInv
      <3> QED
        BY <1>2, <2>1, <3>1 DEF EmailsFollow, EmailAt, NewAt
    <2>4. SameChanges(u)
      BY <1>2, <1>3, <1>9, <1>10, <1>11, <1>17 DEF SameChanges, ChangeAt
    <2> QED
      BY <1>2, <1>12, <1>13, <1>15, <1>16, <2>2, <2>3, <2>4, EmailInvKept
  <1>18. CASE u = auth
    <2>1. /\ Seen(u) # NoDocument
          /\ \A k \in DOMAIN changes : changes[k].uid = u => changes[k].session = session
      BY <1>2, <1>14, <1>18
    <2>2. OneSession(u)'
      BY <1>3, <1>9, <1>10, <1>11, <2>1 DEF OneSession, ChangeAt
    <2>3. ~NoChange(u)'
      <3>1. PICK k : k = m
        OBVIOUS
      <3>2. ChangeAt(u, k)'
        BY <1>3, <1>9, <1>10, <1>18, <3>1 DEF ChangeAt
      <3> QED
        BY <3>2 DEF NoChange
    <2>4. \A k : LastChange(u, k)' => k = m
      <3>1. SUFFICES ASSUME NEW k, LastChange(u, k)', k # m PROVE FALSE
        OBVIOUS
      <3>2. k \in DOMAIN changes' /\ \A j : ChangeAt(u, j)' => j <= k
        BY <3>1 DEF LastChange, ChangeAt
      <3>3. k < m /\ k \in Nat
        BY <1>9, <1>10, <1>11, <3>1, <3>2
      <3>4. PICK j : j = m
        OBVIOUS
      <3>5. ChangeAt(u, j)'
        BY <1>3, <1>9, <1>10, <1>18, <3>4 DEF ChangeAt
      <3>6. m <= k
        BY <3>2, <3>4, <3>5
      <3> QED
        BY <1>9, <3>3, <3>6
    <2>5. Agree(u, a)'
      BY <1>3, <1>9, <2>3, <2>4 DEF Agree
    <2>6. PICK p : p = n
      OBVIOUS
    <2>7. EmailAt(u, p)'
      BY <1>3, <1>6, <1>18, <2>6 DEF EmailAt
    <2>8. ~NoEmail(u)'
      BY <2>7 DEF NoEmail
    <2>9. \A k : LastEmail(u, k)' => k = p
      <3>1. SUFFICES ASSUME NEW k, LastEmail(u, k)', k # p PROVE FALSE
        OBVIOUS
      <3>2. k \in DOMAIN queue'[u] /\ p <= k
        BY <2>7, <3>1 DEF LastEmail, EmailAt
      <3>3. k \in DOMAIN queue[u] /\ k < p
        BY <1>6, <1>15, <1>18, <2>6, <3>1, <3>2
      <3>4. k \in Nat /\ p \in Nat
        <4>1. Len(queue[u]) \in Nat /\ DOMAIN queue[u] = 1..Len(queue[u])
          BY <1>4, <1>15, QueueElements
        <4>2. n \in Nat
          BY <1>5 DEF Longer
        <4> QED
          BY <2>6, <3>3, <4>1, <4>2
      <3> QED
        BY <3>2, <3>3, <3>4
    <2>10. EmailAgrees(u)'
      <3>1. SUFFICES ASSUME NEW k, LastEmail(u, k)' PROVE Agree(u, queue[u][k].email)'
        BY DEF EmailAgrees
      <3>2. queue'[u][k].email = a
        BY <1>3, <1>6, <1>18, <2>6, <2>9, <3>1
      <3> QED
        BY <2>5, <3>2 DEF Agree
    <2>11. DocumentAgrees(u)'
      BY <2>8 DEF DocumentAgrees
    <2>12. docs[u] # NoDocument \/ \E k : NewAt(u, k, u)
      BY <1>1, <1>15, <1>18, <2>1, SeenType
    <2>13. EmailsFollow(u)'
      <3>1. SUFFICES ASSUME NEW j, EmailAt(u, j)', docs'[u] = NoDocument
                     PROVE  \E k : NewAt(u, k, u)' /\ k < j
        BY DEF EmailsFollow
      <3>2. docs[u] = NoDocument
        BY <1>2, <3>1
      <3>3. \A k : NewAt(u, k, u) => NewAt(u, k, u)'
        BY <1>8, <1>15 DEF NewAt
      <3>4. CASE EmailAt(u, j)
        BY <1>16, <3>2, <3>3, <3>4 DEF EmailInv, EmailsFollow
      <3>5. CASE j = n
        <4>1. PICK k : NewAt(u, k, u)
          BY <2>12, <3>2
        <4>2. k < n
          BY <1>6, <1>18, <4>1 DEF NewAt
        <4> QED
          BY <3>3, <3>5, <4>1, <4>2
      <3> QED
        BY <1>7, <1>15, <3>1, <3>4, <3>5 DEF EmailAt
    <2>14. \A v \in Account : \A k : NewAt(v, k, u) => v = u
      BY <1>1, <1>15, <2>12 DEF OneCreator, NewAt
    <2>15. NewAgrees(u)'
      BY <1>12, <1>15, <2>8, <2>14 DEF NewAgrees, NoMoreNew
    <2>16. CreatorAgrees(u)'
      <3>1. \A t : ~(Creating(t) /\ work[t].uid = u)
        BY <1>1, <1>15, <2>12 DEF OneCreator, Creating, NewAt
      <3> QED
        BY <1>13, <3>1 DEF CreatorAgrees, NoMoreCreators
    <2> QED
      BY <2>2, <2>10, <2>11, <2>13, <2>15, <2>16 DEF EmailInv
  <1> QED
    BY <1>17, <1>18

-----------------------------------------------------------------------------
\* Steps that leave the queues and documents alone.
LEMMA EmailsOfChanges ==
    ASSUME NEW u, EmailInv(u), queue' = queue, docs' = docs, work' = work,
           OneSession(u)', \A a : Agree(u, a) => Agree(u, a)',
           NoChange(u) => NoChange(u)' /\ login'[u] = login[u]
    PROVE  EmailInv(u)'
  <1>1. NoEmail(u)' <=> NoEmail(u)
    BY DEF NoEmail, EmailAt
  <1>2. \A k : LastEmail(u, k)' <=> LastEmail(u, k)
    BY DEF LastEmail, EmailAt
  <1>3. \A v, k : NewAt(v, k, u)' <=> NewAt(v, k, u)
    BY DEF NewAt
  <1>4. EmailsFollow(u)'
    BY DEF EmailInv, EmailsFollow, EmailAt, NewAt
  <1>5. DocumentAgrees(u)'
    <2>1. PICK a : a = docs[u].email
      OBVIOUS
    <2>2. Agree(u, a)' => Agree(u, docs[u].email)'
      BY <2>1 DEF Agree
    <2> QED
      BY <1>1, <2>1, <2>2 DEF EmailInv, DocumentAgrees
  <1>6. EmailAgrees(u)'
    <2>1. SUFFICES ASSUME NEW k, LastEmail(u, k)' PROVE Agree(u, queue[u][k].email)'
      BY DEF EmailAgrees
    <2>2. PICK a : a = queue[u][k].email
      OBVIOUS
    <2>3. Agree(u, a)' => Agree(u, queue[u][k].email)'
      BY <2>2 DEF Agree
    <2> QED
      BY <1>2, <2>1, <2>2, <2>3 DEF EmailInv, EmailAgrees
  <1>7. NewAgrees(u)'
    <2>1. SUFFICES ASSUME NEW v \in Account, NEW k, NewAt(v, k, u)'
                   PROVE  /\ NoEmail(u)' => Agree(u, queue[v][k].email)'
                          /\ v # u => NoEmail(u)' /\ NoChange(u)'
      BY DEF NewAgrees
    <2>2. PICK a : a = queue[v][k].email
      OBVIOUS
    <2>3. Agree(u, a)' => Agree(u, queue[v][k].email)'
      BY <2>2 DEF Agree
    <2> QED
      BY <1>1, <1>3, <2>1, <2>2, <2>3 DEF EmailInv, NewAgrees
  <1>8. CreatorAgrees(u)'
    BY <1>1 DEF EmailInv, CreatorAgrees, Creating
  <1> QED
    BY <1>4, <1>5, <1>6, <1>7, <1>8 DEF EmailInv

\* The changes behind the one answered keep their order.
LEMMA SkipKeepsOrder ==
    ASSUME NEW i \in Nat, NEW j \in Nat, NEW k \in Nat
    PROVE  /\ i <= j => Skip(i, k) <= Skip(j, k)
           /\ Skip(j, k) \in Nat
  BY DEF Skip

\* A change is answered: those of one session in the order they were asked for.
LEMMA AnswerChangeEmails ==
    ASSUME Accounted, Emails, NEW k \in DOMAIN changes, AnswerChange(k)
    PROVE  Emails'
  <1> DEFINE c == changes[k]
  <1>1. AccountTypes /\ Known
    BY DEF Accounted, Counted
  <1>2. /\ c \in ChangeOf /\ FirstOfSession(k)
        /\ Without1(changes, changes', k) /\ k \in Nat /\ DOMAIN changes' \subseteq Nat
        /\ \/ login' = [login EXCEPT ![c.uid] = c.email] /\ apart' = apart
           \/ login' = login /\ apart' = apart \cup {c.uid}
        /\ docs' = docs /\ queue' = queue /\ work' = work
    BY <1>1, AnswerChangeDoes
  <1>3. c.uid \in Registered /\ c.uid \in Account /\ c.email \in Address
    BY <1>1, <1>2 DEF Known, ChangeOf
  <1>a. \A j \in DOMAIN changes : j \in Nat /\ j >= 1
    BY <1>1 DEF AccountTypes, Changes
  <1>4. \A j \in 1..(k - 1) : changes[j].session # c.session
    BY <1>2 DEF FirstOfSession
  <1>5. \A j \in DOMAIN changes' : Skip(j, k) \in DOMAIN changes \ {k} /\ changes'[j] = changes[Skip(j, k)]
                                   /\ j \in Nat
    BY <1>2 DEF Without1
  <1>6. \A i \in DOMAIN changes \ {k} : \E j \in DOMAIN changes' : i = Skip(j, k)
    BY <1>2 DEF Without1
  <1> SUFFICES ASSUME NEW u \in Registered', u \notin apart' PROVE EmailInv(u)'
    BY DEF Emails
  <1> HIDE DEF c
  <1>7. u \in Registered \ apart /\ u \in Account
    BY <1>1, <1>2, <1>3 DEF Registered, AccountTypes, Logins
  <1>8. EmailInv(u)
    BY <1>7 DEF Emails
  <1>9. \A j : ChangeAt(u, j)' =>
           ChangeAt(u, Skip(j, k)) /\ changes'[j] = changes[Skip(j, k)] /\ j \in Nat /\ Skip(j, k) # k
    BY <1>5 DEF ChangeAt
  <1>10. \A i : ChangeAt(u, i) /\ i # k => \E j : ChangeAt(u, j)' /\ i = Skip(j, k)
    BY <1>5, <1>6 DEF ChangeAt
  <1>11. c = changes[k]
    BY DEF c
  <1>12. OneSession(u)
    BY <1>8 DEF EmailInv
  <1>13. ChangeAt(u, k) => \A i : ChangeAt(u, i) => k <= i
    <2>1. SUFFICES ASSUME ChangeAt(u, k), NEW i, ChangeAt(u, i), ~(k <= i) PROVE FALSE
      OBVIOUS
    <2>2. i \in 1..(k - 1)
      BY <1>2, <1>a, <2>1 DEF ChangeAt
    <2>3. changes[i].session = changes[k].session
      BY <1>12, <2>1 DEF OneSession
    <2> QED
      BY <1>4, <1>11, <2>2, <2>3
  <1>14. \A j : LastChange(u, j)' => LastChange(u, Skip(j, k)) /\ changes'[j] = changes[Skip(j, k)]
    <2>1. SUFFICES ASSUME NEW j, LastChange(u, j)', NEW i, ChangeAt(u, i)
                   PROVE  i <= Skip(j, k)
      BY <1>9 DEF LastChange
    <2>2. ChangeAt(u, Skip(j, k)) /\ j \in Nat
      BY <1>9, <2>1 DEF LastChange
    <2>3. CASE i = k
      BY <1>13, <2>1, <2>2, <2>3
    <2>4. CASE i # k
      <3>1. PICK l : ChangeAt(u, l)' /\ i = Skip(l, k)
        BY <1>10, <2>1, <2>4
      <3>2. l \in Nat /\ l <= j
        BY <1>9, <2>1, <3>1 DEF LastChange
      <3> QED
        BY <1>2, <2>2, <3>1, <3>2, SkipKeepsOrder
    <2> QED
      BY <2>3, <2>4
  <1>15. OneSession(u)'
    BY <1>9, <1>12 DEF OneSession
  <1>16. ChangeAt(u, k) <=> u = c.uid
    BY <1>11 DEF ChangeAt
  <1>17. u # c.uid => login'[u] = login[u]
    BY <1>1, <1>2, <1>7 DEF AccountTypes, Logins
  <1>18. NoChange(u) => NoChange(u)' /\ login'[u] = login[u]
    BY <1>9, <1>16, <1>17 DEF NoChange
  <1>19. \A a : Agree(u, a) => Agree(u, a)'
    <2>1. SUFFICES ASSUME NEW a, Agree(u, a) PROVE Agree(u, a)'
      OBVIOUS
    <2>2. \A j : LastChange(u, j)' => changes'[j].email = a
      BY <1>14, <2>1 DEF Agree
    <2>3. ASSUME NoChange(u)' PROVE login'[u] = a
      <3>1. CASE u # c.uid
        BY <1>10, <1>16, <1>17, <2>1, <2>3, <3>1 DEF Agree, NoChange
      <3>2. CASE u = c.uid
        <4>1. login'[u] = c.email
          BY <1>1, <1>2, <1>7, <3>2 DEF AccountTypes, Logins
        <4>2. \A i : ChangeAt(u, i) => i = k
          BY <1>10, <2>3 DEF NoChange
        <4>3. LastChange(u, k)
          BY <1>2, <1>16, <3>2, <4>2 DEF LastChange
        <4> QED
          BY <1>11, <2>1, <4>1, <4>3 DEF Agree
      <3> QED
        BY <3>1, <3>2
    <2> QED
      BY <2>2, <2>3 DEF Agree
  <1> QED
    BY <1>2, <1>8, <1>15, <1>18, <1>19, EmailsOfChanges

-----------------------------------------------------------------------------
\* What was under way when the process ended is not vouched for.
LEMMA EndEmails ==
    ASSUME Accounted, Emails, End
    PROVE  Emails'
  <1>1. AccountTypes /\ EmailsOwn
    BY DEF Accounted, Counted
  <1>2. /\ CutShort(queue, queue', auth) /\ LossKnown /\ WorkLossKnown
        /\ apart \subseteq apart' /\ DOMAIN work' = {} /\ changes' = <<>>
        /\ login' = login /\ docs' = docs
    BY <1>1, EndDoes
  <1> SUFFICES ASSUME NEW u \in Registered', u \notin apart' PROVE EmailInv(u)'
    BY DEF Emails
  <1>3. u \in Registered \ apart /\ u \in Account
    BY <1>2 DEF Registered
  <1>4. EmailInv(u)
    BY <1>3 DEF Emails
  <1>5. \A v \in Account :
           /\ \A k \in DOMAIN queue'[v] :
                 /\ k \in DOMAIN queue[v] /\ queue'[v][k].kind = queue[v][k].kind
                 /\ queue'[v][k].uid = queue[v][k].uid /\ queue'[v][k].email = queue[v][k].email
           /\ \A k \in DOMAIN queue'[v] : \A j \in DOMAIN queue[v] : j < k => j \in DOMAIN queue'[v]
    BY <1>2 DEF CutShort, SameWrite
  <1>6. \A k \in DOMAIN queue[u] : queue[u][k].kind = "email" => k \in DOMAIN queue'[u]
    BY <1>1, <1>2, <1>3 DEF LossKnown, EmailsOwn
  <1>7. SameEmails(u)
    BY <1>3, <1>5, <1>6 DEF SameEmails, EmailAt
  <1>8. NoMoreNew(u)
    BY <1>5 DEF NoMoreNew, NewAt
  <1>9. NoMoreCreators(u)
    BY <1>2 DEF NoMoreCreators, Creating
  <1>10. SameChanges(u)
    BY <1>2 DEF SameChanges, ChangeAt, WorkLossKnown
  <1>11. EmailsFollow(u)'
    <2>1. SUFFICES ASSUME NEW j, EmailAt(u, j)', docs'[u] = NoDocument
                   PROVE  \E k : NewAt(u, k, u)' /\ k < j
      BY DEF EmailsFollow
    <2>2. EmailAt(u, j) /\ j \in DOMAIN queue'[u]
      BY <1>7, <2>1 DEF SameEmails, EmailAt
    <2>3. PICK k : NewAt(u, k, u) /\ k < j
      BY <1>2, <1>4, <2>1, <2>2 DEF EmailInv, EmailsFollow
    <2>4. k \in DOMAIN queue'[u]
      BY <1>3, <1>5, <2>2, <2>3 DEF NewAt
    <2>5. NewAt(u, k, u)'
      BY <1>3, <1>5, <2>3, <2>4 DEF NewAt
    <2> QED
      BY <2>3, <2>5
  <1> QED
    BY <1>2, <1>3, <1>4, <1>7, <1>8, <1>9, <1>10, <1>11, EmailInvKept

\* The old account's addresses agree at first.
LEMMA EmailsInit == Init => Emails
  <1> SUFFICES ASSUME Init, NEW u \in Registered PROVE EmailInv(u)
    BY DEF Emails
  <1>1. Accounted /\ Known
    BY AccountsInit DEF Accounted, Counted
  <1>2. DOMAIN changes = {} /\ DOMAIN work = {} /\ \A v \in Account : DOMAIN queue[v] = {}
    BY DEF Init
  <1>3. u \in Account /\ u = Old
    BY DEF Init, Registered
  <1>4. login[u] = Mine /\ docs[u].email = Mine /\ docs[u] # NoDocument
    BY <1>3, SignUpAssumption DEF Init, NoDocument
  <1>5. /\ \A k : ~ChangeAt(u, k) /\ ~EmailAt(u, k)
        /\ \A v \in Account : \A k : ~NewAt(v, k, u)
        /\ \A t : ~Creating(t)
    BY <1>2, <1>3 DEF ChangeAt, EmailAt, NewAt, Creating
  <1>6. Agree(u, Mine)
    BY <1>4, <1>5 DEF Agree, LastChange
  <1> QED
    BY <1>4, <1>5, <1>6 DEF EmailInv, OneSession, DocumentAgrees, EmailAgrees, EmailsFollow,
       NewAgrees, CreatorAgrees, LastEmail

\* Every step keeps the addresses agreeing.
LEMMA EmailsStep ==
    ASSUME Accounted, Emails, AccountStep
    PROVE  Emails'
  BY QuietEmails, CreateLoginEmails, UploadEmails, WriteEmails, ChangeEmails, AnswerChangeEmails,
     EndEmails, AccountSteps

\* With no write and no change under way the two addresses are the same.
LEMMA EmailsFit == Accounted /\ Emails => EmailsAgree
  <1> SUFFICES ASSUME Accounted, Emails, NEW u \in Registered \ apart, docs[u] # NoDocument,
                      QueuedFor(u, "email") = {}, \A k \in DOMAIN changes : changes[k].uid # u
               PROVE  docs[u].email = login[u]
    BY DEF EmailsAgree
  <1>1. NoChange(u) /\ u \in Account
    BY DEF NoChange, ChangeAt, Registered
  <1>2. EmailsOwn
    BY DEF Accounted, Counted
  <1>3. NoEmail(u)
    <2>1. SUFFICES ASSUME NEW k \in DOMAIN queue[u], queue[u][k].kind = "email" PROVE FALSE
      BY DEF NoEmail, EmailAt
    <2>2. queue[u][k].uid = u
      BY <1>1, <1>2, <2>1 DEF EmailsOwn
    <2>3. queue[u][k] \in UNION {Range(queue[v]) : v \in Account}
      BY <1>1 DEF Range
    <2> QED
      BY <2>1, <2>2, <2>3 DEF QueuedFor
  <1>4. Agree(u, docs[u].email)
    BY <1>3 DEF Emails, EmailInv, DocumentAgrees
  <1> QED
    BY <1>1, <1>4 DEF Agree

\* In the app the address of the login and that of the document agree when nothing is
\* under way for them.
THEOREM EmailsStayTogether == StartSpec => []EmailsAgree
  <1>1. Accounted /\ Emails /\ [StartNext]_<<account, catalogue>> => Emails'
    BY AccountsNext, EmailsStep
  <1>2. StartInit => Emails
    BY EmailsInit DEF StartInit
  <1>3. StartSpec => []Emails
    BY <1>1, <1>2, AppAccountsInvariant, PTL DEF StartSpec
  <1> QED
    BY <1>3, AppAccountsInvariant, EmailsFit, PTL

\* The same of SignUp alone: registration and updateUserData write the two apart, in
\* two calls that end in either order.
THEOREM SignUpKeepsEmails == Spec => []EmailsAgree
  <1>1. Accounted /\ Emails /\ [Next]_vars => Emails'
    BY AccountsNext, EmailsStep
  <1>2. Spec => []Emails
    BY <1>1, EmailsInit, AccountsInvariant, PTL DEF Spec
  <1> QED
    BY <1>2, AccountsInvariant, EmailsFit, PTL

-----------------------------------------------------------------------------
(* The session: what holds of it whatever overlaps.                        *)

\* A document as this device sees it has the server's challenges.
LEMMA SeenRunning ==
    ASSUME Accounted, NEW u \in Account
    PROVE  Seen(u).running = docs[u].running
  <1>1. AccountTypes /\ OneCreator
    BY DEF Accounted, Counted
  <1>2. CASE Seen(u) = docs[u]
    BY <1>2
  <1>3. CASE auth \in Account /\ \E k : NewAt(auth, k, u) /\ Seen(u) = Written(queue[auth][k])
    <2>1. docs[u] = NoDocument
      BY <1>1, <1>3 DEF OneCreator, NewAt
    <2> QED
      BY <1>3, <2>1 DEF Written, NoDocument
  <1> QED
    BY <1>1, <1>2, <1>3, SeenIs

LoginsDiffer == \A u, v \in Registered : login[u] = login[v] => u = v

\* Only a registration and a change answered touch a login.
LEMMA LoginsChange ==
    ASSUME AccountStep
    PROVE  \/ login' = login
           \/ \E t \in DOMAIN work : CreateLogin(t)
           \/ \E k \in DOMAIN changes : AnswerChange(k)
  <1> USE DEF cloud
  <1>1. CASE UserStep
    BY <1>1 DEF UserStep, OpenPage, GoBack, Complete, SignIn, Begin, ChangeEmail, SignOut
  <1>2. ASSUME NEW t, Answer(t) PROVE login' = login \/ CreateLogin(t)
    BY <1>2 DEF Answer, RefuseLogin, TakeLogin, Upload, AddUser, FinishRegistration,
       AcceptSignIn, RefuseSignIn, AnswerFetch, FinishFetch, LookUp
  <1>3. ASSUME SendWrite \/ RefuseWrite PROVE login' = login
    BY <1>3 DEF SendWrite, RefuseWrite
  <1>4. CASE NetworkStep
    BY <1>2, <1>3, <1>4 DEF NetworkStep
  <1>5. CASE Loss
    BY <1>5 DEF Loss, LoseLogin, LoseUpload, LoseAnswer
  <1>6. CASE End \/ Aside
    BY <1>6 DEF End, Aside
  <1> QED
    BY <1>1, <1>4, <1>5, <1>6 DEF AccountStep

\* Firebase Auth gives no address twice.
LEMMA LoginsStayDifferent ==
    ASSUME Accounted, LoginsDiffer, AccountStep
    PROVE  LoginsDiffer'
  <1>1. AccountTypes /\ login \in Logins /\ Known /\ Numbered
    BY DEF Accounted, Counted, AccountTypes
  <1>2. CASE login' = login
    BY <1>2 DEF LoginsDiffer, Registered
  <1>3. ASSUME NEW t \in DOMAIN work, CreateLogin(t) PROVE LoginsDiffer'
    <2> DEFINE x == work'[t].uid
               a == work[t].address
    <2>1. /\ x \in Account /\ Holder(a) = {} /\ login' = [login EXCEPT ![x] = a]
          /\ x = Cardinality(Registered) + 1 /\ a \in Address
      BY <1>1, <1>3, CreateLoginDoes, WorkOf
    <2> HIDE DEF x, a
    <2>2. Registered' = Registered \cup {x} /\ x \notin Registered
      BY <1>1, <2>1, NextAccount
    <2>3. \A u \in Registered : login'[u] = login[u] /\ login[u] # a
      BY <1>1, <2>1, <2>2 DEF Holder, Registered, Logins
    <2>4. login'[x] = a
      BY <1>1, <2>1 DEF Logins
    <2> QED
      BY <2>2, <2>3, <2>4 DEF LoginsDiffer
  <1>4. ASSUME NEW k \in DOMAIN changes, AnswerChange(k) PROVE LoginsDiffer'
    <2> DEFINE c == changes[k]
    <2>1. /\ c \in ChangeOf
          /\ \/ Holder(c.email) \subseteq {c.uid} /\ login' = [login EXCEPT ![c.uid] = c.email]
             \/ login' = login
      BY <1>1, <1>4, AnswerChangeDoes
    <2>2. c.uid \in Registered /\ c.uid \in Account /\ c.email \in Address
      BY <1>1, <2>1 DEF Known, ChangeOf
    <2> HIDE DEF c
    <2>3. CASE Holder(c.email) \subseteq {c.uid} /\ login' = [login EXCEPT ![c.uid] = c.email]
      <3>1. \A u \in Account : login'[u] = IF u = c.uid THEN c.email ELSE login[u]
        BY <1>1, <2>2, <2>3 DEF Logins
      <3>2. \A u \in Registered' : u # c.uid => u \in Registered /\ login[u] # c.email
        BY <2>3, <3>1 DEF Registered, Holder
      <3>3. \A u \in Registered' : u \in Account
        BY DEF Registered
      <3> QED
        BY <3>1, <3>2, <3>3 DEF LoginsDiffer
    <2> QED
      BY <1>2, <2>1, <2>3
  <1> QED
    BY <1>2, <1>3, <1>4, LoginsChange

-----------------------------------------------------------------------------
Loaded == model.loaded =>
    /\ model.uid # Nobody /\ Range(model.list) = docs[model.uid].running
    /\ IsInjective(model.list)

\* What a piece of work may be and know at its stage.
ChainAt(t) ==
    /\ work[t].stage \in {"creating", "created", "uploading", "writing", "written"}
          => work[t].kind = "register"
    /\ work[t].stage = "signing" => work[t].kind = "signin"
    /\ work[t].shown => page \in {"login", "details"}
    /\ work[t].current => work[t].stage \in {"fetching", "looking"} /\ work[t].uid = model.uid
    /\ work[t].stage = "looking" =>
          Range(work[t].list) \cup work[t].left = docs[work[t].uid].running

Chains == \A t \in DOMAIN work : ChainAt(t)

\* The work i goes on as it was, but may be hidden or lose its model.
Carries(i) ==
    /\ i \in DOMAIN work /\ SameChain(work[i], work'[i])
    /\ work'[i].shown => work[i].shown /\ page' = page
    /\ work'[i].current => work[i].current /\ model'.uid = model.uid

\* A chain that goes on as it was is what it may be at its stage.
LEMMA ChainCarried ==
    ASSUME AccountTypes, Kept, NEW i, Carries(i), ChainAt(i)
    PROVE  ChainAt(i)'
  <1>1. work[i].stage = "looking" => work[i].uid \in Account
    BY WorkOf DEF Carries, Early
  <1>2. work[i].stage = "looking" => docs'[work[i].uid].running = docs[work[i].uid].running
    BY <1>1 DEF Kept
  <1> QED
    BY <1>2 DEF Carries, SameChain, ChainAt

\* So are all, if those that move are.
LEMMA ChainsCarried ==
    ASSUME AccountTypes, Kept, Chains, \A i \in DOMAIN work' : Carries(i) \/ ChainAt(i)'
    PROVE  Chains'
  <1> SUFFICES ASSUME NEW i \in DOMAIN work' PROVE ChainAt(i)'
    BY DEF Chains
  <1>1. ASSUME Carries(i) PROVE ChainAt(i)'
    BY <1>1, ChainCarried DEF Carries, Chains
  <1> QED
    BY <1>1

\* Pages hide what was under way.
LEMMA PagesHide ==
    ASSUME Accounted, Chains,
           GoBack \/ SignOut \/ \E p \in {"login", "details"} : OpenPage(p)
    PROVE  /\ \A i \in DOMAIN work' : ~work'[i].shown
           /\ auth' = auth \/ page = "home"
  <1>1. CASE GoBack \/ SignOut
    <2>1. work' = Hidden(work) /\ (auth' = auth \/ page = "home")
      BY <1>1 DEF GoBack, SignOut, identity
    <2>2. WorkTypes(work)
      BY DEF Accounted, AccountTypes
    <2> QED
      BY <2>1, <2>2, WorkHidden
  <1>2. CASE \E p \in {"login", "details"} : OpenPage(p)
    <2>1. work' = work /\ page = "intro" /\ auth' = auth
      BY <1>2 DEF OpenPage, identity
    <2>2. \A i \in DOMAIN work : work[i].shown \in BOOLEAN
      BY WorkOf DEF Accounted
    <2> QED
      BY <2>1, <2>2 DEF Chains, ChainAt
  <1> QED
    BY <1>1, <1>2

\* One piece of work moves and the others do not.
LEMMA OthersCarried ==
    ASSUME NEW t, AllButOne(work, work', t), page' = page, model' = model
    PROVE  \A i \in DOMAIN work' : i # t => Carries(i)
  BY DEF AllButOne, Carries, SameChain

\* Work ends and the rest goes on.
LEMMA RestCarried ==
    ASSUME NEW t, Dropped(work, work', t), page' = page, model' = model
    PROVE  \A i \in DOMAIN work' : Carries(i)
  BY DEF Dropped, Carries, SameChain

\* The work that moves: with the page and the model as they were.
LEMMA MovedChain ==
    ASSUME NEW t \in DOMAIN work, ChainAt(t), SameTap(work[t], work'[t]), page' = page, model' = model,
           work[t].stage \notin {"fetching", "looking"},
           work[t].kind = "register", work'[t].stage \notin {"signing", "looking"}
    PROVE  ChainAt(t)'
  BY DEF ChainAt, SameTap

\* A fetch begun: its model is the global one, and no other's is.
LEMMA FetchChains ==
    ASSUME Accounted, Chains, Kept, NEW t \in DOMAIN work, FinishRegistration(t) \/ AcceptSignIn(t)
    PROVE  Chains'
  <1>1. AccountTypes
    BY DEF Accounted
  <1>2. /\ FetchBegun(work, work', t, auth') /\ page' = page /\ model' = NewModel(auth')
    BY <1>1, FetchBegins
  <1>3. model'.uid = auth'
    BY <1>2 DEF NewModel
  <1>4. \A i \in DOMAIN work' : i # t => Carries(i)
    BY <1>2 DEF FetchBegun, Carries
  <1>5. /\ work'[t].stage = "fetching" /\ work'[t].uid = auth' /\ work'[t].shown = work[t].shown
        /\ ChainAt(t)
    BY <1>2 DEF FetchBegun, Chains
  <1>6. ChainAt(t)'
    BY <1>2, <1>3, <1>5 DEF ChainAt
  <1> QED
    BY <1>1, <1>4, <1>6, ChainsCarried

\* A document arrives.
LEMMA AnswerChains ==
    ASSUME Accounted, Chains, Kept, NEW t \in DOMAIN work, AnswerFetch(t)
    PROVE  Chains'
  <1>1. AccountTypes
    BY DEF Accounted
  <1> DEFINE d == Seen(work[t].uid)
  <1>2. /\ AllButOne(work, work', t)
        /\ work[t].stage = "fetching" /\ work'[t].stage = "looking"
        /\ work[t].uid \in Account /\ work'[t].uid = work[t].uid /\ SameTap(work[t], work'[t])
        /\ work'[t].left = d.running /\ work'[t].list = <<>>
        /\ docs' = docs /\ page' = page /\ model' = model
    BY <1>1, AnswerFetchDoes
  <1>3. d.running = docs[work[t].uid].running
    BY <1>2, SeenRunning
  <1>4. Range(work'[t].list) = {}
    BY <1>2 DEF Range
  <1>5. ChainAt(t)
    BY DEF Chains
  <1>6. ChainAt(t)'
    BY <1>2, <1>3, <1>4, <1>5 DEF ChainAt, SameTap
  <1> QED
    BY <1>1, <1>2, <1>6, OthersCarried, ChainsCarried

\* A look-up is answered.
LEMMA LookUpChains ==
    ASSUME Accounted, Chains, Kept, NEW t \in DOMAIN work, NEW c, LookUp(t, c)
    PROVE  Chains'
  <1>1. AccountTypes
    BY DEF Accounted
  <1>2. /\ AllButOne(work, work', t) /\ c \in work[t].left
        /\ work[t].stage = "looking" /\ work'[t].stage = "looking"
        /\ work'[t].uid = work[t].uid /\ SameTap(work[t], work'[t])
        /\ work'[t].left = work[t].left \ {c}
        /\ Range(work'[t].list) = Range(work[t].list) \cup {c}
        /\ docs' = docs /\ page' = page /\ model' = model
    BY <1>1, LookUpDoes
  <1>5. ChainAt(t)
    BY DEF Chains
  <1>6. ChainAt(t)'
    BY <1>2, <1>5 DEF ChainAt, SameTap
  <1> QED
    BY <1>1, <1>2, <1>6, OthersCarried, ChainsCarried

\* A fetch is finished.
LEMMA FinishChains ==
    ASSUME Accounted, Chains, Kept, NEW t \in DOMAIN work, FinishFetch(t)
    PROVE  Chains'
  <1>1. AccountTypes
    BY DEF Accounted
  <1>2. /\ Finished(work, work', t)
        /\ model' = IF work[t].current
                       THEN [model EXCEPT !.loaded = TRUE, !.list = work[t].list] ELSE model
        /\ page' = IF work[t].shown THEN "home" ELSE page
    BY <1>1, FinishFetchDoes
  <1>3. model'.uid = model.uid
    <2>1. model \in ModelOf
      BY <1>1 DEF AccountTypes
    <2> QED
      BY <1>2, <2>1 DEF ModelOf
  <1>4. \A i \in DOMAIN work' : Carries(i)
    BY <1>2, <1>3 DEF Finished, Carries
  <1> QED
    BY <1>1, <1>4, ChainsCarried

\* A tap.
LEMMA BeginChains ==
    ASSUME Accounted, Chains, Kept, NEW kind \in {"register", "signin"}, NEW a \in Address,
           Begin(kind, a), error' = error \/ error' = FALSE,
           page = (IF kind = "register" THEN "details" ELSE "login")
    PROVE  Chains'
  <1>1. AccountTypes
    BY DEF Accounted
  <1>2. error' \in BOOLEAN
    BY <1>1 DEF AccountTypes
  <1>3. Tap(work, work', taps', kind, a) /\ page' = page /\ model' = model
    BY <1>1, <1>2, BeginDoes
  <1> DEFINE t == taps'
  <1> HIDE DEF t
  <1>4. Tap(work, work', t, kind, a)
    BY <1>3 DEF t
  <1>5. \A i \in DOMAIN work' : i # t => Carries(i)
    BY <1>3, <1>4 DEF Tap, Carries, SameChain
  <1>6. /\ work'[t].stage = (IF kind = "register" THEN "creating" ELSE "signing")
        /\ work'[t].kind = kind /\ work'[t].current = FALSE
    BY <1>4 DEF Tap, Tapped
  <1>7. \A i \in DOMAIN work' : i = t => ChainAt(i)'
    BY <1>3, <1>6 DEF ChainAt
  <1> QED
    BY <1>1, <1>5, <1>7, ChainsCarried

\* A write is answered.
LEMMA TellChains ==
    ASSUME Accounted, Chains, Kept, SendWrite \/ RefuseWrite
    PROVE  Chains'
  <1>1. AccountTypes /\ Waiting
    BY DEF Accounted, Counted
  <1> DEFINE w == Head(queue[auth])
  <1>2. ToldOf(work, work', w) /\ page' = page /\ model' = model
    BY <1>1, SendWriteDoes, RefuseWriteDoes
  <1> DEFINE t == w.tap
  <1> HIDE DEF w
  <1>3. /\ AllButOne(work, work', t)
        /\ t \in DOMAIN work =>
              /\ work[t].stage = "writing" /\ work'[t].stage = "written" /\ SameTap(work[t], work'[t])
    BY <1>2 DEF ToldOf
  <1> HIDE DEF t
  <1>4. \A i \in DOMAIN work' : i # t => Carries(i)
    BY <1>2, <1>3, OthersCarried
  <1>5. t \in DOMAIN work => ChainAt(t) /\ work[t].kind = "register"
    BY <1>3 DEF Chains, ChainAt
  <1>6. \A i \in DOMAIN work' : i = t => ChainAt(i)'
    <2>1. SUFFICES ASSUME NEW i \in DOMAIN work', i = t PROVE ChainAt(i)'
      OBVIOUS
    <2>2. /\ i \in DOMAIN work /\ work[i].stage = "writing" /\ work'[i].stage = "written"
          /\ SameTap(work[i], work'[i]) /\ ChainAt(i) /\ work[i].kind = "register"
      BY <1>3, <1>5, <2>1 DEF AllButOne
    <2> QED
      BY <1>2, <2>2, MovedChain
  <1> QED
    BY <1>1, <1>4, <1>6, ChainsCarried

\* Every step leaves every chain what it may be at its stage.
LEMMA ChainsStep ==
    ASSUME Accounted, Chains, AccountStep
    PROVE  Chains'
  <1>1. AccountTypes /\ Kept
    BY DocumentsKept DEF Accounted
  <1>2. CASE GoBack \/ SignOut \/ \E p \in {"login", "details"} : OpenPage(p)
    <2>1. /\ SameWork(work, work') /\ model' = model
      BY <1>1, <1>2, PagesDo
    <2>2. \A i \in DOMAIN work' : ~work'[i].shown
      BY <1>2, PagesHide
    <2>3. \A i \in DOMAIN work' : Carries(i)
      BY <2>1, <2>2 DEF SameWork, Carries
    <2> QED
      BY <1>1, <2>3, ChainsCarried
  <1>3. ASSUME NEW kind \in {"register", "signin"}, NEW a \in Address,
               Begin(kind, a), error' = error \/ error' = FALSE,
               page = (IF kind = "register" THEN "details" ELSE "login")
        PROVE  Chains'
    BY <1>1, <1>3, BeginChains
  <1>4. ASSUME \/ \E a \in Address : ChangeEmail(a)
               \/ \E k \in DOMAIN changes : AnswerChange(k)
               \/ Aside
        PROVE  Chains'
    <2>1. work' = work /\ page' = page /\ model' = model
      BY <1>1, <1>4, ChangeEmailDoes, AnswerChangeDoes, AsideDoes
    <2>2. \A i \in DOMAIN work' : Carries(i)
      BY <2>1 DEF Carries, SameChain
    <2> QED
      BY <1>1, <2>2, ChainsCarried
  <1>5. ASSUME NEW t \in DOMAIN work, CreateLogin(t) \/ TakeLogin(t) \/ (Upload(t) /\ auth # Nobody)
        PROVE  Chains'
    <2>1. /\ AllButOne(work, work', t) /\ SameTap(work[t], work'[t]) /\ page' = page /\ model' = model
          /\ work[t].stage \in {"creating", "created", "uploading"}
          /\ work'[t].stage \in {"created", "uploading", "writing"}
      BY <1>1, <1>5, CreateLoginDoes, TakeLoginDoes, UploadQueues
    <2>2. ChainAt(t) /\ work[t].kind = "register"
      BY <2>1 DEF Chains, ChainAt
    <2>3. ChainAt(t)'
      BY <2>1, <2>2, MovedChain
    <2> QED
      BY <1>1, <2>1, <2>3, OthersCarried, ChainsCarried
  <1>6. ASSUME NEW t \in DOMAIN work,
               \/ RefuseLogin(t) \/ RefuseSignIn(t) \/ LoseLogin(t) \/ LoseUpload(t) \/ LoseAnswer(t)
               \/ (Upload(t) /\ auth = Nobody)
        PROVE  Chains'
    <2>1. Dropped(work, work', t) /\ page' = page /\ model' = model
      BY <1>1, <1>6, LossesDo, UploadStops
    <2> QED
      BY <1>1, <2>1, RestCarried, ChainsCarried
  <1>7. CASE End
    BY <1>1, <1>7, EndDoes DEF Chains
  <1>8. CASE SendWrite \/ RefuseWrite
    BY <1>1, <1>8, TellChains
  <1>9. ASSUME NEW t \in DOMAIN work,
               \/ FinishRegistration(t) \/ AcceptSignIn(t) \/ FinishFetch(t)
               \/ AnswerFetch(t) \/ \E c \in Challenge : LookUp(t, c)
        PROVE  Chains'
    BY <1>1, <1>9, FetchChains, AnswerChains, LookUpChains, FinishChains
  <1> QED
    BY <1>2, <1>3, <1>4, <1>5, <1>6, <1>7, <1>8, <1>9, AccountSteps

-----------------------------------------------------------------------------
\* Only a fetch changes the model, and the end of the process.
LEMMA ModelsChange ==
    ASSUME AccountStep
    PROVE  \/ model' = model
           \/ \E t \in DOMAIN work : FinishRegistration(t) \/ AcceptSignIn(t) \/ FinishFetch(t)
           \/ End
  <1> USE DEF identity
  <1>1. CASE UserStep
    BY <1>1 DEF UserStep, OpenPage, GoBack, Complete, SignIn, Begin, ChangeEmail, SignOut
  <1>2. ASSUME NEW t, Answer(t)
        PROVE  model' = model \/ FinishRegistration(t) \/ AcceptSignIn(t) \/ FinishFetch(t)
    BY <1>2 DEF Answer, CreateLogin, RefuseLogin, TakeLogin, Upload, AddUser, RefuseSignIn,
       AnswerFetch, LookUp
  <1>3. ASSUME SendWrite \/ RefuseWrite \/ \E k \in DOMAIN changes : AnswerChange(k)
        PROVE  model' = model
    BY <1>3 DEF SendWrite, RefuseWrite, AnswerChange
  <1>4. CASE NetworkStep
    BY <1>2, <1>3, <1>4 DEF NetworkStep
  <1>5. CASE Loss
    BY <1>5 DEF Loss, LoseLogin, LoseUpload, LoseAnswer
  <1>6. CASE Aside
    BY <1>6 DEF Aside
  <1> QED
    BY <1>1, <1>4, <1>5, <1>6 DEF AccountStep

\* A model that is filled lists its account's running challenges once.
LEMMA LoadedStep ==
    ASSUME Accounted, Chains, Loaded, AccountStep
    PROVE  Loaded'
  <1>1. AccountTypes /\ Kept
    BY DocumentsKept DEF Accounted
  <1>2. model \in ModelOf /\ Nobody \notin Account
    BY <1>1, StillKnown DEF AccountTypes, Accounted, Nobody
  <1>3. model.uid # Nobody => docs'[model.uid].running = docs[model.uid].running
    BY <1>1, <1>2 DEF ModelOf, Kept
  <1>4. CASE model' = model
    BY <1>3, <1>4 DEF Loaded
  <1>5. ASSUME NEW t \in DOMAIN work, FinishRegistration(t) \/ AcceptSignIn(t) PROVE Loaded'
    BY <1>1, <1>5, FetchBegins DEF NewModel, Loaded
  <1>6. CASE End
    BY <1>1, <1>6, EndDoes DEF NoModel, Loaded
  <1>7. ASSUME NEW t \in DOMAIN work, FinishFetch(t) PROVE Loaded'
    <2>1. /\ work[t].stage = "looking" /\ work[t].left = {}
          /\ model' = IF work[t].current
                       THEN [model EXCEPT !.loaded = TRUE, !.list = work[t].list] ELSE model
      BY <1>1, <1>7, FinishFetchDoes
    <2>2. CASE ~work[t].current
      BY <1>4, <2>1, <2>2
    <2>3. CASE work[t].current
      <3>1. model'.uid = model.uid /\ model'.list = work[t].list
        BY <1>2, <2>1, <2>3 DEF ModelOf
      <3>2. work[t].uid = model.uid /\ Range(work[t].list) = docs[work[t].uid].running
        BY <2>1, <2>3 DEF Chains, ChainAt
      <3>3. work[t].uid \in Account
        BY <1>1, <2>1, WorkOf DEF Early
      <3>4. IsInjective(work[t].list)
        BY <1>1 DEF AccountTypes, WorkTypes, Sound
      <3> QED
        BY <1>2, <1>3, <3>1, <3>2, <3>3, <3>4 DEF Loaded
    <2> QED
      BY <2>2, <2>3
  <1> QED
    BY <1>4, <1>5, <1>6, <1>7, ModelsChange

\* Without a fault so far every document has its image.
Images == faults = 0 =>
    /\ \A u \in Account : docs[u] # NoDocument => docs[u].image
    /\ \A u \in Account : \A k \in DOMAIN queue[u] : queue[u][k].kind = "new" => queue[u][k].image
    /\ \A t \in DOMAIN work : work[t].stage = "looking" => work[t].image

\* Faults are counted one at a time.
LEMMA FaultsGrow ==
    ASSUME Accounted, AccountStep
    PROVE  faults' \in {faults, faults + 1} /\ faults \in Nat
  <1>1. faults \in Nat
    BY SignUpAssumption DEF Accounted, AccountTypes
  <1> DEFINE Same == faults' = faults
  <1>2. ASSUME UserStep PROVE Same
    <2>1. ASSUME NEW p, OpenPage(p) PROVE Same
      BY <2>1 DEF OpenPage
    <2>2. ASSUME GoBack PROVE Same
      BY <2>2 DEF GoBack
    <2>3. ASSUME NEW a, Complete(a) \/ SignIn(a) PROVE Same
      BY <2>3 DEF Complete, SignIn, Begin
    <2>4. ASSUME NEW a, ChangeEmail(a) PROVE Same
      BY <2>4 DEF ChangeEmail
    <2>5. ASSUME SignOut PROVE Same
      BY <2>5 DEF SignOut
    <2> QED
      BY <1>2, <2>1, <2>2, <2>3, <2>4, <2>5 DEF UserStep
  <1>3. ASSUME NEW t, Answer(t) PROVE Same \/ Fault
    <2>1. CASE CreateLogin(t) \/ RefuseLogin(t) \/ TakeLogin(t)
      BY <2>1 DEF CreateLogin, RefuseLogin, TakeLogin
    <2>2. CASE Upload(t)
      BY <2>2 DEF Upload
    <2>3. CASE FinishRegistration(t) \/ AcceptSignIn(t) \/ RefuseSignIn(t)
      BY <2>3 DEF FinishRegistration, AcceptSignIn, RefuseSignIn
    <2>4. CASE AnswerFetch(t) \/ FinishFetch(t) \/ \E c \in Challenge : LookUp(t, c)
      BY <2>4 DEF AnswerFetch, FinishFetch, LookUp
    <2> QED
      BY <1>3, <2>1, <2>2, <2>3, <2>4 DEF Answer
  <1>4. ASSUME SendWrite \/ RefuseWrite PROVE Same
    BY <1>4 DEF SendWrite, RefuseWrite
  <1>5. ASSUME NEW k, AnswerChange(k) PROVE Same \/ Fault
    BY <1>5 DEF AnswerChange
  <1>6. ASSUME Loss PROVE Same \/ Fault
    BY <1>6 DEF Loss, LoseLogin, LoseUpload, LoseAnswer
  <1>7. ASSUME End \/ Aside PROVE Same \/ Fault
    BY <1>7 DEF End, Aside
  <1>8. Same \/ Fault
    BY <1>2, <1>3, <1>4, <1>5, <1>6, <1>7 DEF AccountStep, NetworkStep
  <1> QED
    BY <1>1, <1>8 DEF Fault

\* What changes a queue.
LEMMA QueuesChange ==
    ASSUME AccountStep
    PROVE  \/ queue' = queue
           \/ \E t \in DOMAIN work : Upload(t) /\ auth # Nobody
           \/ SendWrite \/ RefuseWrite \/ End
           \/ \E a \in Address : ChangeEmail(a)
  <1> USE DEF client
  <1>1. CASE UserStep
    BY <1>1 DEF UserStep, OpenPage, GoBack, Complete, SignIn, Begin, SignOut
  <1>2. ASSUME NEW t, Answer(t) PROVE queue' = queue \/ (Upload(t) /\ auth # Nobody)
    BY <1>2 DEF Answer, CreateLogin, RefuseLogin, TakeLogin, Upload, AddUser, FinishRegistration,
       AcceptSignIn, RefuseSignIn, AnswerFetch, FinishFetch, LookUp
  <1>3. CASE NetworkStep
    BY <1>2, <1>3 DEF NetworkStep, AnswerChange
  <1>4. CASE Loss
    BY <1>4 DEF Loss, LoseLogin, LoseUpload, LoseAnswer
  <1>5. CASE Aside
    BY <1>5 DEF Aside
  <1> QED
    BY <1>1, <1>3, <1>4, <1>5 DEF AccountStep

\* A write queued after the step was queued before it, or is queued by it.
OldWrite(v, k) ==
    \E j \in DOMAIN queue[v] : SameWrite(queue[v][j], queue'[v][k])
                               /\ (queue'[v][k].tap = queue[v][j].tap \/ End)

\* What is queued was queued, or is queued now.
LEMMA WritesQueued ==
    ASSUME Accounted, AccountStep, NEW v \in Account, NEW k \in DOMAIN queue'[v]
    PROVE  \/ OldWrite(v, k)
           \/ \E t \in DOMAIN work : \E image \in BOOLEAN :
                 /\ Upload(t) /\ auth # Nobody /\ v = auth
                 /\ queue'[v][k] = NewWrite(t, image)
                 /\ ~image => faults' = faults + 1
           \/ \E a \in Address : ChangeEmail(a) /\ v = auth /\ queue'[v][k] = EmailWrite(a)
  <1>1. AccountTypes /\ Waiting /\ queue \in Queues
    BY DEF Accounted, Counted, AccountTypes
  <1>2. CASE queue' = queue
    BY <1>2 DEF OldWrite, SameWrite
  <1>3. ASSUME NEW t \in DOMAIN work, Upload(t), auth # Nobody
        PROVE  \/ OldWrite(v, k)
               \/ \E image \in BOOLEAN : /\ v = auth /\ queue'[v][k] = NewWrite(t, image)
                                         /\ ~image => faults' = faults + 1
    <2>1. auth \in Account
      BY <1>1, <1>3, UploadQueues
    <2>2. PICK image \in BOOLEAN : /\ NewWrite(t, image) \in PendingWrite
                                   /\ queue' = Queued(queue, auth, NewWrite(t, image))
                                   /\ ~image => faults' = faults + 1
      BY <1>1, <1>3, UploadQueues
    <2> DEFINE r == NewWrite(t, image)
               n == Len(queue[auth]) + 1
    <2> HIDE DEF r
    <2>3. Longer(queue, queue', auth, r, n)
      BY <1>1, <2>1, <2>2, QueueAppended DEF r
    <2> HIDE DEF n
    <2>4. (k \in DOMAIN queue[v] /\ queue'[v][k] = queue[v][k]) \/ (v = auth /\ queue'[v][k] = r)
      BY <2>3 DEF Longer
    <2> QED
      BY <2>2, <2>4 DEF OldWrite, SameWrite, r
  <1>4. ASSUME NEW a \in Address, ChangeEmail(a)
        PROVE  OldWrite(v, k) \/ (v = auth /\ queue'[v][k] = EmailWrite(a))
    <2> DEFINE r == EmailWrite(a)
               n == Len(queue[auth]) + 1
    <2>1. auth \in Account /\ r \in PendingWrite /\ queue' = Queued(queue, auth, r)
      BY <1>1, <1>4, ChangeEmailDoes
    <2> HIDE DEF r
    <2>3. Longer(queue, queue', auth, r, n)
      BY <1>1, <2>1, QueueAppended
    <2> HIDE DEF n
    <2>4. (k \in DOMAIN queue[v] /\ queue'[v][k] = queue[v][k]) \/ (v = auth /\ queue'[v][k] = r)
      BY <2>3 DEF Longer
    <2> QED
      BY <2>4 DEF OldWrite, SameWrite, r
  <1>5. CASE SendWrite \/ RefuseWrite
    <2>1. auth \in Account /\ queue[auth] # <<>> /\ queue' = Sent(queue, auth)
      BY <1>1, <1>5, SendWriteDoes, RefuseWriteDoes
    <2>2. Before(v, k, auth) \in DOMAIN queue[v] /\ queue'[v][k] = queue[v][Before(v, k, auth)]
      BY <1>1, <2>1, HeadGone
    <2> QED
      BY <2>2 DEF OldWrite, SameWrite
  <1>6. CASE End
    <2>1. CutShort(queue, queue', auth)
      BY <1>1, <1>6, EndDoes
    <2> QED
      BY <1>6, <2>1 DEF CutShort, OldWrite
  <1> QED
    BY <1>2, <1>3, <1>4, <1>5, <1>6, QueuesChange

\* A piece of work looks up what it looked up before, or its document arrived.
LEMMA Looking ==
    ASSUME Accounted, AccountStep, NEW i \in DOMAIN work', work'[i].stage = "looking"
    PROVE  \/ i \in DOMAIN work /\ work[i].stage = "looking" /\ work'[i].image = work[i].image
           \/ i \in DOMAIN work /\ AnswerFetch(i)
  <1>1. AccountTypes /\ Waiting
    BY DEF Accounted, Counted
  <1> DEFINE Still == i \in DOMAIN work /\ work[i].stage = "looking" /\ work'[i].image = work[i].image
  <1>2. ASSUME GoBack \/ SignOut \/ \E p \in {"login", "details"} : OpenPage(p) PROVE Still
    <2>1. SameWork(work, work')
      BY <1>1, <1>2, PagesDo
    <2> QED
      BY <2>1 DEF SameWork, SameChain
  <1>3. ASSUME NEW kind \in {"register", "signin"}, NEW a \in Address,
               Begin(kind, a), error' = error \/ error' = FALSE
        PROVE  Still
    <2>1. error' \in BOOLEAN
      BY <1>1, <1>3 DEF AccountTypes
    <2>2. Tap(work, work', taps', kind, a)
      BY <1>1, <1>3, <2>1, BeginDoes
    <2>3. i # taps'
      BY <2>2 DEF Tap, Tapped
    <2> QED
      BY <2>2, <2>3 DEF Tap
  <1>4. ASSUME work' = work PROVE Still
    BY <1>4
  <1>5. ASSUME NEW t \in DOMAIN work, AllButOne(work, work', t), work'[t].stage # "looking"
        PROVE  Still
    BY <1>5 DEF AllButOne
  <1>6. ASSUME NEW t, Dropped(work, work', t) PROVE Still
    BY <1>6 DEF Dropped
  <1>7. ASSUME NEW t \in DOMAIN work, FinishRegistration(t) \/ AcceptSignIn(t) PROVE Still
    <2>1. FetchBegun(work, work', t, auth')
      BY <1>1, <1>7, FetchBegins
    <2> QED
      BY <2>1 DEF FetchBegun, SameChain
  <1>8. ASSUME NEW t \in DOMAIN work, AnswerFetch(t) PROVE Still \/ i = t
    <2>1. AllButOne(work, work', t)
      BY <1>1, <1>8, AnswerFetchDoes
    <2> QED
      BY <2>1 DEF AllButOne
  <1>9. ASSUME NEW t \in DOMAIN work, NEW c, LookUp(t, c) PROVE Still
    <2>1. AllButOne(work, work', t) /\ work[t].stage = "looking" /\ work'[t].image = work[t].image
      BY <1>1, <1>9, LookUpDoes
    <2> QED
      BY <2>1 DEF AllButOne
  <1>10. ASSUME NEW t \in DOMAIN work, FinishFetch(t) PROVE Still
    <2>1. Finished(work, work', t)
      BY <1>1, <1>10, FinishFetchDoes
    <2> QED
      BY <2>1 DEF Finished, SameChain
  <1>11. ASSUME SendWrite \/ RefuseWrite PROVE Still
    <2> DEFINE w == Head(queue[auth])
    <2>1. ToldOf(work, work', w)
      BY <1>1, <1>11, SendWriteDoes, RefuseWriteDoes
    <2> HIDE DEF w
    <2> QED
      BY <2>1 DEF ToldOf, AllButOne
  <1>12. ASSUME NEW t \in DOMAIN work,
                CreateLogin(t) \/ TakeLogin(t) \/ (Upload(t) /\ auth # Nobody)
         PROVE  Still
    <2>1. AllButOne(work, work', t) /\ work'[t].stage \in {"created", "uploading", "writing"}
      BY <1>1, <1>12, CreateLoginDoes, TakeLoginDoes, UploadQueues
    <2> QED
      BY <1>5, <2>1
  <1>13. ASSUME NEW t \in DOMAIN work,
                \/ RefuseLogin(t) \/ RefuseSignIn(t) \/ LoseLogin(t) \/ LoseUpload(t) \/ LoseAnswer(t)
                \/ (Upload(t) /\ auth = Nobody)
         PROVE  Still
    <2>1. Dropped(work, work', t)
      BY <1>1, <1>13, LossesDo, UploadStops
    <2> QED
      BY <1>6, <2>1
  <1>14. ASSUME \/ \E a \in Address : ChangeEmail(a)
                \/ \E k \in DOMAIN changes : AnswerChange(k)
                \/ Aside
         PROVE  Still
    BY <1>1, <1>4, <1>14, ChangeEmailDoes, AnswerChangeDoes, AsideDoes
  <1>15. ~End
    BY <1>1, EndDoes
  <1> QED
    BY <1>2, <1>3, <1>7, <1>8, <1>9, <1>10, <1>11, <1>12, <1>13, <1>14, <1>15, AccountSteps

\* Images stay until something fails.
LEMMA ImagesStep ==
    ASSUME Accounted, Images, AccountStep
    PROVE  Images'
  <1>1. AccountTypes /\ Waiting /\ Kept
    BY DocumentsKept DEF Accounted, Counted
  <1>2. SUFFICES ASSUME faults' = 0
        PROVE  /\ \A u \in Account : docs'[u] # NoDocument => docs'[u].image
               /\ \A u \in Account : \A k \in DOMAIN queue'[u] :
                     queue'[u][k].kind = "new" => queue'[u][k].image
               /\ \A t \in DOMAIN work' : work'[t].stage = "looking" => work'[t].image
    BY DEF Images
  <1>3. faults = 0
    BY <1>2, FaultsGrow
  <1>4. /\ \A u \in Account : docs[u] # NoDocument => docs[u].image
        /\ \A u \in Account : \A k \in DOMAIN queue[u] : queue[u][k].kind = "new" => queue[u][k].image
        /\ \A t \in DOMAIN work : work[t].stage = "looking" => work[t].image
    BY <1>3 DEF Images
  <1>5. ASSUME NEW u \in Account, docs'[u] # NoDocument PROVE docs'[u].image
    <2>1. CASE docs[u] # NoDocument
      BY <1>1, <1>4, <2>1 DEF Kept
    <2>2. CASE docs[u] = NoDocument
      <3>1. SendWrite
        BY <1>5, <2>2, DocumentsChange
      <3> DEFINE w == Head(queue[auth])
      <3>2. /\ auth \in Account /\ w \in PendingWrite /\ w = queue[auth][1] /\ 1 \in DOMAIN queue[auth]
            /\ Applied(w)
        BY <1>1, <3>1, SendWriteDoes
      <3> HIDE DEF w
      <3>3. w.kind = "new" /\ w.uid = u
        BY <1>5, <2>2, <3>2 DEF Applied, PendingWrite
      <3>4. docs'[u].image = w.image
        BY <3>2, <3>3 DEF Applied, Written
      <3> QED
        BY <1>4, <3>2, <3>3, <3>4
    <2> QED
      BY <2>1, <2>2
  <1>6. ASSUME NEW u \in Account, NEW k \in DOMAIN queue'[u], queue'[u][k].kind = "new"
        PROVE  queue'[u][k].image
    <2>1. CASE OldWrite(u, k)
      BY <1>4, <1>6, <2>1 DEF OldWrite, SameWrite
    <2>2. CASE \E t \in DOMAIN work : \E image \in BOOLEAN :
                 queue'[u][k] = NewWrite(t, image) /\ (~image => faults' = faults + 1)
      <3>1. PICK t \in DOMAIN work, image \in BOOLEAN :
                 queue'[u][k] = NewWrite(t, image) /\ (~image => faults' = faults + 1)
        BY <2>2
      <3>2. image
        BY <1>2, <1>3, <3>1
      <3> QED
        BY <3>1, <3>2 DEF NewWrite
    <2>3. CASE \E a \in Address : queue'[u][k] = EmailWrite(a)
      BY <1>6, <2>3 DEF EmailWrite
    <2> QED
      BY <2>1, <2>2, <2>3, WritesQueued
  <1>7. ASSUME NEW t \in DOMAIN work', work'[t].stage = "looking" PROVE work'[t].image
    <2>1. CASE t \in DOMAIN work /\ work[t].stage = "looking" /\ work'[t].image = work[t].image
      BY <1>4, <2>1
    <2>2. CASE t \in DOMAIN work /\ AnswerFetch(t)
      <3> DEFINE d == Seen(work[t].uid)
      <3>1. work[t].uid \in Account /\ d # NoDocument /\ work'[t].image = d.image
        BY <1>1, <2>2, AnswerFetchDoes
      <3>2. PICK u \in Account : u = work[t].uid
        BY <3>1
      <3>3. CASE d = docs[u]
        BY <1>4, <3>1, <3>3
      <3>4. CASE auth \in Account /\ \E k : NewAt(auth, k, u) /\ d = Written(queue[auth][k])
        <4>1. PICK k : NewAt(auth, k, u) /\ d = Written(queue[auth][k])
          BY <3>4
        <4>2. queue[auth][k].image
          BY <1>4, <3>4, <4>1 DEF NewAt
        <4> QED
          BY <3>1, <4>1, <4>2 DEF Written
      <3> QED
        BY <1>1, <3>2, <3>3, <3>4, SeenIs
    <2> QED
      BY <1>7, <2>1, <2>2, Looking
  <1> QED
    BY <1>5, <1>6, <1>7

-----------------------------------------------------------------------------
(* The session: what holds of it while nothing overlaps.                   *)

\* The account u has a document here, at the server or in its own queue.
Given(u) == docs[u] # NoDocument \/ \E k : NewAt(u, k, u)

\* All work under way is of one button and one address, and no change of the
\* address is under way with it.
Alike == \A s, t \in DOMAIN work : work[s].kind = work[t].kind /\ work[s].address = work[t].address
ChangesAlone == DOMAIN work # {} => changes = <<>>

\* Nobody writes for another account.
QueuesOwn == \A u \in Account : \A k \in DOMAIN queue[u] : queue[u][k].uid = u

\* A registration whose login is made: its address is the login's, its account
\* becomes the one signed in, and then has a document and the model.
RegisterAt(t) ==
    work[t].kind = "register" /\ work[t].stage # "creating" =>
       /\ login[work[t].uid] = work[t].address
       /\ page # "home"
       /\ work[t].stage # "created" => auth = work[t].uid
       /\ work[t].stage \in {"written", "fetching", "looking"} => docs[work[t].uid] # NoDocument
       /\ work[t].stage \in {"fetching", "looking"} => model.uid = work[t].uid

\* There is one such registration at most.
OneRegistration ==
    \A s, t \in DOMAIN work :
       work[s].kind = "register" /\ work[s].stage # "creating" /\ work[t].stage # "creating" => s = t

\* A sign-in that was accepted and still shows: its account is signed in.
SignInAt(t) ==
    work[t].kind = "signin" /\ work[t].stage # "signing" =>
       /\ login[work[t].uid] = work[t].address
       /\ work[t].shown =>
             /\ auth = work[t].uid /\ model.uid = work[t].uid
             /\ work[t].stage = "looking" => Given(auth)

ChainsAgree == \A t \in DOMAIN work : RegisterAt(t) /\ SignInAt(t)

AtHome == page = "home" =>
    /\ auth # Nobody /\ model.uid = auth /\ Given(auth)
    /\ \A t \in DOMAIN work : work[t].address = login[auth]

\* Without a fault no registration is given up, and each document queued has a
\* piece of work that waits for it.
NewTold == \A u \in Account : \A k \in DOMAIN queue[u] : queue[u][k].kind = "new" => queue[u][k].tap # 0
NoneAbandoned == faults = 0 => abandoned = {} /\ NewTold

Calm ==
    /\ Alike /\ ChangesAlone /\ QueuesOwn /\ OneRegistration /\ ChainsAgree
    /\ AtHome /\ NoneAbandoned

\* What is had stays had.
LEMMA StillGiven ==
    ASSUME Accounted, Kept, NEW u \in Account, Given(u),
           \A k : NewAt(u, k, u) => docs'[u] # NoDocument \/ \E j : NewAt(u, j, u)'
    PROVE  Given(u)'
  BY DEF Given, Kept

\* The work of i goes on as it was.
LEMMA ChainAgrees ==
    ASSUME Accounted, Kept, NEW i, Carries(i), RegisterAt(i), SignInAt(i),
           login' = login, auth' = auth, model'.uid = model.uid,
           page' = page \/ page' # "home", auth \in Account /\ Given(auth) => Given(auth)'
    PROVE  RegisterAt(i)' /\ SignInAt(i)'
  <1>1. i \in DOMAIN work /\ SameChain(work[i], work'[i]) /\ (work'[i].shown => work[i].shown)
    BY DEF Carries
  <1>2. AccountTypes
    BY DEF Accounted
  <1>3. work[i].stage \notin Early => work[i].uid \in Account
    BY <1>1, <1>2, WorkOf
  <1>4. work[i].uid \in Account /\ docs[work[i].uid] # NoDocument => docs'[work[i].uid] # NoDocument
    BY DEF Kept
  <1>5. RegisterAt(i)'
    BY <1>1, <1>3, <1>4 DEF RegisterAt, SameChain, Early
  <1>6. SignInAt(i)'
    BY <1>1, <1>3 DEF SignInAt, SameChain, Early
  <1> QED
    BY <1>5, <1>6

\* Steps of chains, with the accounts, the page and the changes as they were.
Frame ==
    /\ login' = login /\ changes' = changes /\ auth' = auth /\ page' = page
    /\ model'.uid = model.uid
    /\ \A i \in DOMAIN work' :
          /\ i \in DOMAIN work
          /\ work'[i].kind = work[i].kind /\ work'[i].address = work[i].address
          /\ work'[i].stage # "creating" => work[i].stage # "creating"

\* A step within the frame keeps the session calm if the chains that move agree.
LEMMA FrameCalm ==
    ASSUME Accounted, Kept, Calm, Frame, QueuesOwn', NoneAbandoned',
           auth \in Account /\ Given(auth) => Given(auth)',
           \A i \in DOMAIN work' : Carries(i) \/ (RegisterAt(i)' /\ SignInAt(i)')
    PROVE  Calm'
  <1>1. Alike'
    BY DEF Calm, Alike, Frame
  <1>2. ChangesAlone'
    BY DEF Calm, ChangesAlone, Frame
  <1>3. OneRegistration'
    BY DEF Calm, OneRegistration, Frame
  <1>4. ChainsAgree'
    <2> SUFFICES ASSUME NEW i \in DOMAIN work' PROVE RegisterAt(i)' /\ SignInAt(i)'
      BY DEF ChainsAgree
    <2>1. RegisterAt(i) /\ SignInAt(i)
      BY DEF Calm, ChainsAgree, Frame
    <2>2. ASSUME Carries(i) PROVE RegisterAt(i)' /\ SignInAt(i)'
      <3>1. login' = login /\ auth' = auth /\ model'.uid = model.uid /\ page' = page
        BY DEF Frame
      <3> QED
        BY <2>1, <2>2, <3>1, ChainAgrees
    <2> QED
      BY <2>2
  <1>5. AtHome'
    <2>1. AtHome
      BY DEF Calm
    <2>2. auth \in Account \cup {Nobody}
      BY DEF Accounted, AccountTypes
    <2> QED
      BY <2>1, <2>2 DEF AtHome, Frame
  <1> QED
    BY <1>1, <1>2, <1>3, <1>4, <1>5 DEF Calm

\* Nothing more is given up.
LEMMA NoneMore ==
    ASSUME NoneAbandoned, faults' \in {faults, faults + 1}, faults \in Nat,
           faults' = faults => abandoned' = abandoned, NewTold => NewTold'
    PROVE  NoneAbandoned'
  BY DEF NoneAbandoned

\* With the queues and the documents as they were.
LEMMA QueuesSame ==
    ASSUME Calm, queue' = queue, docs' = docs, auth' = auth
    PROVE  QueuesOwn' /\ (NewTold => NewTold') /\ (Given(auth) => Given(auth)')
  <1>1. QueuesOwn'
    BY DEF Calm, QueuesOwn
  <1>2. NewTold => NewTold'
    BY DEF NewTold
  <1>3. Given(auth) => Given(auth)'
    BY DEF Given, NewAt
  <1> QED
    BY <1>1, <1>2, <1>3

\* Only the work t moves; its chain is shown to agree by itself.
LEMMA OneMoves ==
    ASSUME Accounted, Kept, Calm, NEW t \in DOMAIN work, AllButOne(work, work', t),
           login' = login, changes' = changes, auth' = auth, page' = page, model' = model,
           SameTap(work[t], work'[t]), work[t].stage # "creating",
           QueuesOwn', NoneAbandoned', auth \in Account /\ Given(auth) => Given(auth)',
           RegisterAt(t)' /\ SignInAt(t)'
    PROVE  Calm'
  <1>1. Frame
    BY DEF Frame, AllButOne, SameTap
  <1>2. \A i \in DOMAIN work' : i # t => Carries(i)
    BY OthersCarried
  <1>3. \A i \in DOMAIN work' : Carries(i) \/ (RegisterAt(i)' /\ SignInAt(i)')
    BY <1>2
  <1> QED
    BY <1>1, <1>3, FrameCalm

\* Work that ends.
LEMMA LossesCalm ==
    ASSUME Accounted, Chains, Kept, Calm, NEW t \in DOMAIN work,
           RefuseLogin(t) \/ RefuseSignIn(t) \/ LoseLogin(t) \/ LoseUpload(t) \/ LoseAnswer(t)
    PROVE  Calm'
  <1>1. AccountTypes
    BY DEF Accounted
  <1>2. /\ Dropped(work, work', t)
        /\ faults' \in {faults, faults + 1} /\ faults \in Nat
        /\ faults' = faults => abandoned' = abandoned
        /\ login' = login /\ docs' = docs /\ queue' = queue /\ changes' = changes
        /\ auth' = auth /\ model' = model /\ page' = page
    BY <1>1, LossesDo
  <1>3. Frame
    BY <1>2 DEF Frame, Dropped
  <1>4. \A i \in DOMAIN work' : Carries(i)
    BY <1>2, RestCarried
  <1>5. QueuesOwn' /\ (NewTold => NewTold') /\ (Given(auth) => Given(auth)')
    BY <1>2, QueuesSame
  <1>6. NoneAbandoned'
    BY <1>2, <1>5, NoneMore DEF Calm
  <1> QED
    BY <1>3, <1>4, <1>5, <1>6, FrameCalm

\* A look-up answered.
LEMMA LookUpCalm ==
    ASSUME Accounted, Chains, Kept, Calm, NEW t \in DOMAIN work, NEW c, LookUp(t, c)
    PROVE  Calm'
  <1>1. AccountTypes
    BY DEF Accounted
  <1>2. /\ AllButOne(work, work', t)
        /\ work[t].stage = "looking" /\ work'[t].stage = "looking"
        /\ work'[t].uid = work[t].uid /\ SameTap(work[t], work'[t])
        /\ login' = login /\ docs' = docs /\ queue' = queue /\ changes' = changes
        /\ auth' = auth /\ model' = model /\ page' = page /\ faults' = faults
        /\ abandoned' = abandoned
    BY <1>1, LookUpDoes
  <1>3. QueuesOwn' /\ (NewTold => NewTold') /\ (Given(auth) => Given(auth)')
    BY <1>2, QueuesSame
  <1>4. NoneAbandoned'
    BY <1>2, <1>3 DEF Calm, NoneAbandoned
  <1>5. RegisterAt(t) /\ SignInAt(t)
    BY DEF Calm, ChainsAgree
  <1>6. RegisterAt(t)'
    BY <1>2, <1>5 DEF RegisterAt, SameTap
  <1>7. SignInAt(t)'
    <2>1. auth = work[t].uid => auth \in Account
      BY <1>1, <1>2, WorkOf DEF Early
    <2> QED
      BY <1>2, <1>3, <1>5, <2>1 DEF SignInAt, SameTap
  <1> QED
    BY <1>2, <1>3, <1>4, <1>6, <1>7, OneMoves

\* A document that arrives for the account signed in is one it has here.
LEMMA AnswerFetchCalm ==
    ASSUME Accounted, Chains, Kept, Calm, NEW t \in DOMAIN work, AnswerFetch(t)
    PROVE  Calm'
  <1>1. AccountTypes
    BY DEF Accounted
  <1>2. /\ AllButOne(work, work', t)
        /\ work[t].stage = "fetching" /\ work'[t].stage = "looking"
        /\ work'[t].uid = work[t].uid /\ SameTap(work[t], work'[t])
        /\ work[t].uid \in Account /\ Seen(work[t].uid) # NoDocument
        /\ login' = login /\ docs' = docs /\ queue' = queue /\ changes' = changes
        /\ auth' = auth /\ model' = model /\ page' = page /\ faults' = faults
        /\ abandoned' = abandoned
    BY <1>1, AnswerFetchDoes
  <1>3. QueuesOwn' /\ (NewTold => NewTold') /\ (Given(auth) => Given(auth)')
    BY <1>2, QueuesSame
  <1>4. NoneAbandoned'
    BY <1>2, <1>3 DEF Calm, NoneAbandoned
  <1>5. RegisterAt(t) /\ SignInAt(t)
    BY DEF Calm, ChainsAgree
  <1>6. RegisterAt(t)'
    BY <1>2, <1>5 DEF RegisterAt, SameTap
  <1>7. SignInAt(t)'
    <2>1. PICK u \in Account : u = work[t].uid
      BY <1>2
    <2>2. docs[u] # NoDocument \/ (auth \in Account /\ \E k : NewAt(auth, k, u))
      BY <1>1, <1>2, <2>1, SeenType
    <2>3. auth = work[t].uid => Given(auth)
      BY <2>1, <2>2 DEF Given
    <2> QED
      BY <1>2, <1>3, <1>5, <2>3 DEF SignInAt, SameTap
  <1> QED
    BY <1>2, <1>3, <1>4, <1>6, <1>7, OneMoves

\* An upload ends while its account is signed in.
LEMMA UploadCalm ==
    ASSUME Accounted, Chains, Kept, Calm, NEW t \in DOMAIN work, Upload(t)
    PROVE  Calm'
  <1>1. AccountTypes /\ Waiting
    BY DEF Accounted, Counted
  <1>2. work[t].stage = "uploading"
    BY DEF Upload
  <1>3. work[t].kind = "register" /\ RegisterAt(t)
    BY <1>2 DEF Chains, ChainAt, Calm, ChainsAgree
  <1>4. auth = work[t].uid /\ auth \in Account /\ auth # Nobody
    <2>1. work[t].uid \in Account
      BY <1>1, <1>2, WorkOf DEF Early
    <2>2. Nobody \notin Account
      BY SignUpAssumption DEF Account, Nobody
    <2> QED
      BY <1>2, <1>3, <2>1, <2>2 DEF RegisterAt
  <1>5. /\ AllButOne(work, work', t)
        /\ work'[t].stage = "writing"
        /\ work'[t].uid = work[t].uid /\ SameTap(work[t], work'[t])
        /\ login' = login /\ docs' = docs /\ changes' = changes
        /\ auth' = auth /\ model' = model /\ page' = page
        /\ faults' \in {faults, faults + 1} /\ faults \in Nat /\ abandoned' = abandoned
    BY <1>1, <1>4, UploadQueues
  <1>6. PICK image \in BOOLEAN : /\ NewWrite(t, image) \in PendingWrite
                                 /\ queue' = Queued(queue, auth, NewWrite(t, image))
    BY <1>1, <1>4, UploadQueues
  <1> DEFINE r == NewWrite(t, image)
             n == Len(queue[auth]) + 1
  <1>7. r.uid = auth /\ r.tap = t /\ r \in PendingWrite
    BY <1>4, <1>6 DEF NewWrite
  <1>t. t # 0
    BY <1>1, WorkOf
  <1>q. queue' = Queued(queue, auth, r)
    BY <1>6
  <1> HIDE DEF r
  <1>8. Longer(queue, queue', auth, r, n)
    <2>1. queue \in Queues
      BY <1>1 DEF AccountTypes
    <2> QED
      BY <1>4, <1>7, <1>q, <2>1, QueueAppended
  <1> HIDE DEF n
  <1>9. QueuesOwn'
    BY <1>7, <1>8 DEF Calm, QueuesOwn, Longer
  <1>10. NewTold => NewTold'
    BY <1>7, <1>8, <1>t DEF NewTold, Longer
  <1>11. Given(auth) => Given(auth)'
    <2>1. \A v \in Account : \A k, u : NewAt(v, k, u) => NewAt(v, k, u)'
      BY <1>4, <1>8, NewLonger
    <2>2. PICK a \in Account : a = auth
      BY <1>4
    <2>3. Given(a) => Given(a)'
      BY <1>5, <2>1 DEF Given
    <2> QED
      BY <1>5, <2>2, <2>3 DEF Given
  <1>12. NoneAbandoned'
    BY <1>5, <1>10, NoneMore DEF Calm
  <1>13. RegisterAt(t)'
    BY <1>2, <1>3, <1>5 DEF RegisterAt, SameTap
  <1>14. SignInAt(t)'
    BY <1>3, <1>5 DEF SignInAt, SameTap
  <1> QED
    BY <1>2, <1>5, <1>9, <1>11, <1>12, <1>13, <1>14, OneMoves

\* While a registration has its login, the others have not begun theirs.
LEMMA OthersCreate ==
    ASSUME Chains, Calm, NEW t \in DOMAIN work, work[t].kind = "register", work[t].stage # "creating"
    PROVE  \A i \in DOMAIN work \ {t} : work[i].kind = "register" /\ work[i].stage = "creating"
  BY DEF Calm, Alike, OneRegistration

\* So it is with a registration that gets its login.
LEMMA CreateLoginCalm ==
    ASSUME Accounted, Chains, Kept, Calm, NEW t \in DOMAIN work, CreateLogin(t)
    PROVE  Calm'
  <1>1. AccountTypes /\ Numbered /\ Known
    BY DEF Accounted, Counted
  <1>2. PICK u \in Account : u = Cardinality(Registered) + 1
    BY <1>1, CreateLoginDoes
  <1>3. /\ AllButOne(work, work', t)
        /\ work[t].stage = "creating" /\ work'[t].stage = "created"
        /\ work'[t].uid = u /\ SameTap(work[t], work'[t])
        /\ Holder(work[t].address) = {}
        /\ login' = [login EXCEPT ![u] = work[t].address]
        /\ docs' = docs /\ queue' = queue /\ changes' = changes /\ auth' = auth
        /\ model' = model /\ page' = page /\ faults' = faults /\ abandoned' = abandoned
    BY <1>1, <1>2, CreateLoginDoes
  <1>4. work[t].address \in Address /\ login \in Logins
    BY <1>1, WorkOf DEF AccountTypes
  <1>5. \A v \in Registered : login[v] # work[t].address
    BY <1>3 DEF Holder
  <1>6. \A i \in DOMAIN work : work[i].kind = "register" /\ work[i].address = work[t].address
    <2>1. work[t].kind = "register"
      BY <1>3 DEF Chains, ChainAt
    <2> QED
      BY <2>1 DEF Calm, Alike
  <1>7. \A i \in DOMAIN work : work[i].stage = "creating"
    <2> SUFFICES ASSUME NEW i \in DOMAIN work, work[i].stage # "creating" PROVE FALSE
      OBVIOUS
    <2>1. login[work[i].uid] = work[i].address
      BY <1>6 DEF Calm, ChainsAgree, RegisterAt
    <2>2. work[i].stage # "signing"
      BY <1>6 DEF Chains, ChainAt
    <2>3. work[i].uid \in Account
      BY <1>1, <2>2, WorkOf DEF Early
    <2>4. work[i].uid \in Registered
      <3>1. work[i].uid # Nobody
        BY <2>3, SignUpAssumption DEF Account, Nobody
      <3> QED
        BY <1>1, <3>1 DEF Known
    <2> QED
      BY <1>5, <1>6, <2>1, <2>4
  <1>8. page # "home"
    <2>1. ASSUME page = "home" PROVE FALSE
      <3>1. auth # Nobody /\ work[t].address = login[auth]
        BY <2>1 DEF Calm, AtHome
      <3>2. auth \in Registered
        BY <1>1, <3>1 DEF Known
      <3> QED
        BY <1>5, <3>1, <3>2
    <2> QED
      BY <2>1
  <1>9. \A i \in DOMAIN work' : /\ i \in DOMAIN work /\ work'[i].kind = "register"
                                /\ work'[i].address = work[t].address
                                /\ i # t => work'[i].stage = "creating"
    BY <1>3, <1>6, <1>7 DEF AllButOne, SameTap
  <1>10. Alike' /\ OneRegistration'
    BY <1>9 DEF Alike, OneRegistration
  <1>11. ChangesAlone'
    BY <1>3, <1>9 DEF Calm, ChangesAlone
  <1>12. ChainsAgree'
    <2>1. login'[u] = work[t].address
      BY <1>3, <1>4 DEF Logins
    <2>2. ASSUME NEW i \in DOMAIN work' PROVE RegisterAt(i)' /\ SignInAt(i)'
      <3>1. CASE i # t
        BY <1>9, <3>1 DEF RegisterAt, SignInAt
      <3>2. CASE i = t
        <4>1. /\ work'[i].kind = "register" /\ work'[i].address = work[t].address
              /\ work'[i].stage = "created" /\ work'[i].uid = u
          BY <1>3, <1>9, <3>2
        <4> QED
          BY <1>3, <1>8, <2>1, <4>1 DEF RegisterAt, SignInAt
      <3> QED
        BY <3>1, <3>2
    <2> QED
      BY <2>2 DEF ChainsAgree
  <1>13. AtHome'
    BY <1>3, <1>8 DEF AtHome
  <1>14. QueuesOwn' /\ (NewTold => NewTold')
    BY <1>3, QueuesSame
  <1>15. NoneAbandoned'
    BY <1>3, <1>14 DEF Calm, NoneAbandoned
  <1> QED
    BY <1>10, <1>11, <1>12, <1>13, <1>14, <1>15 DEF Calm

\* The account of the registration becomes the one signed in.
LEMMA TakeLoginCalm ==
    ASSUME Accounted, Chains, Kept, Calm, NEW t \in DOMAIN work, TakeLogin(t)
    PROVE  Calm'
  <1>1. AccountTypes
    BY DEF Accounted
  <1>2. /\ AllButOne(work, work', t)
        /\ work[t].stage = "created" /\ work'[t].stage = "uploading"
        /\ work'[t].uid = work[t].uid /\ SameTap(work[t], work'[t])
        /\ work[t].uid \in Account /\ auth' = work[t].uid
        /\ login' = login /\ docs' = docs /\ queue' = queue /\ changes' = changes
        /\ model' = model /\ page' = page /\ faults' = faults /\ abandoned' = abandoned
    BY <1>1, TakeLoginDoes
  <1>3. work[t].kind = "register" /\ RegisterAt(t)
    BY <1>2 DEF Chains, ChainAt, Calm, ChainsAgree
  <1>4. \A i \in DOMAIN work \ {t} : work[i].kind = "register" /\ work[i].stage = "creating"
    BY <1>2, <1>3, OthersCreate
  <1>5. page' # "home" /\ login'[work'[t].uid] = work'[t].address
    BY <1>2, <1>3 DEF RegisterAt, SameTap
  <1>6. \A i \in DOMAIN work' : /\ i \in DOMAIN work /\ work'[i].kind = "register"
                                /\ work'[i].address = work[i].address
                                /\ i # t => work'[i].stage = "creating"
    BY <1>2, <1>3, <1>4 DEF AllButOne, SameTap
  <1>7. Alike' /\ OneRegistration'
    BY <1>6 DEF Calm, Alike, OneRegistration
  <1>8. ChangesAlone'
    BY <1>2, <1>6 DEF Calm, ChangesAlone
  <1>9. ChainsAgree'
    <2>1. ASSUME NEW i \in DOMAIN work' PROVE RegisterAt(i)' /\ SignInAt(i)'
      <3>1. CASE i # t
        BY <1>6, <3>1 DEF RegisterAt, SignInAt
      <3>2. CASE i = t
        BY <1>2, <1>5, <1>6, <3>2 DEF RegisterAt, SignInAt
      <3> QED
        BY <3>1, <3>2
    <2> QED
      BY <2>1 DEF ChainsAgree
  <1>10. AtHome'
    BY <1>5 DEF AtHome
  <1>11. QueuesOwn' /\ (NewTold => NewTold')
    BY <1>2 DEF Calm, QueuesOwn, NewTold
  <1>12. NoneAbandoned'
    BY <1>2, <1>11 DEF Calm, NoneAbandoned
  <1> QED
    BY <1>7, <1>8, <1>9, <1>10, <1>11, <1>12 DEF Calm

\* A registration that is told gets the model of its account.
LEMMA RegistrationFetches ==
    ASSUME Accounted, Chains, Kept, Calm, NEW t \in DOMAIN work, FinishRegistration(t)
    PROVE  Calm'
  <1>1. AccountTypes
    BY DEF Accounted
  <1>s. work[t].stage = "written"
    BY DEF FinishRegistration
  <1>2. /\ FetchBegun(work, work', t, auth') /\ auth' = auth /\ model' = NewModel(auth')
        /\ login' = login /\ docs' = docs /\ queue' = queue /\ changes' = changes
        /\ page' = page /\ faults' = faults /\ abandoned' = abandoned
    BY <1>1, <1>s, FetchBegins
  <1>3. work[t].kind = "register" /\ RegisterAt(t)
    BY <1>s DEF Chains, ChainAt, Calm, ChainsAgree
  <1>4. \A i \in DOMAIN work \ {t} : work[i].kind = "register" /\ work[i].stage = "creating"
    BY <1>s, <1>3, OthersCreate
  <1>5. /\ auth = work[t].uid /\ login[work[t].uid] = work[t].address /\ page # "home"
        /\ docs[work[t].uid] # NoDocument
    BY <1>s, <1>3 DEF RegisterAt
  <1>6. \A i \in DOMAIN work' : /\ i \in DOMAIN work /\ work'[i].kind = "register"
                                /\ work'[i].address = work[i].address
                                /\ i # t => work'[i].stage = "creating"
    BY <1>2, <1>3, <1>4 DEF FetchBegun, SameChain
  <1>7. Alike' /\ OneRegistration'
    BY <1>6 DEF Calm, Alike, OneRegistration
  <1>8. ChangesAlone'
    BY <1>2, <1>6 DEF Calm, ChangesAlone
  <1>9. ChainsAgree'
    <2>1. ASSUME NEW i \in DOMAIN work' PROVE RegisterAt(i)' /\ SignInAt(i)'
      <3>1. CASE i # t
        BY <1>6, <3>1 DEF RegisterAt, SignInAt
      <3>2. CASE i = t
        <4>1. work'[i].stage = "fetching" /\ work'[i].uid = auth' /\ work'[i].kind = "register"
              /\ work'[i].address = work[t].address
          BY <1>2, <1>6, <3>2 DEF FetchBegun
        <4>2. model'.uid = auth'
          BY <1>2 DEF NewModel
        <4> QED
          BY <1>2, <1>5, <4>1, <4>2 DEF RegisterAt, SignInAt
      <3> QED
        BY <3>1, <3>2
    <2> QED
      BY <2>1 DEF ChainsAgree
  <1>10. AtHome'
    BY <1>2, <1>5 DEF AtHome
  <1>11. QueuesOwn' /\ (NewTold => NewTold')
    BY <1>2, QueuesSame
  <1>12. NoneAbandoned'
    BY <1>2, <1>11 DEF Calm, NoneAbandoned
  <1> QED
    BY <1>7, <1>8, <1>9, <1>10, <1>11, <1>12 DEF Calm

\* A sign-in that is accepted: the others are of the same account.
LEMMA SignInFetches ==
    ASSUME Accounted, LoginsDiffer, Chains, Kept, Calm, NEW t \in DOMAIN work, AcceptSignIn(t)
    PROVE  Calm'
  <1>1. AccountTypes /\ Known
    BY DEF Accounted, Counted
  <1>s. work[t].stage = "signing"
    BY DEF AcceptSignIn
  <1>2. /\ FetchBegun(work, work', t, auth') /\ auth' \in Account /\ model' = NewModel(auth')
        /\ auth' \in Holder(work[t].address)
        /\ login' = login /\ docs' = docs /\ queue' = queue /\ changes' = changes
        /\ page' = page /\ faults' = faults /\ abandoned' = abandoned
    BY <1>1, <1>s, FetchBegins
  <1>u. PICK u \in Account : u = auth'
    BY <1>2
  <1>h. u \in Registered /\ login[u] = work[t].address
    BY <1>2, <1>u DEF Holder
  <1>m. model'.uid = u
    BY <1>2, <1>u DEF NewModel
  <1>3. \A i \in DOMAIN work : work[i].kind = "signin" /\ work[i].address = work[t].address
    <2>1. work[t].kind = "signin"
      BY <1>s DEF Chains, ChainAt
    <2> QED
      BY <2>1 DEF Calm, Alike
  <1>4. ASSUME NEW i \in DOMAIN work, work[i].stage # "signing"
        PROVE  work[i].uid = u
    <2>1. login[work[i].uid] = work[i].address
      BY <1>3, <1>4 DEF Calm, ChainsAgree, SignInAt
    <2>2. work[i].stage \notin Early
      BY <1>3, <1>4 DEF Chains, ChainAt, Early
    <2>3. work[i].uid \in Account
      BY <1>1, <2>2, WorkOf
    <2>4. work[i].uid \in Registered
      <3>1. work[i].uid # Nobody
        BY <2>3, SignUpAssumption DEF Account, Nobody
      <3> QED
        BY <1>1, <3>1 DEF Known
    <2>5. login[work[i].uid] = login[u]
      BY <1>3, <1>h, <2>1
    <2> QED
      BY <1>h, <2>4, <2>5 DEF LoginsDiffer
  <1>5. \A i \in DOMAIN work' :
           /\ i \in DOMAIN work /\ work'[i].kind = "signin" /\ work'[i].address = work[t].address
           /\ work'[i].shown = work[i].shown
           /\ i # t => work'[i].stage = work[i].stage /\ work'[i].uid = work[i].uid
    BY <1>2, <1>3 DEF FetchBegun, SameChain
  <1>6. Alike' /\ OneRegistration'
    BY <1>5 DEF Alike, OneRegistration
  <1>7. ChangesAlone'
    BY <1>2, <1>5 DEF Calm, ChangesAlone
  <1>g. Given(u) => Given(u)'
    BY <1>2 DEF Given, NewAt
  <1>8. ChainsAgree'
    <2>1. ASSUME NEW i \in DOMAIN work' PROVE RegisterAt(i)' /\ SignInAt(i)'
      <3>1. RegisterAt(i)'
        BY <1>5 DEF RegisterAt
      <3>2. CASE i = t
        <4>1. work'[i].stage = "fetching" /\ work'[i].uid = u
          BY <1>2, <1>u, <3>2 DEF FetchBegun
        <4>2. login'[work'[i].uid] = work'[i].address
          BY <1>2, <1>5, <1>h, <4>1
        <4>3. SignInAt(i)'
          BY <1>u, <1>m, <4>1, <4>2 DEF SignInAt
        <4> QED
          BY <3>1, <4>3
      <3>3. CASE i # t
        <4>1. CASE work[i].stage = "signing"
          BY <1>5, <3>1, <3>3, <4>1 DEF SignInAt
        <4>2. CASE work[i].stage # "signing"
          <5>1. work[i].uid = u /\ SignInAt(i) /\ i \in DOMAIN work
            BY <1>4, <1>5, <4>2 DEF Calm, ChainsAgree
          <5>2. login'[work'[i].uid] = work'[i].address
            BY <1>2, <1>3, <1>5, <1>h, <3>3, <5>1
          <5>3. work'[i].shown /\ work'[i].stage = "looking" => Given(u)
            <6>1. work[i].shown /\ work[i].stage = "looking" => auth = u /\ Given(auth)
              BY <1>3, <4>2, <5>1 DEF SignInAt
            <6> QED
              BY <1>5, <3>3, <6>1
          <5>4. SignInAt(i)'
            <6>1. work'[i].uid = auth' /\ model'.uid = auth'
              BY <1>5, <1>u, <1>m, <3>3, <5>1
            <6>2. Given(u)' => Given(auth)'
              BY <1>u DEF Given
            <6> QED
              BY <1>g, <5>2, <5>3, <6>1, <6>2 DEF SignInAt
          <5> QED
            BY <3>1, <5>4
        <4> QED
          BY <4>1, <4>2
      <3> QED
        BY <3>2, <3>3
    <2> QED
      BY <2>1 DEF ChainsAgree
  <1>9. AtHome'
    <2>1. CASE page # "home"
      BY <1>2, <2>1 DEF AtHome
    <2>2. CASE page = "home"
      <3>1. auth # Nobody /\ Given(auth) /\ work[t].address = login[auth]
        BY <2>2 DEF Calm, AtHome
      <3>2. auth \in Registered
        BY <1>1, <3>1 DEF Known
      <3>3. auth = u
        BY <1>h, <3>1, <3>2 DEF LoginsDiffer
      <3>4. Given(u)'
        BY <1>g, <3>1, <3>3
      <3>5. Given(auth)'
        BY <1>u, <3>4 DEF Given
      <3>6. u # Nobody /\ \A i \in DOMAIN work' : work'[i].address = login'[u]
        BY <1>2, <1>5, <1>h, <3>1, <3>3
      <3> QED
        BY <1>u, <1>m, <3>5, <3>6 DEF AtHome
    <2> QED
      BY <2>1, <2>2
  <1>10. QueuesOwn' /\ (NewTold => NewTold')
    BY <1>2 DEF Calm, QueuesOwn, NewTold
  <1>11. NoneAbandoned'
    BY <1>2, <1>10 DEF Calm, NoneAbandoned
  <1> QED
    BY <1>6, <1>7, <1>8, <1>9, <1>10, <1>11 DEF Calm

\* A chain that ends without the home page.
LEMMA HiddenFinishCalm ==
    ASSUME Accounted, Kept, Calm, NEW t \in DOMAIN work, FinishFetch(t), ~work[t].shown
    PROVE  Calm'
  <1>1. AccountTypes
    BY DEF Accounted
  <1>2. /\ Finished(work, work', t)
        /\ login' = login /\ docs' = docs /\ queue' = queue /\ changes' = changes /\ auth' = auth
        /\ model' = IF work[t].current
                    THEN [model EXCEPT !.loaded = TRUE, !.list = work[t].list] ELSE model
        /\ page' = page /\ faults' = faults /\ abandoned' = abandoned
    BY <1>1, FinishFetchDoes
  <1>3. model'.uid = model.uid
    BY <1>1, <1>2 DEF AccountTypes, ModelOf
  <1>4. Frame
    BY <1>2, <1>3 DEF Frame, Finished, SameChain
  <1>5. \A i \in DOMAIN work' : Carries(i)
    BY <1>2, <1>3 DEF Finished, Carries
  <1>6. QueuesOwn' /\ (NewTold => NewTold') /\ (Given(auth) => Given(auth)')
    BY <1>2, QueuesSame
  <1>7. NoneAbandoned'
    BY <1>2, <1>6 DEF Calm, NoneAbandoned
  <1> QED
    BY <1>4, <1>5, <1>6, <1>7, FrameCalm

\* A chain that shows the home page: its account is signed in.
LEMMA ShownFinishCalm ==
    ASSUME Accounted, Chains, Kept, Calm, NEW t \in DOMAIN work, FinishFetch(t), work[t].shown
    PROVE  Calm'
  <1>1. AccountTypes
    BY DEF Accounted
  <1>2. /\ Finished(work, work', t) /\ work[t].stage = "looking"
        /\ login' = login /\ docs' = docs /\ queue' = queue /\ changes' = changes /\ auth' = auth
        /\ model' = IF work[t].current
                    THEN [model EXCEPT !.loaded = TRUE, !.list = work[t].list] ELSE model
        /\ faults' = faults /\ abandoned' = abandoned
    BY <1>1, FinishFetchDoes
  <1>3. model'.uid = model.uid
    BY <1>1, <1>2 DEF AccountTypes, ModelOf
  <1>4. work[t].uid \in Account /\ work[t].kind \in {"register", "signin"}
    BY <1>1, <1>2, WorkOf DEF Early
  <1>5. RegisterAt(t) /\ SignInAt(t)
    BY DEF Calm, ChainsAgree
  <1>6. /\ auth = work[t].uid /\ model.uid = auth /\ login[auth] = work[t].address
        /\ Given(auth)
    <2>1. CASE work[t].kind = "register"
      BY <1>2, <1>5, <2>1 DEF RegisterAt, Given
    <2>2. CASE work[t].kind = "signin"
      BY <1>2, <1>5, <2>2 DEF SignInAt
    <2> QED
      BY <1>4, <2>1, <2>2
  <1>7. \A i \in DOMAIN work' :
           /\ i \in DOMAIN work /\ i # t /\ work'[i].kind = work[i].kind
           /\ work'[i].address = work[i].address /\ work'[i].stage = work[i].stage
           /\ work'[i].uid = work[i].uid /\ ~work'[i].shown
    BY <1>2 DEF Finished, SameChain
  <1>8. Alike' /\ OneRegistration'
    BY <1>7 DEF Calm, Alike, OneRegistration
  <1>9. ChangesAlone'
    BY <1>2, <1>7 DEF Calm, ChangesAlone
  <1>10. ChainsAgree'
    <2>1. ASSUME NEW i \in DOMAIN work' PROVE RegisterAt(i)' /\ SignInAt(i)'
      <3>1. RegisterAt(i)'
        <4>1. work[i].kind = "register" => work[i].stage = "creating"
          BY <1>2, <1>7 DEF Calm, OneRegistration
        <4> QED
          BY <1>7, <4>1 DEF RegisterAt
      <3>2. SignInAt(i)'
        <4>1. SignInAt(i)
          BY <1>7 DEF Calm, ChainsAgree
        <4> QED
          BY <1>2, <1>7, <4>1 DEF SignInAt
      <3> QED
        BY <3>1, <3>2
    <2> QED
      BY <2>1 DEF ChainsAgree
  <1>11. QueuesOwn' /\ (NewTold => NewTold') /\ (Given(auth) => Given(auth)')
    BY <1>2, QueuesSame
  <1>12. AtHome'
    <2>1. auth # Nobody
      BY <1>4, <1>6, SignUpAssumption DEF Account, Nobody
    <2>2. \A i \in DOMAIN work' : work'[i].address = login'[auth']
      BY <1>2, <1>6, <1>7 DEF Calm, Alike
    <2> QED
      BY <1>2, <1>3, <1>6, <1>11, <2>1, <2>2 DEF AtHome
  <1>13. NoneAbandoned'
    BY <1>2, <1>11 DEF Calm, NoneAbandoned
  <1> QED
    BY <1>8, <1>9, <1>10, <1>11, <1>12, <1>13 DEF Calm

\* A write is sent: it is the signed-in account's own.
LEMMA SendWriteCalm ==
    ASSUME Accounted, Chains, Kept, Calm, SendWrite
    PROVE  Calm'
  <1>1. AccountTypes /\ Waiting /\ EmailsOwn
    BY DEF Accounted, Counted
  <1> DEFINE w == Head(queue[auth])
  <1>2. /\ auth \in Account /\ queue[auth] # <<>>
        /\ w \in PendingWrite /\ w = queue[auth][1] /\ 1 \in DOMAIN queue[auth]
        /\ queue' = Sent(queue, auth) /\ ToldOf(work, work', w) /\ Applied(w)
        /\ login' = login /\ changes' = changes /\ auth' = auth /\ model' = model
        /\ page' = page /\ faults' = faults /\ abandoned' = abandoned
    BY <1>1, SendWriteDoes
  <1> HIDE DEF w
  <1>3. Shorter(queue, queue', auth)
    BY <1>1, <1>2, QueueSent DEF AccountTypes
  <1>4. w.uid = auth
    BY <1>2 DEF Calm, QueuesOwn
  <1>5. QueuesOwn'
    BY <1>3 DEF Calm, QueuesOwn, Shorter
  <1>6. NewTold => NewTold'
    BY <1>3 DEF NewTold, Shorter
  <1>7. NoneAbandoned'
    BY <1>2, <1>6 DEF Calm, NoneAbandoned
  <1>8. w.kind = "new" => docs'[auth] # NoDocument
    <2>1. Written(w) # NoDocument
      BY <1>2, WrittenType
    <2> QED
      BY <1>2, <1>4, <2>1 DEF Applied
  <1>9. Given(auth) => Given(auth)'
    <2>1. PICK a \in Account : a = auth
      BY <1>2
    <2>2. ASSUME NEW k, NewAt(a, k, a), docs'[a] = NoDocument PROVE \E j : NewAt(a, j, a)'
      <3>1. k # 1
        BY <1>2, <1>8, <2>1, <2>2 DEF NewAt
      <3> QED
        BY <1>3, <2>1, <2>2, <3>1, NewShorter
    <2>3. Given(a) => Given(a)'
      BY <2>2, StillGiven
    <2> QED
      BY <1>2, <2>1, <2>3 DEF Given
  <1>10. CASE w.tap \notin DOMAIN work
    <2>1. \A i \in DOMAIN work' : i \in DOMAIN work /\ work'[i] = work[i]
      BY <1>2, <1>10 DEF ToldOf, AllButOne
    <2>2. Frame
      BY <1>2, <2>1 DEF Frame
    <2>3. \A i \in DOMAIN work' : Carries(i)
      BY <1>2, <2>1 DEF Carries, SameChain
    <2> QED
      BY <1>5, <1>7, <1>9, <2>2, <2>3, FrameCalm
  <1>11. CASE w.tap \in DOMAIN work
    <2>1. PICK t \in DOMAIN work : t = w.tap
      BY <1>11
    <2>2. /\ AllButOne(work, work', t) /\ SameTap(work[t], work'[t])
          /\ work[t].stage = "writing" /\ work'[t].stage = "written"
          /\ work[t].uid = w.uid /\ work'[t].uid = w.uid /\ w.tap # 0
      BY <1>2, <2>1 DEF ToldOf
    <2>3. w.kind = "new"
      BY <1>1, <1>2, <2>2 DEF EmailsOwn, PendingWrite
    <2>4. work[t].kind = "register" /\ RegisterAt(t)
      BY <2>2 DEF Chains, ChainAt, Calm, ChainsAgree
    <2>5. RegisterAt(t)'
      BY <1>2, <1>4, <1>8, <2>2, <2>3, <2>4 DEF RegisterAt, SameTap
    <2>6. SignInAt(t)'
      BY <2>2, <2>4 DEF SignInAt, SameTap
    <2> QED
      BY <1>2, <1>5, <1>7, <1>9, <2>2, <2>5, <2>6, OneMoves
  <1> QED
    BY <1>10, <1>11

\* Nothing is refused: nobody writes for another account.
LEMMA NoneRefused ==
    ASSUME Accounted, Calm
    PROVE  ~RefuseWrite
  <1>1. AccountTypes /\ Waiting
    BY DEF Accounted, Counted
  <1>2. ASSUME RefuseWrite PROVE FALSE
    <2> DEFINE w == Head(queue[auth])
    <2>1. auth \in Account /\ w = queue[auth][1] /\ 1 \in DOMAIN queue[auth] /\ w.uid # auth
      BY <1>1, <1>2, RefuseWriteDoes
    <2> HIDE DEF w
    <2> QED
      BY <2>1 DEF Calm, QueuesOwn
  <1> QED
    BY <1>2

\* Pages: who signs out leaves the home page, where no registration is under way.
LEMMA PagesCalm ==
    ASSUME Accounted, Chains, Kept, Calm,
           GoBack \/ SignOut \/ \E p \in {"login", "details"} : OpenPage(p)
    PROVE  Calm'
  <1>1. AccountTypes
    BY DEF Accounted
  <1>2. /\ SameWork(work, work') /\ page' # "home"
        /\ login' = login /\ docs' = docs /\ queue' = queue /\ changes' = changes
        /\ model' = model /\ faults' = faults /\ abandoned' = abandoned
    BY <1>1, PagesDo
  <1>3. (\A i \in DOMAIN work' : ~work'[i].shown) /\ (auth' = auth \/ page = "home")
    BY PagesHide
  <1>4. \A i \in DOMAIN work' : i \in DOMAIN work /\ SameChain(work[i], work'[i])
    BY <1>2 DEF SameWork
  <1>5. Alike' /\ OneRegistration'
    BY <1>4 DEF Calm, Alike, OneRegistration, SameChain
  <1>6. ChangesAlone'
    BY <1>2, <1>4 DEF Calm, ChangesAlone
  <1>7. ChainsAgree'
    <2>1. ASSUME NEW i \in DOMAIN work' PROVE RegisterAt(i)' /\ SignInAt(i)'
      <3>1. RegisterAt(i) /\ SignInAt(i)
        BY <1>4 DEF Calm, ChainsAgree
      <3>2. RegisterAt(i)'
        BY <1>2, <1>3, <1>4, <3>1 DEF RegisterAt, SameChain
      <3>3. SignInAt(i)'
        BY <1>2, <1>3, <1>4, <3>1 DEF SignInAt, SameChain
      <3> QED
        BY <3>2, <3>3
    <2> QED
      BY <2>1 DEF ChainsAgree
  <1>8. AtHome'
    BY <1>2 DEF AtHome
  <1>9. QueuesOwn' /\ (NewTold => NewTold')
    BY <1>2 DEF Calm, QueuesOwn, NewTold
  <1>10. NoneAbandoned'
    BY <1>2, <1>9 DEF Calm, NoneAbandoned
  <1> QED
    BY <1>5, <1>6, <1>7, <1>8, <1>9, <1>10 DEF Calm

\* Another tap of the same button, for the same address.
LEMMA BeginCalm ==
    ASSUME Accounted, Chains, Kept, Calm, NEW kind \in {"register", "signin"}, NEW a \in Address,
           Begin(kind, a), error' = error \/ error' = FALSE, page # "home", ~overlapped'
    PROVE  Calm'
  <1>1. AccountTypes /\ error' \in BOOLEAN
    BY DEF Accounted, AccountTypes
  <1>2. PICK t : t = taps'
    OBVIOUS
  <1>3. /\ Tap(work, work', t, kind, a)
        /\ login' = login /\ docs' = docs /\ queue' = queue /\ changes' = changes
        /\ auth' = auth /\ model' = model /\ page' = page /\ faults' = faults
        /\ abandoned' = abandoned
    BY <1>1, <1>2, BeginDoes
  <1>4. Different(kind, a) = {} /\ changes = <<>>
    BY DEF Begin
  <1>5. \A i \in DOMAIN work : work[i].kind = kind /\ work[i].address = a
    BY <1>4 DEF Different
  <1>6. /\ work'[t].kind = kind /\ work'[t].address = a
        /\ work'[t].stage = (IF kind = "register" THEN "creating" ELSE "signing")
    BY <1>3 DEF Tap, Tapped
  <1>7. \A i \in DOMAIN work' : i = t \/ (i \in DOMAIN work /\ work'[i] = work[i])
    BY <1>3 DEF Tap
  <1>8. Alike'
    BY <1>5, <1>6, <1>7 DEF Alike
  <1>9. OneRegistration'
    BY <1>5, <1>6, <1>7 DEF Calm, OneRegistration
  <1>10. ChangesAlone'
    BY <1>3, <1>4 DEF ChangesAlone
  <1>11. ChainsAgree'
    <2>1. ASSUME NEW i \in DOMAIN work' PROVE RegisterAt(i)' /\ SignInAt(i)'
      <3>1. CASE i = t
        BY <1>6, <3>1 DEF RegisterAt, SignInAt
      <3>2. CASE i # t
        <4>1. RegisterAt(i) /\ SignInAt(i) /\ work'[i] = work[i]
          BY <1>7, <3>2 DEF Calm, ChainsAgree
        <4>2. Given(auth) => Given(auth)'
          BY <1>3, QueuesSame
        <4> QED
          BY <1>3, <4>1, <4>2 DEF RegisterAt, SignInAt
      <3> QED
        BY <3>1, <3>2
    <2> QED
      BY <2>1 DEF ChainsAgree
  <1>12. AtHome'
    BY <1>3 DEF AtHome
  <1>13. QueuesOwn' /\ (NewTold => NewTold')
    BY <1>3, QueuesSame
  <1>14. NoneAbandoned'
    BY <1>3, <1>13 DEF Calm, NoneAbandoned
  <1> QED
    BY <1>8, <1>9, <1>10, <1>11, <1>12, <1>13, <1>14 DEF Calm

\* A change of the address is begun with no work under way.
LEMMA ChangeEmailCalm ==
    ASSUME Accounted, Kept, Calm, NEW a \in Address, ChangeEmail(a), ~overlapped'
    PROVE  Calm'
  <1>1. AccountTypes
    BY DEF Accounted
  <1>2. /\ auth \in Account /\ EmailWrite(a) \in PendingWrite
        /\ queue' = Queued(queue, auth, EmailWrite(a))
        /\ overlapped' = (overlapped \/ DOMAIN work # {})
        /\ login' = login /\ docs' = docs /\ auth' = auth /\ model' = model /\ page' = page
        /\ work' = work /\ abandoned' = abandoned /\ faults' = faults
    BY <1>1, ChangeEmailDoes
  <1>3. DOMAIN work' = {} /\ DOMAIN work = {}
    BY <1>2
  <1> DEFINE r == EmailWrite(a)
             n == Len(queue[auth]) + 1
  <1>4. r.uid = auth /\ r.kind = "email" /\ r \in PendingWrite /\ queue' = Queued(queue, auth, r)
    BY <1>2 DEF EmailWrite
  <1> HIDE DEF r
  <1>5. Longer(queue, queue', auth, r, n)
    <2>1. queue \in Queues
      BY <1>1 DEF AccountTypes
    <2> QED
      BY <1>2, <1>4, <2>1, QueueAppended
  <1> HIDE DEF n
  <1>6. QueuesOwn'
    BY <1>4, <1>5 DEF Calm, QueuesOwn, Longer
  <1>7. NewTold => NewTold'
    BY <1>4, <1>5 DEF NewTold, Longer
  <1>8. NoneAbandoned'
    BY <1>2, <1>7 DEF Calm, NoneAbandoned
  <1>9. Given(auth) => Given(auth)'
    <2>1. \A v \in Account : \A k, u : NewAt(v, k, u) => NewAt(v, k, u)'
      BY <1>2, <1>5, NewLonger
    <2>2. PICK b \in Account : b = auth
      BY <1>2
    <2>3. Given(b) => Given(b)'
      BY <1>2, <2>1 DEF Given
    <2> QED
      BY <1>2, <2>2, <2>3 DEF Given
  <1>10. AtHome'
    BY <1>2, <1>3, <1>9 DEF Calm, AtHome
  <1>11. Alike' /\ ChangesAlone' /\ OneRegistration' /\ ChainsAgree'
    BY <1>3 DEF Alike, ChangesAlone, OneRegistration, ChainsAgree
  <1> QED
    BY <1>6, <1>8, <1>10, <1>11 DEF Calm

\* It is answered with none under way.
LEMMA AnswerChangeCalm ==
    ASSUME Accounted, Kept, Calm, NEW k \in DOMAIN changes, AnswerChange(k)
    PROVE  Calm'
  <1>1. AccountTypes
    BY DEF Accounted
  <1>2. /\ docs' = docs /\ queue' = queue /\ auth' = auth /\ model' = model /\ page' = page
        /\ work' = work /\ abandoned' = abandoned
        /\ faults' \in {faults, faults + 1} /\ faults \in Nat
    BY <1>1, AnswerChangeDoes
  <1>3. DOMAIN work' = {} /\ DOMAIN work = {}
    BY <1>2 DEF Calm, ChangesAlone
  <1>4. QueuesOwn' /\ (NewTold => NewTold') /\ (Given(auth) => Given(auth)')
    BY <1>2, QueuesSame
  <1>5. NoneAbandoned'
    BY <1>2, <1>4, NoneMore DEF Calm
  <1>6. AtHome'
    BY <1>2, <1>3, <1>4 DEF Calm, AtHome
  <1>7. Alike' /\ ChangesAlone' /\ OneRegistration' /\ ChainsAgree'
    BY <1>3 DEF Alike, ChangesAlone, OneRegistration, ChainsAgree
  <1> QED
    BY <1>4, <1>5, <1>6, <1>7 DEF Calm

\* While nothing overlaps and nothing has failed, no chain meets a value missing.
LEMMA NoTraps ==
    ASSUME Accounted, Chains, Images, Calm, faults = 0
    PROVE  \A t \in DOMAIN work : ~WorkTraps(t)
  <1> SUFFICES ASSUME NEW t \in DOMAIN work, WorkTraps(t) PROVE FALSE
    OBVIOUS
  <1>1. AccountTypes /\ Waiting /\ Known /\ Alive
    BY DEF Accounted, Counted
  <1>2. RegisterAt(t) /\ SignInAt(t) /\ ChainAt(t)
    BY DEF Calm, ChainsAgree, Chains
  <1>3. Nobody \notin Account
    BY SignUpAssumption DEF Account, Nobody
  <1>4. CASE work[t].stage = "written" /\ auth = Nobody
    <2>1. work[t].kind = "register" /\ work[t].uid \in Account
      BY <1>1, <1>2, <1>4, WorkOf DEF ChainAt, Early
    <2>2. auth = work[t].uid
      BY <1>2, <1>4, <2>1 DEF RegisterAt
    <2> QED
      BY <1>3, <1>4, <2>1, <2>2
  <1>5. CASE work[t].stage = "fetching" /\ Seen(work[t].uid) = NoDocument
    <2>1. PICK u \in Account : u = work[t].uid
      BY <1>1, <1>5, WorkOf DEF Early
    <2>2. docs[u] = NoDocument
      BY <1>1, <1>5, <2>1, SeenType
    <2>3. work[t].kind = "signin"
      <3>1. work[t].kind # "register"
        BY <1>2, <1>5, <2>1, <2>2 DEF RegisterAt
      <3> QED
        BY <1>1, <3>1, WorkOf
    <2>4. \A s \in DOMAIN work : work[s].kind = "signin"
      BY <2>3 DEF Calm, Alike
    <2>5. u \in Registered \ abandoned
      <3>1. u # Nobody
        BY <1>3
      <3> QED
        BY <1>1, <2>1, <3>1 DEF Known, Calm, NoneAbandoned
    <2>6. ASSUME NEW v \in Account, NEW k \in DOMAIN queue[v], NewAt(v, k, u) PROVE FALSE
      <3>1. queue[v][k].tap # 0
        BY <2>6 DEF NewAt, Calm, NoneAbandoned, NewTold
      <3>2. PICK s \in DOMAIN work : work[s].stage = "writing"
        BY <1>1, <3>1 DEF Waiting
      <3> QED
        BY <2>4, <3>2 DEF Chains, ChainAt
    <2>7. ASSUME NEW s \in DOMAIN work, Creating(s) PROVE FALSE
      BY <2>4, <2>7 DEF Creating, Chains, ChainAt
    <2> QED
      BY <1>1, <2>2, <2>5, <2>6, <2>7 DEF Alive
  <1>6. CASE work[t].stage = "looking" /\ work[t].left = {} /\ ~work[t].image
    BY <1>6 DEF Images
  <1> QED
    BY <1>4, <1>5, <1>6 DEF WorkTraps

\* At rest nothing is lost with the process.
LEMMA RestDies ==
    ASSUME AccountTypes, AtRest, Die
    PROVE  abandoned' = abandoned
  <1> DEFINE bound == IF auth = Nobody THEN 0 ELSE Len(queue[auth])
             Lost(n) == IF auth = Nobody THEN {}
                        ELSE Range(SubSeq(queue[auth], n + 1, Len(queue[auth])))
             Gone(n) == {l \in Lost(n) : l.kind = "new"}
  <1>1. bound = 0
    BY DEF AtRest
  <1>2. Lost(0) = {}
    <2>1. CASE auth = Nobody
      BY <2>1
    <2>2. CASE auth # Nobody
      <3>1. queue[auth] = <<>>
        BY <2>2 DEF AtRest
      <3>2. SubSeq(<<>>, 0 + 1, Len(<<>>)) = <<>>
        OBVIOUS
      <3>3. Range(<<>>) = {}
        BY DEF Range
      <3> QED
        BY <2>2, <3>1, <3>2, <3>3
    <2> QED
      BY <2>1, <2>2
  <1>3. Registering(work) = {}
    BY DEF AtRest, Registering
  <1>4. PICK n \in 0..bound : \E R \in SUBSET Registering(work) :
           abandoned' = abandoned \cup {w.uid : w \in Gone(n)} \cup R
    BY DEF Die
  <1>5. n = 0
    BY <1>1, <1>4
  <1>6. {w.uid : w \in Gone(n)} = {}
    BY <1>2, <1>5
  <1> QED
    BY <1>3, <1>4, <1>6

\* The end of the process: without a fault it comes at rest only.
LEMMA EndCalm ==
    ASSUME Accounted, Chains, Images, Calm, End
    PROVE  Calm'
  <1>1. AccountTypes /\ Waiting
    BY DEF Accounted, Counted
  <1>2. /\ CutShort(queue, queue', auth) /\ DOMAIN work' = {} /\ changes' = <<>>
        /\ page' = "intro" /\ faults' \in {faults, faults + 1} /\ faults \in Nat
    BY <1>1, EndDoes
  <1>3. Alike' /\ ChangesAlone' /\ OneRegistration' /\ ChainsAgree' /\ AtHome'
    BY <1>2 DEF Alike, ChangesAlone, OneRegistration, ChainsAgree, AtHome
  <1>4. QueuesOwn'
    <2>1. QueuesOwn
      BY DEF Calm
    <2> QED
      BY <1>2, <2>1 DEF QueuesOwn, CutShort, SameWrite
  <1>5. NoneAbandoned'
    <2> SUFFICES ASSUME faults' = 0 PROVE abandoned' = {} /\ NewTold'
      BY DEF NoneAbandoned
    <2>1. faults = 0 /\ ~Fault
      BY <1>2 DEF Fault
    <2>2. abandoned = {} /\ NewTold
      BY <2>1 DEF Calm, NoneAbandoned
    <2>3. AtRest /\ Die
      BY <2>1, NoTraps DEF End
    <2>4. abandoned' = {}
      BY <1>1, <2>2, <2>3, RestDies
    <2>5. ASSUME NEW v \in Account, NEW k \in DOMAIN queue[v], queue[v][k].kind = "new" PROVE FALSE
      <3>1. queue[v][k].tap \in DOMAIN work
        BY <1>1, <2>2, <2>5 DEF NewTold, Waiting
      <3> QED
        BY <2>3, <3>1 DEF AtRest
    <2>6. NewTold'
      BY <1>2, <2>5 DEF NewTold, CutShort, SameWrite
    <2> QED
      BY <2>4, <2>6
  <1> QED
    BY <1>3, <1>4, <1>5 DEF Calm

\* What overlapped once has overlapped.
LEMMA OverlapStays ==
    ASSUME Accounted, AccountStep, ~overlapped'
    PROVE  ~overlapped
  <1>1. AccountTypes /\ Waiting
    BY DEF Accounted, Counted
  <1>2. ASSUME NEW kind, NEW a, Begin(kind, a) PROVE ~overlapped
    BY <1>2 DEF Begin
  <1>3. ASSUME NEW a, ChangeEmail(a) PROVE ~overlapped
    BY <1>3 DEF ChangeEmail
  <1>4. ASSUME NEW t \in DOMAIN work,
               \/ CreateLogin(t) \/ TakeLogin(t) \/ Upload(t) \/ FinishFetch(t)
               \/ RefuseLogin(t) \/ RefuseSignIn(t) \/ LoseLogin(t) \/ LoseUpload(t) \/ LoseAnswer(t)
        PROVE  ~overlapped
    BY <1>1, <1>4, CreateLoginDoes, TakeLoginDoes, UploadStops, UploadQueues, FinishFetchDoes, LossesDo
  <1>5. ASSUME NEW t \in DOMAIN work,
               \/ FinishRegistration(t) \/ AcceptSignIn(t)
               \/ AnswerFetch(t) \/ \E c \in Challenge : LookUp(t, c)
        PROVE  ~overlapped
    BY <1>1, <1>5, FetchBegins, AnswerFetchDoes, LookUpDoes
  <1>6. ASSUME \/ SendWrite \/ RefuseWrite \/ End \/ Aside
               \/ \E k \in DOMAIN changes : AnswerChange(k)
               \/ GoBack \/ SignOut \/ \E p \in {"login", "details"} : OpenPage(p)
        PROVE  ~overlapped
    BY <1>1, <1>6, SendWriteDoes, RefuseWriteDoes, EndDoes, AsideDoes, AnswerChangeDoes, PagesDo
  <1> QED
    BY <1>2, <1>3, <1>4, <1>5, <1>6, AccountSteps

\* A step of the lists.
LEMMA AsideCalm ==
    ASSUME Accounted, Kept, Calm, Aside
    PROVE  Calm'
  <1>1. AccountTypes
    BY DEF Accounted
  <1>2. /\ faults' \in {faults, faults + 1} /\ faults \in Nat
        /\ login' = login /\ docs' = docs /\ queue' = queue /\ changes' = changes
        /\ auth' = auth /\ model' = model /\ page' = page /\ work' = work
        /\ abandoned' = abandoned
    BY <1>1, AsideDoes
  <1>3. Frame
    BY <1>2 DEF Frame
  <1>4. \A i \in DOMAIN work' : Carries(i)
    BY <1>2 DEF Carries, SameChain
  <1>5. QueuesOwn' /\ (NewTold => NewTold') /\ (Given(auth) => Given(auth)')
    BY <1>2, QueuesSame
  <1>6. NoneAbandoned'
    BY <1>2, <1>5, NoneMore DEF Calm
  <1> QED
    BY <1>3, <1>4, <1>5, <1>6, FrameCalm

\* Every step that does not overlap keeps the session calm.
LEMMA CalmStep ==
    ASSUME Accounted, LoginsDiffer, Chains, Images, Calm, AccountStep, ~overlapped'
    PROVE  Calm'
  <1>1. Kept
    BY DocumentsKept
  <1>2. ASSUME NEW kind \in {"register", "signin"}, NEW a \in Address,
               Begin(kind, a), error' = error \/ error' = FALSE,
               page = (IF kind = "register" THEN "details" ELSE "login")
        PROVE  Calm'
    <2>1. page # "home"
      BY <1>2
    <2> QED
      BY <1>1, <1>2, <2>1, BeginCalm
  <1>3. ASSUME NEW t \in DOMAIN work, FinishFetch(t) PROVE Calm'
    BY <1>1, <1>3, HiddenFinishCalm, ShownFinishCalm
  <1>4. ASSUME NEW t \in DOMAIN work,
               \/ CreateLogin(t) \/ TakeLogin(t) \/ Upload(t)
               \/ FinishRegistration(t) \/ AcceptSignIn(t)
        PROVE  Calm'
    BY <1>1, <1>4, CreateLoginCalm, TakeLoginCalm, UploadCalm, RegistrationFetches, SignInFetches
  <1>5. ASSUME NEW t \in DOMAIN work,
               \/ RefuseLogin(t) \/ RefuseSignIn(t) \/ LoseLogin(t) \/ LoseUpload(t) \/ LoseAnswer(t)
               \/ AnswerFetch(t) \/ \E c \in Challenge : LookUp(t, c)
        PROVE  Calm'
    BY <1>1, <1>5, LossesCalm, AnswerFetchCalm, LookUpCalm
  <1>6. ASSUME NEW a \in Address, ChangeEmail(a) PROVE Calm'
    BY <1>1, <1>6, ChangeEmailCalm
  <1>7. ASSUME NEW k \in DOMAIN changes, AnswerChange(k) PROVE Calm'
    BY <1>1, <1>7, AnswerChangeCalm
  <1>8. ASSUME SendWrite \/ RefuseWrite PROVE Calm'
    BY <1>1, <1>8, SendWriteCalm, NoneRefused
  <1>9. ASSUME GoBack \/ SignOut \/ \E p \in {"login", "details"} : OpenPage(p) PROVE Calm'
    BY <1>1, <1>9, PagesCalm
  <1>10. ASSUME End PROVE Calm'
    BY <1>10, EndCalm
  <1>11. ASSUME Aside PROVE Calm'
    BY <1>1, <1>11, AsideCalm
  <1> QED
    BY <1>2, <1>3, <1>4, <1>5, <1>6, <1>7, <1>8, <1>9, <1>10, <1>11, AccountSteps

-----------------------------------------------------------------------------
\* The inductive invariant of the session.
Sessions ==
    /\ LoginsDiffer /\ Chains /\ Loaded /\ Images
    /\ ~overlapped => Calm

\* The session is calm when the app starts.
LEMMA SessionsInit == Init => Sessions
  <1> SUFFICES ASSUME Init PROVE Sessions
    OBVIOUS
  <1>1. DOMAIN work = {}
    BY DEF Init
  <1>2. LoginsDiffer
    <2>1. \A u \in Account : login[u] = IF u = Old THEN Mine ELSE NoAddress
      BY DEF Init
    <2> QED
      BY <2>1 DEF LoginsDiffer, Registered
  <1>3. \A u \in Account : DOMAIN queue[u] = {}
    BY DEF Init
  <1>4. Chains /\ Alike /\ ChangesAlone /\ OneRegistration /\ ChainsAgree
    BY <1>1 DEF Chains, Alike, ChangesAlone, OneRegistration, ChainsAgree
  <1>5. Loaded /\ AtHome
    BY DEF Init, Loaded, AtHome, NoModel
  <1>6. QueuesOwn /\ NoneAbandoned
    BY <1>3 DEF Init, QueuesOwn, NoneAbandoned, NewTold
  <1>7. Images
    <2>1. \A u \in Account : docs[u] # NoDocument => docs[u].image
      BY DEF Init
    <2> QED
      BY <1>1, <1>3, <2>1 DEF Images
  <1> QED
    BY <1>2, <1>4, <1>5, <1>6, <1>7 DEF Sessions, Calm

\* Every step keeps it so, until something overlaps.
LEMMA SessionsStep ==
    ASSUME Accounted, Sessions, AccountStep
    PROVE  Sessions'
  <1>1. LoginsDiffer /\ Chains /\ Loaded /\ Images /\ (~overlapped => Calm)
    BY DEF Sessions
  <1>2. LoginsDiffer' /\ Chains' /\ Loaded' /\ Images'
    BY <1>1, LoginsStayDifferent, ChainsStep, LoadedStep, ImagesStep
  <1>3. ASSUME ~overlapped' PROVE Calm'
    BY <1>1, <1>3, OverlapStays, CalmStep
  <1> QED
    BY <1>2, <1>3 DEF Sessions

\* A list without repetitions has as many entries as it has elements.
LEMMA ListedOnce ==
    ASSUME NEW S, NEW s \in Seq(S), IsInjective(s)
    PROVE  Len(s) = Cardinality(Range(s))
  <1> DEFINE R == Range(s)
             n == Len(s)
  <1>1. n \in Nat /\ DOMAIN s = 1..n
    OBVIOUS
  <1>2. \A i \in 1..n : s[i] \in R
    BY <1>1 DEF Range
  <1>3. s \in [1..n -> R]
    <2>1. s = [i \in 1..n |-> s[i]]
      BY <1>1
    <2> QED
      BY <1>2, <2>1
  <1>4. \A r \in R : \E i \in 1..n : s[i] = r
    BY <1>1 DEF Range
  <1> HIDE DEF R, n
  <1>5. ExistsBijection(1..n, R)
    <2>1. s \in Injection(1..n, R)
      BY <1>3 DEF Injection
    <2>2. s \in Surjection(1..n, R)
      BY <1>3, <1>4 DEF Surjection
    <2> QED
      BY <2>1, <2>2 DEF Bijection, ExistsBijection
  <1>6. Cardinality(R) = n
    BY <1>1, <1>5, FS_CountingElements
  <1> QED
    BY <1>6 DEF R, n

\* At home the model is that of the account signed in.
LEMMA SessionsAgree == Accounted /\ Sessions => SessionAgrees
  <1> SUFFICES ASSUME Accounted, Sessions, page = "home", ~overlapped
               PROVE  /\ auth # Nobody /\ model.uid = auth
                      /\ Seen(auth) # NoDocument
                      /\ model.loaded =>
                            /\ Range(model.list) = Seen(auth).running
                            /\ Len(model.list) = Cardinality(Seen(auth).running)
    BY DEF SessionAgrees
  <1>1. AccountTypes /\ Loaded
    BY DEF Accounted, Sessions
  <1>2. auth # Nobody /\ model.uid = auth /\ Given(auth)
    BY DEF Sessions, Calm, AtHome
  <1>3. auth \in Account
    BY <1>1, <1>2 DEF AccountTypes
  <1>4. PICK u \in Account : u = auth
    BY <1>3
  <1>5. Seen(u) # NoDocument
    BY <1>1, <1>2, <1>4, SeenType DEF Given
  <1>6. Seen(u).running = docs[u].running
    BY SeenRunning
  <1>7. ASSUME model.loaded
        PROVE  /\ Range(model.list) = Seen(u).running
               /\ Len(model.list) = Cardinality(Seen(u).running)
    <2>1. Range(model.list) = docs[u].running /\ IsInjective(model.list)
      BY <1>1, <1>2, <1>4, <1>7 DEF Loaded
    <2>2. model.list \in Seq(Challenge)
      BY <1>1 DEF AccountTypes, ModelOf
    <2>3. Len(model.list) = Cardinality(Range(model.list))
      BY <2>1, <2>2, ListedOnce
    <2> QED
      BY <1>6, <2>1, <2>3
  <1> QED
    BY <1>2, <1>4, <1>5, <1>7

\* No chain meets a missing value while nothing overlaps and nothing fails.
LEMMA SessionsExplain == Accounted /\ Sessions => TrapsExplained
  <1> SUFFICES ASSUME Accounted, Sessions, ~overlapped, ~(faults > 0)
               PROVE  \A t \in DOMAIN work : ~WorkTraps(t)
    BY DEF TrapsExplained
  <1>1. faults \in Nat
    BY SignUpAssumption DEF Accounted, AccountTypes
  <1>2. faults = 0
    BY <1>1
  <1> QED
    BY <1>2, NoTraps DEF Sessions

\* The steps of SignUp alone and those of the app.
LEMMA SessionsNext ==
    ASSUME Accounted, Sessions, [StartNext]_<<account, catalogue>> \/ [Next]_vars
    PROVE  Sessions'
  BY AccountsNext, SessionsStep

\* The invariant of the session holds in every state of SignUp.
THEOREM SessionInvariant == Spec => []Sessions
  <1>1. Accounted /\ Sessions /\ [Next]_vars => Sessions'
    BY SessionsNext
  <1> QED
    BY <1>1, SessionsInit, AccountsInvariant, PTL DEF Spec

\* ... and of the app.
THEOREM AppSessionInvariant == StartSpec => []Sessions
  <1>1. Accounted /\ Sessions /\ [StartNext]_<<account, catalogue>> => Sessions'
    BY SessionsNext
  <1>2. StartInit => Sessions
    BY SessionsInit DEF StartInit
  <1> QED
    BY <1>1, <1>2, AppAccountsInvariant, PTL DEF StartSpec

\* At home the model in memory is the signed-in account's, which has its document,
\* and a filled model lists each running challenge once, however many taps on one
\* button raced: fetchUser, createUser and signIn call back in any order.
THEOREM SessionIsTheAccounts == Spec => []SessionAgrees
  BY SessionInvariant, AccountsInvariant, SessionsAgree, PTL

\* The same of the app.
THEOREM AppSessionIsTheAccounts == StartSpec => []SessionAgrees
  BY AppSessionInvariant, AppAccountsInvariant, SessionsAgree, PTL

\* The forced unwraps of the chains (currentUser!, document(""), imageLink!) never
\* fail while nothing failed before and no other work overlapped.
THEOREM TrapsHaveACause == Spec => []TrapsExplained
  BY SessionInvariant, AccountsInvariant, SessionsExplain, PTL

\* The same of the app.
THEOREM AppTrapsHaveACause == StartSpec => []TrapsExplained
  BY AppSessionInvariant, AppAccountsInvariant, SessionsExplain, PTL
===========================================================================
