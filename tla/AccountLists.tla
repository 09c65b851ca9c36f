---------------------------- MODULE AccountLists ----------------------------
(***************************************************************************)
(* What the proofs of PatientProofs know about lists and writes: a list    *)
(* read back in another order, the bag of the completed challenges, and an *)
(* account seen through a queue of unsent writes.                          *)
(***************************************************************************)
EXTENDS PatientAccount, UserAccountProofs, FiniteSetTheorems

-----------------------------------------------------------------------------
(* An account under a queue of writes.                                     *)

\* LastUnsent, Seen and Overlay for any document and any queue.
LastIn(q, f) ==
    LET S == {i \in DOMAIN q : f \in DOMAIN q[i]}
    IN  IF S = {} THEN 0 ELSE CHOOSE i \in S : \A j \in S : j <= i

FieldUnder(a, q, f) == IF LastIn(q, f) = 0 THEN a[f] ELSE q[LastIn(q, f)][f]

Under(a, q) == [active    |-> FieldUnder(a, q, "active"),
                completed |-> FieldUnder(a, q, "completed"),
                coins     |-> FieldUnder(a, q, "coins")]

\* What device d reads is the document under the queue of d.
LEMMA OverlayIs ==
    ASSUME NEW d \in Device
    PROVE  Overlay(d) = Under(doc, queue[d]) /\ Overlay(d)' = Under(doc', queue'[d])
BY DEF Overlay, Seen, LastUnsent, WritesOf, Under, FieldUnder, LastIn

\* A field that no write names is the account's.
LEMMA FieldUnwritten ==
    ASSUME NEW q \in Seq(Write), NEW a, NEW f,
           \A j \in 1..Len(q) : f \notin DOMAIN q[j]
    PROVE  FieldUnder(a, q, f) = a[f]
<1> DEFINE S == {i \in DOMAIN q : f \in DOMAIN q[i]}
<1>1. DOMAIN q = 1..Len(q) /\ Len(q) \in Nat  BY LenProperties
<1>2. S = {}  BY <1>1
<1> QED  BY <1>2 DEF FieldUnder, LastIn

\* Of the writes that name a field, the last counts.
LEMMA FieldWritten ==
    ASSUME NEW q \in Seq(Write), NEW a, NEW f, NEW n \in 1..Len(q), f \in DOMAIN q[n],
           \A j \in 1..Len(q) : f \in DOMAIN q[j] => j <= n
    PROVE  FieldUnder(a, q, f) = q[n][f]
<1> DEFINE S == {i \in DOMAIN q : f \in DOMAIN q[i]}
<1>1. DOMAIN q = 1..Len(q) /\ Len(q) \in Nat  BY LenProperties
<1>2. n \in S /\ \A j \in S : j <= n  BY <1>1
<1>3. \A i \in S : (\A j \in S : j <= i) => i = n  BY <1>1, <1>2
<1>4. (CHOOSE i \in S : \A j \in S : j <= i) = n
  <2> HIDE DEF S
  <2> QED  BY <1>2, <1>3
<1>5. LastIn(q, f) = n  BY <1>2, <1>4 DEF LastIn
<1> QED  BY <1>1, <1>5 DEF FieldUnder

\* Every field is in one of the two cases.
LEMMA LastOrNone ==
    ASSUME NEW q \in Seq(Write), NEW f
    PROVE  \/ \A j \in 1..Len(q) : f \notin DOMAIN q[j]
           \/ \E n \in 1..Len(q) :
                /\ f \in DOMAIN q[n]
                /\ \A j \in 1..Len(q) : f \in DOMAIN q[j] => j <= n
<1> DEFINE S == {i \in 1..Len(q) : f \in DOMAIN q[i]}
<1>1. Len(q) \in Nat /\ S \in SUBSET (1..Len(q))  BY LenProperties
<1>2. CASE S = {}  BY <1>2
<1>3. CASE S # {}
  <2>1. \E n \in S : \A j \in S : j <= n
    <3> HIDE DEF S
    <3> QED  BY <1>1, <1>3, GreatestIndex
  <2> QED  BY <2>1
<1> QED  BY <1>2, <1>3

LEMMA UnderEmpty ==
    ASSUME NEW a \in Account PROVE Under(a, <<>>) = a
<1>1. \A f : LastIn(<<>>, f) = 0  BY DEF LastIn
<1> QED  BY <1>1 DEF Under, FieldUnder, Account

LEMMA UnderType ==
    ASSUME NEW a \in Account, NEW q \in Seq(Write) PROVE Under(a, q) \in Account
<1>1. \A j \in 1..Len(q) : q[j] \in Write  BY ElementOfSeq
<1>2. ASSUME NEW f PROVE \/ FieldUnder(a, q, f) = a[f]
                         \/ \E n \in 1..Len(q) : /\ f \in DOMAIN q[n]
                                                 /\ FieldUnder(a, q, f) = q[n][f]
  <2>1. CASE \A j \in 1..Len(q) : f \notin DOMAIN q[j]
    BY <2>1, FieldUnwritten
  <2>2. ASSUME NEW n \in 1..Len(q), f \in DOMAIN q[n],
               \A j \in 1..Len(q) : f \in DOMAIN q[j] => j <= n
        PROVE  FieldUnder(a, q, f) = q[n][f]
    BY <2>2, FieldWritten
  <2> QED  BY <2>1, <2>2, LastOrNone
<1>3. FieldUnder(a, q, "active") \in Seq(Entry)  BY <1>1, <1>2 DEF Write, Account
<1>4. FieldUnder(a, q, "completed") \in Seq(Done)  BY <1>1, <1>2, SMTT(20) DEF Write, Account
<1>5. FieldUnder(a, q, "coins") \in Int  BY <1>1, <1>2 DEF Write, Account
<1> QED  BY <1>3, <1>4, <1>5 DEF Under, Account

\* Sending the oldest write changes nothing for the device that sees it already.
LEMMA UnderSend ==
    ASSUME NEW a \in Account, NEW q \in Seq(Write), q # <<>>
    PROVE  Under(Merge(a, Head(q)), Tail(q)) = Under(a, q)
<1> DEFINE t == Tail(q)
           m == Merge(a, Head(q))
<1>1. /\ Len(q) \in Nat \ {0} /\ DOMAIN q = 1..Len(q)
      /\ t \in Seq(Write) /\ Len(t) = Len(q) - 1
      /\ \A j \in 1..Len(t) : t[j] = q[j + 1]
      /\ Head(q) = q[1]
  BY EmptySeq, LenProperties, HeadTailProperties
<1>2. DOMAIN a = {"active", "completed", "coins"}  BY DEF Account
<1> HIDE DEF t
<1>3. ASSUME NEW f \in {"active", "completed", "coins"}
      PROVE  FieldUnder(m, t, f) = FieldUnder(a, q, f)
  <2>1. m[f] = IF f \in DOMAIN q[1] THEN q[1][f] ELSE a[f]
    BY <1>1, <1>2 DEF Merge
  <2> HIDE DEF m
  <2>2. CASE \A j \in 1..Len(t) : f \notin DOMAIN t[j]
    <3>1. FieldUnder(m, t, f) = m[f]  BY <1>1, <2>2, FieldUnwritten
    <3>2. \A j \in 1..Len(q) : f \in DOMAIN q[j] => j = 1
      <4> SUFFICES ASSUME NEW j \in 1..Len(q), f \in DOMAIN q[j], j # 1 PROVE FALSE
        OBVIOUS
      <4>1. j - 1 \in 1..Len(t) /\ t[j - 1] = q[j]  BY <1>1
      <4> QED  BY <2>2, <4>1
    <3>3. CASE f \in DOMAIN q[1]
      <4>1. FieldUnder(a, q, f) = q[1][f]
        <5>1. 1 \in 1..Len(q)  BY <1>1
        <5> QED  BY <3>2, <3>3, <5>1, FieldWritten
      <4> QED  BY <2>1, <3>1, <3>3, <4>1
    <3>4. CASE f \notin DOMAIN q[1]
      <4>1. FieldUnder(a, q, f) = a[f]  BY <3>2, <3>4, FieldUnwritten
      <4> QED  BY <2>1, <3>1, <3>4, <4>1
    <3> QED  BY <3>3, <3>4
  <2>3. ASSUME NEW n \in 1..Len(t), f \in DOMAIN t[n],
               \A j \in 1..Len(t) : f \in DOMAIN t[j] => j <= n
        PROVE  FieldUnder(m, t, f) = FieldUnder(a, q, f)
    <3>1. FieldUnder(m, t, f) = t[n][f]  BY <1>1, <2>3, FieldWritten
    <3>2. n + 1 \in 1..Len(q) /\ f \in DOMAIN q[n + 1]  BY <1>1, <2>3
    <3>3. ASSUME NEW j \in 1..Len(q), f \in DOMAIN q[j] PROVE j <= n + 1
      <4>1. CASE j = 1  BY <1>1, <4>1
      <4>2. CASE j # 1
        <5>1. j - 1 \in 1..Len(t) /\ t[j - 1] = q[(j - 1) + 1] /\ (j - 1) + 1 = j
          BY <1>1, <4>2
        <5>2. j - 1 <= n  BY <2>3, <3>3, <5>1
        <5> QED  BY <1>1, <5>2
      <4> QED  BY <4>1, <4>2
    <3>4. FieldUnder(a, q, f) = q[n + 1][f]  BY <3>2, <3>3, FieldWritten
    <3> QED  BY <1>1, <2>3, <3>1, <3>4
  <2> QED  BY <1>1, <2>2, <2>3, LastOrNone
<1> QED  BY <1>3 DEF Under, t

\* The writes of the handlers, on a device that had none unsent.
LEMMA UnderWrites ==
    ASSUME NEW a \in Account, NEW x \in Seq(Entry), NEW z \in Int
    PROVE  /\ Under(a, <<[active |-> x]>>) = [a EXCEPT !.active = x]
           /\ Under(a, <<[coins |-> z]>>) = [a EXCEPT !.coins = z]
<1>1. [active |-> x] \in Write /\ [coins |-> z] \in Write
  BY DEF Write
<1>2. Under(a, <<[active |-> x]>>) = [a EXCEPT !.active = x]
  <2> DEFINE q == <<[active |-> x]>>
  <2>1. q \in Seq(Write) /\ Len(q) = 1 /\ q[1] = [active |-> x]
    BY <1>1
  <2> HIDE DEF q
  <2>2. FieldUnder(a, q, "active") = q[1]["active"]
    <3>1. 1 \in 1..Len(q) /\ "active" \in DOMAIN q[1]  BY <2>1
    <3>2. \A j \in 1..Len(q) : "active" \in DOMAIN q[j] => j <= 1  BY <2>1
    <3>3. q \in Seq(Write)  BY <2>1
    <3> QED  BY <3>1, <3>2, <3>3, FieldWritten
  <2>3. FieldUnder(a, q, "completed") = a.completed  BY <2>1, FieldUnwritten
  <2>4. FieldUnder(a, q, "coins") = a.coins  BY <2>1, FieldUnwritten
  <2>5. Under(a, q) = [a EXCEPT !.active = x]
    BY <2>1, <2>2, <2>3, <2>4 DEF Under, Account
  <2> QED  BY <2>5 DEF q
<1>3. Under(a, <<[coins |-> z]>>) = [a EXCEPT !.coins = z]
  <2> DEFINE q == <<[coins |-> z]>>
  <2>1. q \in Seq(Write) /\ Len(q) = 1 /\ q[1] = [coins |-> z]
    BY <1>1
  <2> HIDE DEF q
  <2>2. FieldUnder(a, q, "active") = a.active  BY <2>1, FieldUnwritten
  <2>3. FieldUnder(a, q, "completed") = a.completed  BY <2>1, FieldUnwritten
  <2>4. FieldUnder(a, q, "coins") = q[1]["coins"]
    <3>1. 1 \in 1..Len(q) /\ "coins" \in DOMAIN q[1]  BY <2>1
    <3>2. \A j \in 1..Len(q) : "coins" \in DOMAIN q[j] => j <= 1  BY <2>1
    <3>3. q \in Seq(Write)  BY <2>1
    <3> QED  BY <3>1, <3>2, <3>3, FieldWritten
  <2>5. Under(a, q) = [a EXCEPT !.coins = z]
    BY <2>1, <2>2, <2>3, <2>4 DEF Under, Account
  <2> QED  BY <2>5 DEF q
<1> QED  BY <1>2, <1>3

\* Three writes, of one field each.
LEMMA UnderThree ==
    ASSUME NEW a, NEW q \in Seq(Write), Len(q) = 3, DOMAIN q[1] = {"active"},
           DOMAIN q[2] = {"completed"}, DOMAIN q[3] = {"coins"}
    PROVE  Under(a, q) = [active    |-> q[1]["active"],
                          completed |-> q[2]["completed"],
                          coins     |-> q[3]["coins"]]
<1>1. FieldUnder(a, q, "active") = q[1]["active"]
  <2>1. 1 \in 1..Len(q) /\ "active" \in DOMAIN q[1]  OBVIOUS
  <2>2. \A j \in 1..Len(q) : "active" \in DOMAIN q[j] => j <= 1  OBVIOUS
  <2> QED  BY <2>1, <2>2, FieldWritten
<1>2. FieldUnder(a, q, "completed") = q[2]["completed"]
  <2>1. 2 \in 1..Len(q) /\ "completed" \in DOMAIN q[2]  OBVIOUS
  <2>2. \A j \in 1..Len(q) : "completed" \in DOMAIN q[j] => j <= 2  OBVIOUS
  <2> QED  BY <2>1, <2>2, FieldWritten
<1>3. FieldUnder(a, q, "coins") = q[3]["coins"]
  <2>1. 3 \in 1..Len(q) /\ "coins" \in DOMAIN q[3]  OBVIOUS
  <2>2. \A j \in 1..Len(q) : "coins" \in DOMAIN q[j] => j <= 3  OBVIOUS
  <2> QED  BY <2>1, <2>2, FieldWritten
<1> QED  BY <1>1, <1>2, <1>3 DEF Under

\* The three writes of a claim leave nothing of the account as it was.
LEMMA UnderClaim ==
    ASSUME NEW a, NEW x \in Seq(Entry), NEW y \in Seq(Done), NEW z \in Int,
           NEW q, q = <<[active |-> x], [completed |-> y], [coins |-> z]>>
    PROVE  Under(a, q) = [active |-> x, completed |-> y, coins |-> z]
<1>1. /\ q \in Seq(Write) /\ Len(q) = 3 /\ q[1] = [active |-> x]
      /\ q[2] = [completed |-> y] /\ q[3] = [coins |-> z]
  <2>1. [active |-> x] \in Write /\ [completed |-> y] \in Write /\ [coins |-> z] \in Write
    BY DEF Write
  <2> QED  BY <2>1
<1>2. DOMAIN q[1] = {"active"} /\ DOMAIN q[2] = {"completed"} /\ DOMAIN q[3] = {"coins"}
  BY <1>1
<1>3. Under(a, q) = [active |-> q[1]["active"], completed |-> q[2]["completed"],
                     coins |-> q[3]["coins"]]
  BY <1>1, <1>2, UnderThree, Zenon
<1> QED  BY <1>1, <1>3

-----------------------------------------------------------------------------
(* A list read back in another order.                                      *)

\* A reordering is the list along a permutation of its positions.
LEMMA PermutationOnto ==
    ASSUME NEW n \in Nat, NEW p \in [1..n -> 1..n],
           \A i, j \in 1..n : p[i] = p[j] => i = j
    PROVE  \A j \in 1..n : \E i \in 1..n : p[i] = j
<1>1. p \in Injection(1..n, 1..n)
  BY DEF Injection, IsInjective
<1>2. IsFiniteSet(1..n)  BY FS_Interval
<1>3. p \in Surjection(1..n, 1..n)
  BY <1>1, <1>2, FS_Injection
<1> QED  BY <1>3 DEF Surjection

Along(p, r, s) ==
    /\ p \in [1..Len(s) -> 1..Len(s)]
    /\ \A i, j \in 1..Len(s) : p[i] = p[j] => i = j
    /\ \A j \in 1..Len(s) : \E i \in 1..Len(s) : p[i] = j
    /\ \A i \in 1..Len(s) : r[i] = s[p[i]]

LEMMA ReorderingIs ==
    ASSUME NEW S, NEW s \in Seq(S), NEW r \in Reorderings(s)
    PROVE  /\ r \in Seq(S) /\ Len(r) = Len(s)
           /\ Len(s) \in Nat /\ DOMAIN s = 1..Len(s) /\ DOMAIN r = 1..Len(s)
           /\ \E p : Along(p, r, s)
<1>1. DOMAIN s = 1..Len(s) /\ Len(s) \in Nat  BY LenProperties
<1>2. PICK p \in [1..Len(s) -> 1..Len(s)] :
        /\ \A i, j \in 1..Len(s) : p[i] = p[j] => i = j
        /\ r = [i \in 1..Len(s) |-> s[p[i]]]
  BY <1>1 DEF Reorderings
<1>3. \A j \in 1..Len(s) : \E i \in 1..Len(s) : p[i] = j
  BY <1>1, <1>2, PermutationOnto
<1>4. r \in Seq(S) /\ Len(r) = Len(s)  BY ReorderingType
<1>5. Along(p, r, s)  BY <1>1, <1>2, <1>3 DEF Along
<1> QED  BY <1>1, <1>4, <1>5, LenProperties

LEMMA ReorderedRange ==
    ASSUME NEW S, NEW s \in Seq(S), NEW r \in Reorderings(s)
    PROVE  Range(r) = Range(s)
<1>0. /\ DOMAIN s = 1..Len(s) /\ DOMAIN r = 1..Len(s)
      /\ \E p : Along(p, r, s)
  BY ReorderingIs
<1>1. PICK p : Along(p, r, s)  BY <1>0
<1>2. ASSUME NEW i \in DOMAIN r PROVE r[i] \in Range(s)
  <2>1. p[i] \in DOMAIN s /\ r[i] = s[p[i]]  BY <1>0, <1>1 DEF Along
  <2> QED  BY <2>1 DEF Range
<1>3. ASSUME NEW j \in DOMAIN s PROVE s[j] \in Range(r)
  <2>1. PICK i \in DOMAIN r : p[i] = j  BY <1>0, <1>1 DEF Along
  <2>2. r[i] = s[j]  BY <1>0, <1>1, <2>1 DEF Along
  <2> QED  BY <2>2 DEF Range
<1> QED  BY <1>2, <1>3 DEF Range

LEMMA ReorderedRunsOnce ==
    ASSUME NEW S, NEW s \in Seq(S), NEW r \in Reorderings(s), RunsOnce(s)
    PROVE  RunsOnce(r)
<1>0. /\ DOMAIN s = 1..Len(s) /\ DOMAIN r = 1..Len(s)
      /\ \E p : Along(p, r, s)
  BY ReorderingIs
<1>1. PICK p : Along(p, r, s)  BY <1>0
<1>2. ASSUME NEW i \in DOMAIN r, NEW j \in DOMAIN r, r[i].id = r[j].id PROVE i = j
  <2>1. /\ p[i] \in DOMAIN s /\ p[j] \in DOMAIN s
        /\ r[i] = s[p[i]] /\ r[j] = s[p[j]]
    BY <1>0, <1>1 DEF Along
  <2>2. p[i] = p[j]  BY <1>2, <2>1 DEF RunsOnce
  <2> QED  BY <1>0, <1>1, <2>2 DEF Along
<1> QED  BY <1>2 DEF RunsOnce

-----------------------------------------------------------------------------
(* The bag of the completed challenges.                                    *)

BagOf(s) == [p \in Range(s) |-> Cardinality({i \in DOMAIN s : s[i] = p})]

Payment(done) == [id |-> done.id, sp |-> done.sp]

Payments(completed) == [i \in DOMAIN completed |-> Payment(completed[i])]

OneMore(bag, x) == [e \in DOMAIN bag \cup {x} |->
                       (IF e \in DOMAIN bag THEN bag[e] ELSE 0)
                       + (IF e = x THEN 1 ELSE 0)]

LEMMA PaidBagIs ==
    ASSUME NEW a PROVE PaidBag(a) = BagOf(Payments(a.completed))
BY Zenon DEF PaidBag, BagOf, Payments, Payment

LEMMA PaymentsType ==
    ASSUME NEW c \in Seq(Done)
    PROVE  /\ Payments(c) \in Seq([id: Challenge, sp: Nat])
           /\ Len(Payments(c)) = Len(c)
           /\ \A i \in 1..Len(c) : Payments(c)[i] = Payment(c[i])
<1>1. DOMAIN c = 1..Len(c) /\ Len(c) \in Nat  BY LenProperties
<1>2. ASSUME NEW i \in 1..Len(c) PROVE Payment(c[i]) \in [id: Challenge, sp: Nat]
  <2>1. c[i] \in Done  BY ElementOfSeq
  <2> QED  BY <2>1 DEF Payment, Done
<1>3. Payments(c) \in [1..Len(c) -> [id: Challenge, sp: Nat]]
  BY <1>1, <1>2 DEF Payments
<1> QED  BY <1>1, <1>3 DEF Payments

\* The order of a list does not matter to its bag.
LEMMA BagReordered ==
    ASSUME NEW S, NEW s \in Seq(S), NEW r \in Reorderings(s)
    PROVE  BagOf(r) = BagOf(s)
<1>0. /\ DOMAIN s = 1..Len(s) /\ DOMAIN r = 1..Len(s) /\ Len(s) \in Nat
      /\ \E p : Along(p, r, s)
  BY ReorderingIs
<1>1. PICK p : Along(p, r, s)  BY <1>0
<1>2. /\ p \in [1..Len(s) -> 1..Len(s)]
      /\ \A i, j \in 1..Len(s) : p[i] = p[j] => i = j
      /\ \A j \in 1..Len(s) : \E i \in 1..Len(s) : p[i] = j
      /\ \A i \in 1..Len(s) : r[i] = s[p[i]]
  BY <1>1 DEF Along
<1>3. ASSUME NEW x
      PROVE  Cardinality({i \in DOMAIN r : r[i] = x})
               = Cardinality({i \in DOMAIN s : s[i] = x})
  <2> DEFINE A == {i \in DOMAIN r : r[i] = x}
             B == {i \in DOMAIN s : s[i] = x}
             f == [i \in A |-> p[i]]
  <2>1. IsFiniteSet(A)
    <3>1. A \subseteq 1..Len(s) /\ IsFiniteSet(1..Len(s))  BY <1>0, FS_Interval
    <3> QED  BY <3>1, FS_Subset
  <2>2. f \in [A -> B]  BY <1>0, <1>2
  <2>3. \A i, j \in A : f[i] = f[j] => i = j  BY <1>0, <1>2
  <2>4. \A j \in B : \E i \in A : f[i] = j
    <3> SUFFICES ASSUME NEW j \in B PROVE \E i \in A : f[i] = j
      OBVIOUS
    <3>1. PICK i \in 1..Len(s) : p[i] = j  BY <1>0, <1>2
    <3>2. i \in A  BY <1>0, <1>2, <3>1
    <3> QED  BY <3>1, <3>2
  <2>5. f \in Bijection(A, B)
    <3> HIDE DEF A, B, f
    <3> QED  BY <2>2, <2>3, <2>4 DEF Bijection, Injection, IsInjective, Surjection
  <2>6. ExistsBijection(A, B)  BY <2>5, Zenon DEF ExistsBijection
  <2> HIDE DEF A, B
  <2>7. Cardinality(B) = Cardinality(A)  BY <2>1, <2>6, FS_Bijection
  <2> QED  BY <2>7 DEF A, B
<1>4. Range(r) = Range(s)  BY ReorderedRange
<1> QED  BY <1>3, <1>4 DEF BagOf

\* One more element: a bag union with the bag of that element.
LEMMA BagAppended ==
    ASSUME NEW S, NEW s \in Seq(S), NEW x \in S
    PROVE  BagOf(Append(s, x)) = OneMore(BagOf(s), x)
<1> DEFINE t == Append(s, x)
           n == Len(s)
           At(q, e) == {i \in DOMAIN q : q[i] = e}
<1>1. /\ n \in Nat /\ DOMAIN s = 1..n /\ t \in Seq(S) /\ DOMAIN t = 1..(n + 1)
      /\ \A i \in 1..n : t[i] = s[i]
      /\ t[n + 1] = x
  BY AppendProperties, LenProperties
<1> HIDE DEF t, n
<1>2. DOMAIN BagOf(s) = Range(s) /\ DOMAIN BagOf(t) = Range(t)  BY DEF BagOf
<1>3. Range(t) = Range(s) \cup {x}
  <2>1. \A i \in 1..(n + 1) : i \in 1..n \/ i = n + 1  BY <1>1
  <2>2. \A i \in 1..n : i \in 1..(n + 1)  BY <1>1
  <2>3. n + 1 \in 1..(n + 1)  BY <1>1
  <2> QED  BY <1>1, <2>1, <2>2, <2>3 DEF Range
<1>4. ASSUME NEW e PROVE IsFiniteSet(At(s, e))
  <2>1. At(s, e) \subseteq 1..n /\ IsFiniteSet(1..n)  BY <1>1, FS_Interval
  <2> QED  BY <2>1, FS_Subset
<1>5. ASSUME NEW e, e # x PROVE At(t, e) = At(s, e)
  <2>1. \A i \in 1..(n + 1) : i \in 1..n \/ i = n + 1  BY <1>1
  <2>2. \A i \in 1..n : i \in 1..(n + 1)  BY <1>1
  <2> QED  BY <1>1, <1>5, <2>1, <2>2
<1>6. At(t, x) = At(s, x) \cup {n + 1}
  <2>1. \A i \in 1..(n + 1) : i \in 1..n \/ i = n + 1  BY <1>1
  <2>2. \A i \in 1..n : i \in 1..(n + 1)  BY <1>1
  <2>3. n + 1 \in 1..(n + 1)  BY <1>1
  <2> QED  BY <1>1, <2>1, <2>2, <2>3
<1>7. n + 1 \notin At(s, x)  BY <1>1
<1>8. Cardinality(At(t, x)) = Cardinality(At(s, x)) + 1
  <2> HIDE DEF At
  <2> QED  BY <1>4, <1>6, <1>7, FS_AddElement
<1>9. x \notin Range(s) => Cardinality(At(s, x)) = 0
  <2> SUFFICES ASSUME x \notin Range(s) PROVE Cardinality(At(s, x)) = 0
    OBVIOUS
  <2>1. At(s, x) = {}  BY DEF Range
  <2> HIDE DEF At
  <2> QED  BY <2>1, FS_EmptySet
<1>10. ASSUME NEW e \in Range(t)
       PROVE  BagOf(t)[e] = (IF e \in Range(s) THEN BagOf(s)[e] ELSE 0)
                              + (IF e = x THEN 1 ELSE 0)
  <2>1. BagOf(t)[e] = Cardinality(At(t, e))  BY <1>10 DEF BagOf
  <2>2. e \in Range(s) => BagOf(s)[e] = Cardinality(At(s, e))  BY DEF BagOf
  <2>3. Cardinality(At(s, e)) \in Nat
    <3> HIDE DEF At
    <3> QED  BY <1>4, FS_CardinalityType
  <2> HIDE DEF At
  <2>4. CASE e = x
    BY <1>8, <1>9, <2>1, <2>2, <2>3, <2>4
  <2>5. CASE e # x
    BY <1>3, <1>5, <1>10, <2>1, <2>2, <2>3, <2>5
  <2> QED  BY <2>4, <2>5
<1>11. BagOf(t) = [e \in Range(t) |-> BagOf(t)[e]]  BY DEF BagOf
<1>12. BagOf(t) = [e \in Range(s) \cup {x} |->
                     (IF e \in Range(s) THEN BagOf(s)[e] ELSE 0)
                     + (IF e = x THEN 1 ELSE 0)]
  BY <1>3, <1>10, <1>11
<1> QED  BY <1>2, <1>12 DEF t, OneMore

\* Reading an account back, reordered and with the dates of the reading,
\* leaves its payments as they were.
LEMMA PaidReordered ==
    ASSUME NEW a \in Account, NEW b, b.completed \in Reorderings(a.completed)
    PROVE  PaidBag(b) = PaidBag(a)
<1>1. a.completed \in Seq(Done)  BY DEF Account
<1>2. Payments(a.completed) \in Seq([id: Challenge, sp: Nat])  BY <1>1, PaymentsType
<1>3. Payments(b.completed) \in Reorderings(Payments(a.completed))
  <2>1. DOMAIN a.completed = 1..Len(a.completed)  BY <1>1, LenProperties
  <2>2. DOMAIN Payments(a.completed) = DOMAIN a.completed  BY DEF Payments
  <2>3. PICK p \in [DOMAIN a.completed -> DOMAIN a.completed] :
          /\ \A i, j \in DOMAIN a.completed : p[i] = p[j] => i = j
          /\ b.completed = [i \in DOMAIN a.completed |-> a.completed[p[i]]]
    BY DEF Reorderings
  <2>4. Payments(b.completed) = [i \in DOMAIN a.completed |-> Payments(a.completed)[p[i]]]
    BY <2>3 DEF Payments
  <2> DEFINE D == DOMAIN Payments(a.completed)
  <2>5. p \in {q \in [D -> D] : \A i, j \in D : q[i] = q[j] => i = j}
    BY <2>2, <2>3
  <2>6. Payments(b.completed) = [i \in D |-> Payments(a.completed)[p[i]]]
    BY <2>2, <2>4
  <2> QED  BY <2>5, <2>6, Zenon DEF Reorderings
<1> QED  BY <1>2, <1>3, BagReordered, PaidBagIs

LEMMA PaidDecoded ==
    ASSUME NEW a \in Account, today \in Nat
    PROVE  PaidBag(Decoded(a)) = PaidBag(a)
<1> DEFINE dated == [i \in DOMAIN a.completed |-> [a.completed[i] EXCEPT !.date = today]]
<1>1. Decoded(a).completed = dated  BY DEF Decoded, Account
<1>2. \A i \in DOMAIN a.completed : a.completed[i] \in Done
  BY ElementOfSeq, LenProperties DEF Account
<1>3. \A i \in DOMAIN a.completed : Payment(dated[i]) = Payment(a.completed[i])
  BY <1>2 DEF Payment, Done
<1>4. DOMAIN dated = DOMAIN a.completed  OBVIOUS
<1>5. Payments(dated) = Payments(a.completed)
  <2> HIDE DEF dated
  <2> QED  BY <1>3, <1>4 DEF Payments
<1> QED  BY <1>1, <1>5, PaidBagIs

-----------------------------------------------------------------------------
(* The lists that the handlers write, as sets of entries.                  *)

LEMMA RangeFinite ==
    ASSUME NEW S, NEW s \in Seq(S)
    PROVE  IsFiniteSet(Range(s)) /\ Cardinality(Range(s)) \in Nat
               /\ Cardinality(Range(s)) <= Len(s)
<1>1. Len(s) \in Nat /\ DOMAIN s = 1..Len(s) /\ s \in [1..Len(s) -> S]  BY LenProperties
<1>2. s \in Surjection(1..Len(s), Range(s))
  <2>1. s \in [1..Len(s) -> Range(s)]  BY <1>1 DEF Range
  <2>2. \A t \in Range(s) : \E i \in 1..Len(s) : s[i] = t  BY <1>1 DEF Range
  <2> QED  BY <2>1, <2>2 DEF Surjection
<1>3. IsFiniteSet(1..Len(s)) /\ Cardinality(1..Len(s)) = Len(s)
  BY <1>1, FS_Interval
<1> DEFINE R == Range(s)
<1> HIDE DEF R
<1>4. s \in Surjection(1..Len(s), R)  BY <1>2 DEF R
<1>5. IsFiniteSet(R) /\ Cardinality(R) <= Cardinality(1..Len(s))
  BY <1>3, <1>4, FS_Surjection
<1>6. Cardinality(R) \in Nat  BY <1>5, FS_CardinalityType
<1> QED  BY <1>3, <1>5, <1>6 DEF R

LEMMA StartedRange ==
    ASSUME NEW a \in Account, NEW c \in Challenge, today \in Nat
    PROVE  Range(Started(a, c)) =
             Range(a.active) \cup {[id |-> c, start |-> today, days |-> <<>>]}
<1> DEFINE e == [id |-> c, start |-> today, days |-> <<>>]
           s == a.active
           t == Append(s, e)
<1>1. s \in Seq(Entry) /\ e \in Entry  BY DEF Account, Entry
<1> HIDE DEF e, s, t
<1>2. /\ Len(s) \in Nat /\ DOMAIN s = 1..Len(s) /\ DOMAIN t = 1..(Len(s) + 1)
      /\ \A i \in 1..Len(s) : t[i] = s[i]
      /\ t[Len(s) + 1] = e
  BY <1>1, AppendProperties, LenProperties DEF t
<1>3. ASSUME NEW i \in DOMAIN t PROVE t[i] \in Range(s) \cup {e}
  <2>1. i \in 1..Len(s) \/ i = Len(s) + 1  BY <1>2
  <2> QED  BY <1>2, <2>1 DEF Range
<1>4. ASSUME NEW i \in DOMAIN s PROVE s[i] \in Range(t)
  <2>1. i \in DOMAIN t /\ t[i] = s[i]  BY <1>2
  <2> QED  BY <2>1 DEF Range
<1>5. e \in Range(t)
  <2>1. Len(s) + 1 \in DOMAIN t  BY <1>2
  <2> QED  BY <1>2, <2>1 DEF Range
<1>6. Range(t) = Range(s) \cup {e}  BY <1>3, <1>4, <1>5 DEF Range
<1> QED  BY <1>6 DEF Started, t, s, e

\* A log changes one entry, since no challenge is listed twice.
LEMMA LoggedRange ==
    ASSUME NEW a \in Account, NEW c, today \in Nat, RunsOnce(a.active)
    PROVE  /\ Matches(a.active, c) = {} => Range(Logged(a, c)) = Range(a.active)
           /\ \A k \in Matches(a.active, c) :
                Range(Logged(a, c)) = (Range(a.active) \ {a.active[k]})
                    \cup {[a.active[k] EXCEPT !.days = Append(@, today)]}
<1> DEFINE s == a.active
           t == Logged(a, c)
           Next1(e) == [e EXCEPT !.days = Append(@, today)]
<1>1. /\ s \in Seq(Entry) /\ Len(s) \in Nat /\ DOMAIN s = 1..Len(s)
      /\ DOMAIN t = 1..Len(s)
      /\ \A i \in 1..Len(s) : t[i] = IF s[i].id = c THEN Next1(s[i]) ELSE s[i]
  <2>1. s \in Seq(Entry)  BY DEF Account
  <2>2. Len(s) \in Nat /\ DOMAIN s = 1..Len(s)  BY <2>1, LenProperties
  <2>3. t = [i \in DOMAIN s |-> IF s[i].id = c THEN Next1(s[i]) ELSE s[i]]
    BY Zenon DEF Logged
  <2> HIDE DEF s, t, Next1
  <2> QED  BY <2>1, <2>2, <2>3
<1>2. ASSUME Matches(s, c) = {} PROVE Range(t) = Range(s)
  <2>1. \A i \in 1..Len(s) : t[i] = s[i]  BY <1>1, <1>2 DEF Matches
  <2> HIDE DEF s, t
  <2> QED  BY <1>1, <2>1 DEF Range
<1>3. ASSUME NEW k \in Matches(s, c)
      PROVE  Range(t) = (Range(s) \ {s[k]}) \cup {Next1(s[k])}
  <2>1. k \in 1..Len(s) /\ s[k].id = c  BY <1>1 DEF Matches
  <2>2. \A i \in 1..Len(s) : s[i].id = c => i = k  BY <1>1, <2>1 DEF RunsOnce
  <2>3. \A i \in 1..Len(s) : t[i] = IF i = k THEN Next1(s[k]) ELSE s[i]
    BY <1>1, <2>1, <2>2
  <2>4. \A i \in 1..Len(s) : s[i] = s[k] => i = k  BY <2>1, <2>2
  <2> HIDE DEF s, t, Next1
  <2>5. ASSUME NEW i \in 1..Len(s) PROVE t[i] \in (Range(s) \ {s[k]}) \cup {Next1(s[k])}
    BY <1>1, <2>3, <2>4 DEF Range
  <2>6. ASSUME NEW x \in Range(s) \ {s[k]} PROVE x \in Range(t)
    <3>1. PICK i \in 1..Len(s) : x = s[i]  BY <1>1 DEF Range
    <3>2. t[i] = x  BY <2>3, <2>6, <3>1
    <3> QED  BY <1>1, <3>2 DEF Range
  <2>7. Next1(s[k]) \in Range(t)
    <3>1. t[k] = Next1(s[k])  BY <2>1, <2>3
    <3> QED  BY <1>1, <2>1, <3>1 DEF Range
  <2>8. Range(t) \subseteq (Range(s) \ {s[k]}) \cup {Next1(s[k])}
    BY <1>1, <2>5 DEF Range
  <2> QED  BY <2>6, <2>7, <2>8
<1> QED  BY <1>2, <1>3

\* Where the elements of a list with one removed come from, and go.
LEMMA RemoveAtElements ==
    ASSUME NEW S, NEW s \in Seq(S), NEW k \in 1..Len(s)
    PROVE  /\ \A i \in DOMAIN RemoveAt(s, k) :
                \E j \in DOMAIN s : j # k /\ RemoveAt(s, k)[i] = s[j]
           /\ \A j \in DOMAIN s : j # k =>
                \E i \in DOMAIN RemoveAt(s, k) : RemoveAt(s, k)[i] = s[j]
<1> DEFINE before == SubSeq(s, 1, k - 1)
           after  == SubSeq(s, k + 1, Len(s))
<1>0. Len(s) \in Nat /\ DOMAIN s = 1..Len(s)  BY LenProperties
<1>1. /\ before \in Seq(S) /\ Len(before) = k - 1
      /\ \A i \in 1..(k - 1) : before[i] = s[i]
  BY <1>0, SubSeqProperties, ElementOfSeq
<1>2. /\ after \in Seq(S) /\ Len(after) = Len(s) - k
      /\ \A i \in 1..(Len(s) - k) : after[i] = s[k + i]
  BY <1>0, SubSeqProperties, ElementOfSeq
<1> DEFINE t == RemoveAt(s, k)
<1> HIDE DEF before, after
<1>3. t = before \o after  BY DEF RemoveAt, before, after
<1> HIDE DEF t
<1>4. /\ DOMAIN t = 1..(Len(s) - 1)
      /\ \A i \in 1..(Len(s) - 1) :
           t[i] = IF i <= k - 1 THEN before[i] ELSE after[i - (k - 1)]
  <2>1. Len(before) + Len(after) = Len(s) - 1  BY <1>0, <1>1, <1>2
  <2>2. /\ before \o after \in Seq(S)
        /\ Len(before \o after) = Len(before) + Len(after)
        /\ \A i \in 1..(Len(before) + Len(after)) : (before \o after)[i] =
             IF i <= Len(before) THEN before[i] ELSE after[i - Len(before)]
    BY <1>1, <1>2, ConcatProperties
  <2> QED  BY <1>1, <1>3, <2>1, <2>2, LenProperties
<1>5. \A i \in 1..(Len(s) - 1) : t[i] = IF i <= k - 1 THEN s[i] ELSE s[i + 1]
  <2> SUFFICES ASSUME NEW i \in 1..(Len(s) - 1)
               PROVE  t[i] = IF i <= k - 1 THEN s[i] ELSE s[i + 1]
    OBVIOUS
  <2>1. CASE i <= k - 1
    BY <1>0, <1>1, <1>4, <2>1
  <2>2. CASE i > k - 1
    <3>1. i - (k - 1) \in 1..(Len(s) - k) /\ k + (i - (k - 1)) = i + 1  BY <1>0, <2>2
    <3>2. after[i - (k - 1)] = s[i + 1]  BY <1>2, <3>1
    <3> QED  BY <1>0, <1>4, <2>2, <3>2
  <2> QED  BY <2>1, <2>2
<1>6. ASSUME NEW i \in DOMAIN t PROVE \E j \in DOMAIN s : j # k /\ t[i] = s[j]
  <2>1. CASE i <= k - 1
    <3>1. i \in DOMAIN s /\ i # k /\ t[i] = s[i]  BY <1>0, <1>4, <1>5, <2>1
    <3> QED  BY <3>1
  <2>2. CASE i > k - 1
    <3>1. i + 1 \in DOMAIN s /\ i + 1 # k /\ t[i] = s[i + 1]  BY <1>0, <1>4, <1>5, <2>2
    <3> QED  BY <3>1
  <2> QED  BY <1>0, <1>4, <2>1, <2>2
<1>7. ASSUME NEW j \in DOMAIN s, j # k PROVE \E i \in DOMAIN t : t[i] = s[j]
  <2>1. CASE j < k
    <3>1. j \in DOMAIN t /\ t[j] = s[j]  BY <1>0, <1>4, <1>5, <2>1
    <3> QED  BY <3>1
  <2>2. CASE j > k
    <3>1. j - 1 \in DOMAIN t /\ ~(j - 1 <= k - 1) /\ (j - 1) + 1 = j  BY <1>0, <1>4, <2>2
    <3>2. t[j - 1] = s[j]  BY <1>0, <1>4, <1>5, <3>1
    <3> QED  BY <3>1, <3>2
  <2> QED  BY <1>0, <1>7, <2>1, <2>2
<1> QED  BY <1>6, <1>7 DEF t

\* A claim takes exactly the entry of its challenge off the list.
LEMMA RemainingRange ==
    ASSUME NEW a \in Account, NEW c, RunsOnce(a.active), NEW k \in Matches(a.active, c)
    PROVE  Range(Remaining(a, c)) = Range(a.active) \ {a.active[k]}
<1> DEFINE s == a.active
<1>1. s \in Seq(Entry) /\ DOMAIN s = 1..Len(s)
  <2>1. s \in Seq(Entry)  BY DEF Account
  <2> QED  BY <2>1, LenProperties
<1>2. k \in 1..Len(s) /\ s[k].id = c  BY <1>1 DEF Matches
<1>3. \A i \in DOMAIN s : s[i].id = c => i = k  BY <1>1, <1>2 DEF RunsOnce
<1>4. (CHOOSE i \in Matches(s, c) : TRUE) = k
  <2>1. (CHOOSE i \in Matches(s, c) : TRUE) \in Matches(s, c)  OBVIOUS
  <2> QED  BY <1>3, <2>1 DEF Matches
<1>5. Remaining(a, c) = RemoveAt(s, k)  BY <1>4 DEF Remaining
<1>6. \A i \in DOMAIN s : s[i] = s[k] => i = k  BY <1>2, <1>3
<1> DEFINE t == RemoveAt(s, k)
<1> HIDE DEF s
<1>7. /\ \A i \in DOMAIN t : \E j \in DOMAIN s : j # k /\ t[i] = s[j]
      /\ \A j \in DOMAIN s : j # k => \E i \in DOMAIN t : t[i] = s[j]
  BY <1>1, <1>2, RemoveAtElements
<1> HIDE DEF t
<1>8. Range(t) = Range(s) \ {s[k]}
  <2>1. ASSUME NEW i \in DOMAIN t PROVE t[i] \in Range(s) \ {s[k]}
    <3>1. PICK j \in DOMAIN s : j # k /\ t[i] = s[j]  BY <1>7
    <3> QED  BY <1>6, <3>1 DEF Range
  <2>2. ASSUME NEW j \in DOMAIN s, s[j] # s[k] PROVE s[j] \in Range(t)
    <3>1. PICK i \in DOMAIN t : t[i] = s[j]  BY <1>7, <2>2
    <3> QED  BY <3>1 DEF Range
  <2> QED  BY <2>1, <2>2 DEF Range
<1> QED  BY <1>5, <1>8 DEF s, t

-----------------------------------------------------------------------------
(* Days of the month.                                                      *)

LEMMA NextSameDay ==
    ASSUME NEW m \in Nat \ {0}, NEW a \in Nat, NEW b \in Nat, a < b, a % m = b % m
    PROVE  b - a >= m
<1>1. /\ a = m * (a \div m) + (a % m) /\ a \div m \in Int
      /\ b = m * (b \div m) + (b % m) /\ b \div m \in Int
  OBVIOUS
<1> DEFINE p == a \div m
           q == b \div m
<1> HIDE DEF p, q
<1>2. b - a = m * (q - p) /\ p \in Int /\ q \in Int  BY <1>1 DEF p, q
<1>3. q - p > 0  BY <1>2
<1>4. m * (q - p) >= m  BY <1>2, <1>3
<1> QED  BY <1>2, <1>4

\* The row is due: the last log, on a day of the month equal to that of the
\* end date, is not a month or more before it, so the end date has come.
LEMMA EndArrived ==
    ASSUME NEW e \in Entry, today \in Nat, e.start <= today, EndReached(e),
           \A i \in DOMAIN e.days : e.start <= e.days[i] /\ e.days[i] <= today
    PROVE  EndOf(e) <= today
<1>1. /\ e.start \in Nat /\ EndOf(e) \in Nat /\ EndOf(e) = e.start + ChallengeDays
      /\ ChallengeDays < MonthDays /\ ChallengeDays \in Nat /\ MonthDays \in Nat \ {0}
  BY CalendarAssumption, CycleAssumption DEF EndOf, Entry
<1>2. LastDay(e) \in Nat /\ e.start <= LastDay(e) /\ LastDay(e) <= today
  <2>1. CASE e.days = <<>>
    BY <2>1 DEF LastDay
  <2>2. CASE e.days # <<>>
    <3>1. e.days \in Seq(Nat)  BY DEF Entry
    <3>2. Len(e.days) \in DOMAIN e.days /\ e.days[Len(e.days)] \in Nat
      BY <2>2, <3>1, EmptySeq, LenProperties, ElementOfSeq
    <3>3. LastDay(e) = e.days[Len(e.days)]  BY <2>2 DEF LastDay, Last
    <3> QED  BY <3>2, <3>3
  <2> QED  BY <2>1, <2>2
<1>3. LastDay(e) % MonthDays = EndOf(e) % MonthDays  BY DEF EndReached, DayOfMonth
<1>4. CASE LastDay(e) < EndOf(e)
  <2>1. EndOf(e) - LastDay(e) >= MonthDays  BY <1>1, <1>2, <1>3, <1>4, NextSameDay
  <2> QED  BY <1>1, <1>2, <2>1
<1>5. CASE LastDay(e) >= EndOf(e)  BY <1>1, <1>2, <1>5
<1> QED  BY <1>1, <1>2, <1>4, <1>5
=============================================================================
