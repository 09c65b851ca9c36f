------------------------- MODULE LeaderboardProofs -------------------------
(***************************************************************************)
(* For any users, any size of the list and any history:                    *)
(*   - the user of the device stands on the board exactly once;            *)
(*   - every rank shown is the place of that user's points;                *)
(*   - podium and rows together are a whole board;                         *)
(*   - the own row counts the own completions of the days before the board *)
(*     was made, whatever was claimed on this device, and no others.         *)
(* OwnRowOnce is inductive as it stands, because a board is only ever made *)
(* by Load; the work is in the lemma that the ranges of createLeaderboard  *)
(* always meet the user.  Ranks need points that can be compared, so the   *)
(* sum of a user's points is shown to exist and to be a natural number:    *)
(* an induction over finite sets, carried out as the search for a smallest *)
(* counterexample.                                                         *)
(***************************************************************************)
EXTENDS Leaderboard, FiniteSetTheorems, SequenceTheorems, TLAPS

\* The first three indices and the range hold every index of the user once:
\* the user is on the podium and before the range, or below it and within.
LEMMA RangeHoldsMe ==
    ASSUME NEW me \in Nat
    PROVE  /\ me <= 2 => MinRange(me) = 2
           /\ me > 2 => MinRange(me) < me /\ me <= MaxRange(me)
           /\ MinRange(me) \in Nat
           /\ MaxRange(me) \in Int
  BY SizeAssumption DEF MinRange, MaxRange, FarDown


\* Podium and range together, as one list of places in the ranking.
LEMMA BoardRows ==
    ASSUME NEW order, NEW days, NEW me \in {-1} \cup Nat,
           Len(order) \in Nat, Len(order) >= 3,
           NEW last \in Int,
           last = IF MaxRange(me) < Len(order) - 1 THEN MaxRange(me) ELSE Len(order) - 1
    PROVE  LET b == Board(order, days, me)
               f == MinRange(me)
               n == IF last < f THEN 0 ELSE last - f
           IN  /\ DOMAIN b = 1..(3 + n)
               /\ \A i \in 1..3 : b[i].user = order[i]
               /\ \A i \in 1..n : b[3 + i].user = order[f + i + 1]
  <1> DEFINE f == MinRange(me)
             n == IF last < f THEN 0 ELSE last - f
             S == {RowAt(order, days, i) : i \in Int}
             top == [i \in 1..3 |-> RowAt(order, days, i - 1)]
             rest == [i \in 1..n |-> RowAt(order, days, f + i)]
  <1>1. f \in Nat
    BY SizeAssumption DEF MinRange, FarDown
  <1>2. n \in Nat /\ 1..n = 1..(last - f)
    BY <1>1
  <1>3. Board(order, days, me) = top \o rest
    BY <1>2 DEF Board
  <1>4. top \in Seq(S) /\ Len(top) = 3
    <2>1. \A i \in 1..3 : RowAt(order, days, i - 1) \in S
      OBVIOUS
    <2> HIDE DEF S
    <2> QED
      BY <2>1
  <1>5. rest \in Seq(S) /\ Len(rest) = n
    <2>1. \A i \in 1..n : RowAt(order, days, f + i) \in S
      BY <1>1, <1>2
    <2> HIDE DEF f, n, S
    <2> QED
      BY <2>1, <1>2
  <1>6. \A i \in 1..3 : top[i].user = order[i]
    BY DEF RowAt
  <1>7. \A i \in 1..n : rest[i].user = order[f + i + 1]
    BY <1>2 DEF RowAt
  <1> HIDE DEF f, n, S, top, rest
  <1> DEFINE b == top \o rest
  <1>8. b \in Seq(S)
    BY <1>4, <1>5, ConcatProperties
  <1>9. Len(b) = 3 + n
    BY <1>4, <1>5, ConcatProperties, ZenonT(30)
  <1>10. \A i \in 1..(Len(top) + Len(rest)) :
           b[i] = IF i <= Len(top) THEN top[i] ELSE rest[i - Len(top)]
    BY <1>4, <1>5, ConcatProperties, Zenon
  <1> HIDE DEF b
  <1>11. \A i \in 1..3 : b[i] = top[i]
    BY <1>2, <1>4, <1>5, <1>10
  <1>12. \A i \in 1..n : b[3 + i] = rest[i]
    BY <1>2, <1>4, <1>5, <1>10
  <1>13. DOMAIN b = 1..(3 + n)
    BY <1>2, <1>8, <1>9
  <1> QED
    BY <1>3, <1>6, <1>7, <1>11, <1>12, <1>13, ZenonT(30) DEF b, f, n

\* A ranking is a list of the users of the answer, each once.
LEMMA RankingIsList ==
    ASSUME NEW users \in SUBSET User, NEW days, NEW order \in Rankings(users, days)
    PROVE  /\ Cardinality(users) \in Nat
           /\ DOMAIN order = 1..Cardinality(users)
           /\ Len(order) = Cardinality(users)
           /\ \A i, j \in DOMAIN order : order[i] = order[j] => i = j
           /\ \A u \in users : \E i \in DOMAIN order : order[i] = u
  <1>1. Cardinality(users) \in Nat
    BY UserAssumption, FS_Subset, FS_CardinalityType
  <1> DEFINE n == Cardinality(users)
  <1>3. order \in [1..n -> users]
    BY DEF Rankings
  <1>4. \A i, j \in 1..n : order[i] = order[j] => i = j
    BY <1>3 DEF Rankings, IsInjective
  <1>5. \A u \in users : \E i \in 1..n : order[i] = u
    BY <1>3 DEF Rankings, Range
  <1> HIDE DEF n
  <1>6. Len(order) = n
    BY <1>1, <1>3 DEF n
  <1> QED
    BY <1>1, <1>3, <1>4, <1>5, <1>6 DEF n

\* However the others are ranked, the board made for the user lists the user
\* exactly once.
LEMMA BoardHoldsMeOnce ==
    ASSUME NEW users \in SUBSET User, Me \in users, Cardinality(users) >= 3,
           NEW days, NEW order \in Rankings(users, days)
    PROVE  Cardinality(RowsOf(Board(order, days, MyIndex(TRUE, order)), Me)) = 1
  <1> DEFINE N == Cardinality(users)
             me == MyIndex(TRUE, order)
             f == MinRange(me)
             last == IF MaxRange(me) < N - 1 THEN MaxRange(me) ELSE N - 1
             n == IF last < f THEN 0 ELSE last - f
             b == Board(order, days, me)
  <1>1. N \in Nat /\ N >= 3 /\ DOMAIN order = 1..N /\ Len(order) = N
    BY RankingIsList
  <1>2. \A i, j \in 1..N : order[i] = order[j] => i = j
    BY RankingIsList
  <1>3. me + 1 \in 1..N /\ order[me + 1] = Me /\ me \in Nat
    <2>1. PICK p \in 1..N : order[p] = Me
      BY RankingIsList
    <2>2. me = p - 1
      BY <1>1, <1>2, <2>1 DEF MyIndex
    <2> HIDE DEF me, N
    <2>3. me + 1 = p /\ me \in Nat
      BY <1>1, <2>2
    <2> QED
      BY <2>1, <2>3
  <1>4. \A i \in 1..N : order[i] = Me <=> i = me + 1
    BY <1>2, <1>3
  <1> HIDE DEF me
  <1>5. /\ me <= 2 => f = 2
        /\ me > 2 => f < me /\ me <= MaxRange(me)
        /\ f \in Nat
        /\ MaxRange(me) \in Int
    BY <1>3, RangeHoldsMe
  <1> HIDE DEF N
  <1>6. last \in Int /\ last <= N - 1 /\ n \in Nat /\ n <= N
    BY <1>1, <1>5
  <1>7. /\ DOMAIN b = 1..(3 + n)
        /\ \A i \in 1..3 : b[i].user = order[i]
        /\ \A i \in 1..n : b[3 + i].user = order[f + i + 1]
    <2>1. last = IF MaxRange(me) < Len(order) - 1 THEN MaxRange(me) ELSE Len(order) - 1
      BY <1>1
    <2>2. Len(order) \in Nat /\ Len(order) >= 3 /\ me \in {-1} \cup Nat
      BY <1>1, <1>3
    <2>3. last \in Int
      BY <1>6
    <2> HIDE DEF last
    <2> QED
      BY <2>1, <2>2, <2>3, BoardRows
  <1> DEFINE row == IF me <= 2 THEN me + 1 ELSE 3 + (me - f)
  <1>8. \A i \in 1..n : f + i + 1 \in 1..N
    BY <1>1, <1>5, <1>6
  <1>9. row \in DOMAIN b
    BY <1>1, <1>3, <1>5, <1>6, <1>7, SMTT(20)
  <1> HIDE DEF b
  <1>10. \A i \in 1..3 : b[i].user = Me <=> i = row
    BY <1>1, <1>3, <1>4, <1>5, <1>7, SMTT(20)
  <1>11. \A i \in 1..n : b[3 + i].user = Me <=> 3 + i = row
    <2>1. \A i \in 1..n : b[3 + i].user = Me <=> f + i + 1 = me + 1
      BY <1>4, <1>7, <1>8
    <2> HIDE DEF f, n
    <2>2. \A i \in 1..n : f + i + 1 = me + 1 <=> 3 + i = row
      BY <1>3, <1>5, <1>6
    <2> QED
      BY <2>1, <2>2
  <1> HIDE DEF row, n, last, f
  <1>12. \A i \in 1..(3 + n) : i \in 1..3 \/ (i - 3 \in 1..n /\ 3 + (i - 3) = i)
    BY <1>6
  <1>13. \A i \in DOMAIN b : b[i].user = Me <=> i = row
    BY <1>7, <1>10, <1>11, <1>12
  <1>14. RowsOf(b, Me) = {row}
    BY <1>9, <1>13 DEF RowsOf
  <1> QED
    BY <1>14, FS_Singleton DEF b, me

-----------------------------------------------------------------------------
\* OwnRowOnce for every number of users, every length of the list and every
\* history: only Load makes boards, all other steps keep or empty the model.
THEOREM OwnRowHolds == Spec => []OwnRowOnce
  <1>1. Init => OwnRowOnce
    BY DEF Init, OwnRowOnce, Loading
  <1>2. OwnRowOnce /\ [Next]_vars => OwnRowOnce'
    <2> SUFFICES ASSUME OwnRowOnce, [Next]_vars
                 PROVE  OwnRowOnce'
      OBVIOUS
    <2>1. ASSUME NEW users \in SUBSET User, Load(users)
          PROVE  OwnRowOnce'
      <3> SUFFICES ASSUME model'.own, Me \in model'.users
                   PROVE  /\ Cardinality(RowsOf(model'.week, Me)) = 1
                          /\ Cardinality(RowsOf(model'.month, Me)) = 1
        BY DEF OwnRowOnce, RowsOf
      <3>1. PICK w \in Rankings(users, WeekDays), m \in Rankings(users, MonthDays) :
              model' = [own    |-> model.own,
                        loaded |-> TRUE,
                        users  |-> users,
                        day    |-> today,
                        week   |-> Board(w, WeekDays, MyIndex(model.own, w)),
                        month  |-> Board(m, MonthDays, MyIndex(model.own, m))]
        BY <2>1 DEF Load
      <3>2. Me \in users /\ Cardinality(users) >= 3
        BY <2>1, <3>1 DEF Load
      <3>3. model.own
        BY <3>1
      <3>4. /\ model'.week = Board(w, WeekDays, MyIndex(model.own, w))
            /\ model'.month = Board(m, MonthDays, MyIndex(model.own, m))
        BY <3>1
      <3>5. /\ MyIndex(model.own, w) = MyIndex(TRUE, w)
            /\ MyIndex(model.own, m) = MyIndex(TRUE, m)
        BY <3>3 DEF MyIndex
      <3> QED
        BY <3>2, <3>4, <3>5, BoardHoldsMeOnce
    <2>2. ASSUME \E own \in BOOLEAN : model' = Loading(own)
          PROVE  OwnRowOnce'
      BY <2>2 DEF OwnRowOnce, Loading
    <2>3. CASE UNCHANGED model
      BY <2>3 DEF OwnRowOnce, RowsOf
    <2>4. CASE Launch \/ Login \/ Kill \/ LoadTraps \/ OpenTabTraps \/ Claim
      BY <2>2, <2>4 DEF Launch, Login, Kill, LoadTraps, OpenTabTraps, Claim, Replace, Die
    <2>5. CASE SignOut \/ LoadOrphan \/ OpenTab \/ LeaveTab \/ ChangeView
               \/ ClaimElsewhere \/ NextDay \/ UNCHANGED vars
      BY <2>3, <2>5
         DEF SignOut, LoadOrphan, OpenTab, LeaveTab, ChangeView, ClaimElsewhere,
             NextDay, vars
    <2> QED
      BY <2>1, <2>4, <2>5 DEF Next
  <1> QED
    BY <1>1, <1>2, PTL DEF Spec

-----------------------------------------------------------------------------
(* The sum of a person's points.                                          *)
\* The least-number principle, for sets.
LEMMA LeastOf ==
    ASSUME NEW T \in SUBSET Nat, T # {}
    PROVE  \E m \in T : \A k \in T : m <= k
  <1> DEFINE R == {ss \in Nat \X Nat : ss[1] < ss[2]}
  <1>1. IsWellFoundedOn(R, Nat)
    BY NatLessThanWellFounded DEF OpToRel
  <1>2. \E m \in T : \A k \in T : ~(<<k, m>> \in R)
    <2> HIDE DEF R
    <2> QED BY <1>1, WFMin
  <1>3. \A k, m \in T : <<k, m>> \in R <=> k < m
    OBVIOUS
  <1> HIDE DEF R
  <1>4. PICK m \in T : \A k \in T : ~(<<k, m>> \in R)
    BY <1>2
  <1>5. \A k \in T : m <= k
    <2> TAKE k \in T
    <2>1. ~(k < m)
      BY <1>3, <1>4
    <2>2. k \in Nat /\ m \in Nat
      OBVIOUS
    <2> QED
      BY <2>1, <2>2
  <1> QED
    BY <1>5

\* One step of the fold that MapThenSumSet is, and the sums of all subsets.
SumStep(g, list, s) ==
    IF s = {} THEN 0
    ELSE LET x == CHOOSE x \in s : TRUE IN list[x].sp + g[s \ {x}]

IsSum(g, S, list) == g = [s \in SUBSET S |-> SumStep(g, list, s)]

\* The sum of a finite set's values exists ...
LEMMA SumExists ==
    ASSUME NEW S, IsFiniteSet(S), NEW list, \A x \in S : list[x].sp \in Nat
    PROVE  \E g : IsSum(g, S, list)
  <1> DEFINE Upto(n) == {s \in SUBSET S : Cardinality(s) <= n}
             Solves(g, n) == /\ g \in [SUBSET S -> Nat]
                             /\ \A s \in Upto(n) : g[s] = SumStep(g, list, s)
             T == {n \in Nat : ~ \E g : Solves(g, n)}
  <1>1. \A s \in SUBSET S : IsFiniteSet(s) /\ Cardinality(s) \in Nat
    BY FS_Subset, FS_CardinalityType
  <1>2. \A s \in SUBSET S : s # {} =>
          LET x == CHOOSE x \in s : TRUE
          IN  x \in S /\ s \ {x} \in SUBSET S /\ Cardinality(s \ {x}) = Cardinality(s) - 1
    <2> TAKE s \in SUBSET S
    <2> DEFINE x == CHOOSE x \in s : TRUE
    <2>1. s # {} => x \in s
      OBVIOUS
    <2> HIDE DEF x
    <2>2. s # {} => Cardinality(s \ {x}) = Cardinality(s) - 1
      BY <1>1, <2>1, FS_RemoveElement
    <2> QED
      BY <2>1, <2>2 DEF x
  <1>3. T = {}
    <2> SUFFICES ASSUME T # {} PROVE FALSE
      OBVIOUS
    <2>1. PICK m \in T : \A k \in T : m <= k
      BY LeastOf
    <2>2. m # 0
      <3> SUFFICES ASSUME m = 0 PROVE \E g : Solves(g, 0)
        BY <2>1
      <3> DEFINE g == [s \in SUBSET S |-> 0]
      <3>1. \A s \in Upto(0) : s = {}
        BY <1>1, FS_EmptySet
      <3>2. Solves(g, 0)
        BY <3>1 DEF SumStep
      <3> QED BY <3>2
    <2>3. PICK g : Solves(g, m - 1)
      <3>1. m - 1 \in Nat /\ ~(m <= m - 1)
        BY <2>1, <2>2
      <3> HIDE DEF Solves
      <3> QED BY <2>1, <3>1
    <2> DEFINE h == [s \in SUBSET S |->
                       IF Cardinality(s) = m THEN SumStep(g, list, s) ELSE g[s]]
    <2>4. \A s \in SUBSET S : SumStep(g, list, s) \in Nat
      <3> TAKE s \in SUBSET S
      <3> DEFINE x == CHOOSE x \in s : TRUE
      <3> HIDE DEF x
      <3>1. CASE s = {}
        BY <3>1 DEF SumStep
      <3>2. CASE s # {}
        <4>1. x \in S /\ s \ {x} \in SUBSET S
          BY <1>2, <3>2 DEF x
        <4>2. list[x].sp \in Nat /\ g[s \ {x}] \in Nat
          BY <2>3, <4>1
        <4> QED
          BY <3>2, <4>2 DEF SumStep, x
      <3> QED BY <3>1, <3>2
    <2>5. h \in [SUBSET S -> Nat]
      BY <2>3, <2>4
    <2>6. \A s \in Upto(m) : h[s] = SumStep(g, list, s)
      <3> TAKE s \in Upto(m)
      <3> QED BY <1>1, <2>1, <2>3
    <2>7. \A s \in Upto(m) : SumStep(h, list, s) = SumStep(g, list, s)
      <3> TAKE s \in Upto(m)
      <3> DEFINE x == CHOOSE x \in s : TRUE
      <3> HIDE DEF x
      <3>1. CASE s = {}
        BY <3>1 DEF SumStep
      <3>2. CASE s # {}
        <4>1. s \ {x} \in SUBSET S /\ Cardinality(s \ {x}) # m
          BY <1>1, <1>2, <2>1, <3>2 DEF x
        <4>2. h[s \ {x}] = g[s \ {x}]
          BY <4>1
        <4> QED
          BY <3>2, <4>2 DEF SumStep, x
      <3> QED BY <3>1, <3>2
    <2>8. Solves(h, m)
      BY <2>5, <2>6, <2>7
    <2> HIDE DEF Solves, h
    <2> QED
      BY <2>1, <2>8
  <1>4. Cardinality(S) \in Nat /\ Upto(Cardinality(S)) = SUBSET S
    BY <1>1, FS_Subset
  <1>5. PICK g : Solves(g, Cardinality(S))
    <2> HIDE DEF Solves
    <2> QED BY <1>3, <1>4
  <1>6. g = [s \in SUBSET S |-> SumStep(g, list, s)]
    BY <1>4, <1>5
  <1> QED
    BY <1>6 DEF IsSum

\* ... and is a natural number.
LEMMA SumNatural ==
    ASSUME NEW S, IsFiniteSet(S), NEW list, \A x \in S : list[x].sp \in Nat,
           NEW g, IsSum(g, S, list)
    PROVE  g[S] \in Nat
  <1> DEFINE T == {Cardinality(s) : s \in {r \in SUBSET S : g[r] \notin Nat}}
  <1>1. \A s \in SUBSET S : IsFiniteSet(s) /\ Cardinality(s) \in Nat
    BY FS_Subset, FS_CardinalityType
  <1>2. T \in SUBSET Nat
    BY <1>1
  <1>3. T = {}
    <2> SUFFICES ASSUME T # {} PROVE FALSE
      OBVIOUS
    <2>1. PICK m \in T : \A k \in T : m <= k
      BY <1>2, LeastOf
    <2>2. PICK s \in SUBSET S : g[s] \notin Nat /\ Cardinality(s) = m
      BY <2>1
    <2> DEFINE x == CHOOSE x \in s : TRUE
    <2>3. g[s] = IF s = {} THEN 0 ELSE list[x].sp + g[s \ {x}]
      <3>1. g[s] = SumStep(g, list, s)
        BY <2>2 DEF IsSum
      <3> QED BY <3>1 DEF SumStep
    <2>4. s # {} => x \in s
      OBVIOUS
    <2> HIDE DEF x
    <2>5. s # {}
      BY <2>2, <2>3
    <2>6. Cardinality(s \ {x}) = m - 1 /\ s \ {x} \in SUBSET S
      BY <1>1, <2>2, <2>4, <2>5, FS_RemoveElement
    <2>7. g[s \ {x}] \in Nat
      <3> SUFFICES ASSUME g[s \ {x}] \notin Nat PROVE FALSE
        OBVIOUS
      <3>1. m - 1 \in T
        BY <2>6
      <3> HIDE DEF T
      <3> QED
        BY <1>2, <2>1, <3>1
    <2>8. list[x].sp \in Nat
      BY <2>4, <2>5
    <2> QED
      BY <2>2, <2>3, <2>5, <2>7, <2>8
  <1>4. S \in SUBSET S
    OBVIOUS
  <1> QED
    BY <1>3, <1>4

\* The points of a person are a natural number.
LEMMA CoinsType ==
    ASSUME NEW list \in Seq(Done), NEW days, NEW now
    PROVE  CoinsOf(list, days, now) \in Nat
  <1> DEFINE S == {i \in DOMAIN list : Within(list[i].date, days, now)}
             g == CHOOSE g : IsSum(g, S, list)
  <1>1. CoinsOf(list, days, now) = g[S]
    BY DEF CoinsOf, MapThenSumSet, MapThenFoldSet, SumStep, IsSum
  <1>2. IsFiniteSet(S)
    <2>1. DOMAIN list = 1..Len(list) /\ Len(list) \in Nat
      OBVIOUS
    <2>2. IsFiniteSet(DOMAIN list)
      BY <2>1, FS_Interval
    <2> QED BY <2>2, FS_Subset
  <1>3. \A x \in S : list[x].sp \in Nat
    <2> TAKE x \in S
    <2>1. list[x] \in Done
      OBVIOUS
    <2> QED
      BY <2>1, SizeAssumption DEF Done
  <1> HIDE DEF S
  <1>4. IsSum(g, S, list)
    BY <1>2, <1>3, SumExists
  <1> HIDE DEF g
  <1> QED
    BY <1>1, <1>2, <1>3, <1>4, SumNatural

-----------------------------------------------------------------------------
\* Every row of a board is the row of a place in the ranking, and there are at
\* least the three of the podium.
LEMMA BoardIsRows ==
    ASSUME NEW order, NEW days, NEW me \in {-1} \cup Nat,
           Len(order) \in Nat, Len(order) >= 3
    PROVE  /\ Board(order, days, me)
                \in Seq({RowAt(order, days, j) : j \in 0..(Len(order) - 1)})
           /\ Len(Board(order, days, me)) >= 3
  <1> DEFINE N == Len(order)
             last == IF MaxRange(me) < N - 1 THEN MaxRange(me) ELSE N - 1
             f == MinRange(me)
             n == IF last < f THEN 0 ELSE last - f
             S == {RowAt(order, days, j) : j \in 0..(N - 1)}
             top == [i \in 1..3 |-> RowAt(order, days, i - 1)]
             rest == [i \in 1..n |-> RowAt(order, days, f + i)]
  <1>1. f \in Nat /\ last \in Int /\ last <= N - 1
    BY SizeAssumption DEF MinRange, MaxRange, FarDown
  <1> HIDE DEF f, last
  <1>2. n \in Nat /\ 1..n = 1..(last - f) /\ (n > 0 => f + n <= N - 1)
    BY <1>1
  <1> HIDE DEF n
  <1>3. Board(order, days, me) = top \o rest
    BY <1>2 DEF Board, f, last
  <1>4. top \in Seq(S) /\ Len(top) = 3
    <2>1. \A i \in 1..3 : i - 1 \in 0..(N - 1)
      OBVIOUS
    <2>2. \A i \in 1..3 : RowAt(order, days, i - 1) \in S
      BY <2>1
    <2> HIDE DEF S
    <2> QED
      BY <2>2
  <1>5. rest \in Seq(S) /\ Len(rest) = n
    <2>1. \A i \in 1..n : f + i \in 0..(N - 1)
      BY <1>1, <1>2
    <2>2. \A i \in 1..n : RowAt(order, days, f + i) \in S
      BY <2>1
    <2> HIDE DEF S
    <2> QED
      BY <1>2, <2>2
  <1> HIDE DEF S, top, rest
  <1>6. top \o rest \in Seq(S) /\ Len(top \o rest) = Len(top) + Len(rest)
    BY <1>4, <1>5, ConcatProperties
  <1>7. Board(order, days, me) \in Seq(S) /\ Len(Board(order, days, me)) >= 3
    BY <1>2, <1>3, <1>4, <1>5, <1>6
  <1> QED
    BY <1>7 DEF S

\* The points of users are comparable.
LEMMA CoinsAreNatural ==
    ASSUME done \in [User -> Seq(Done)], NEW u \in User, NEW days, NEW now
    PROVE  Coins(u, days, now) \in Nat
  BY CoinsType DEF Coins

\* The place in the ranking lies between the number of those with more points
\* and the number of those with at least as many.
LEMMA PlaceIsRank ==
    ASSUME done \in [User -> Seq(Done)],
           NEW users \in SUBSET User, NEW days, NEW order \in Rankings(users, days),
           NEW p \in 1..Cardinality(users)
    PROVE  /\ Cardinality({v \in users : Coins(v, days, today) > Coins(order[p], days, today)}) < p
           /\ p <= Cardinality({v \in users : Coins(v, days, today) >= Coins(order[p], days, today)})
  <1> DEFINE N == Cardinality(users)
             c(v) == Coins(v, days, today)
             above == {v \in users : c(v) > c(order[p])}
             notBelow == {v \in users : c(v) >= c(order[p])}
  <1>1. N \in Nat /\ order \in [1..N -> users] /\ IsFiniteSet(users)
    BY RankingIsList, UserAssumption, FS_Subset DEF Rankings
  <1>2. \A i, j \in 1..N : order[i] = order[j] => i = j
    BY RankingIsList
  <1>3. \A v \in users : \E i \in 1..N : order[i] = v
    BY RankingIsList
  <1>4. \A v \in users : c(v) \in Nat
    BY CoinsAreNatural
  <1>5. \A i, j \in 1..N : i < j => c(order[i]) > c(order[j]) \/ c(order[i]) = c(order[j])
    BY <1>1 DEF Rankings
  <1> HIDE DEF c, N
  <1>6. \A i, j \in 1..N : i <= j => c(order[i]) >= c(order[j])
    <2> SUFFICES ASSUME NEW i \in 1..N, NEW j \in 1..N, i <= j
                 PROVE  c(order[i]) >= c(order[j])
      OBVIOUS
    <2>1. c(order[i]) \in Nat /\ c(order[j]) \in Nat
      BY <1>1, <1>4
    <2>2. CASE i = j
      BY <2>1, <2>2
    <2>3. CASE i < j
      BY <1>5, <2>1, <2>3
    <2> QED
      BY <2>2, <2>3
  <1>p. p \in 1..N
    BY DEF N
  <1>7. Cardinality(above) <= p - 1
    <2> DEFINE place == [v \in above |-> CHOOSE i \in 1..N : order[i] = v]
    <2>1. \A v \in above : place[v] \in 1..N /\ order[place[v]] = v
      BY <1>3
    <2> HIDE DEF place
    <2>2. ASSUME NEW v \in above
          PROVE  place[v] \in 1..(p - 1)
      <3>1. ~(c(order[p]) >= c(v))
        BY <1>1, <1>p, <1>4
      <3>2. ~(p <= place[v])
        BY <1>6, <1>p, <2>1, <3>1
      <3> QED
        BY <1>p, <2>1, <3>2
    <2>3. place \in [above -> 1..(p - 1)]
      BY <2>2 DEF place
    <2>4. place \in Injection(above, 1..(p - 1))
      BY <2>1, <2>3 DEF Injection, IsInjective
    <2>5. IsFiniteSet(1..(p - 1)) /\ Cardinality(1..(p - 1)) = p - 1
      BY <1>1, <1>p, FS_Interval
    <2> HIDE DEF above
    <2> QED
      BY <2>4, <2>5, FS_Injection
  <1>8. p <= Cardinality(notBelow)
    <2> DEFINE first == [i \in 1..p |-> order[i]]
    <2>1. \A i \in 1..p : i \in 1..N /\ i <= p
      BY <1>1, <1>p
    <2>2. first \in [1..p -> notBelow]
      BY <1>1, <1>6, <1>p, <2>1
    <2>3. first \in Injection(1..p, notBelow)
      BY <1>2, <2>1, <2>2 DEF Injection, IsInjective
    <2>4. IsFiniteSet(notBelow)
      BY <1>1, FS_Subset
    <2>5. Cardinality(1..p) = p
      BY <1>1, <1>p, FS_Interval
    <2> HIDE DEF first, notBelow
    <2> QED
      BY <2>3, <2>4, <2>5, FS_Injection
  <1>9. Cardinality(above) < p
    <2>1. Cardinality(above) \in Nat
      BY <1>1, FS_Subset, FS_CardinalityType
    <2> QED
      BY <1>1, <1>p, <1>7, <2>1
  <1> QED
    BY <1>8, <1>9 DEF c

-----------------------------------------------------------------------------
\* What the boards of a loaded model and of a tab that was opened have in
\* common: the three rows that setRanks takes away.
BoardsLong ==
    /\ model.loaded => Len(model.week) >= 3 /\ Len(model.month) >= 3
    /\ screen.tab # "none" => Len(screen.week) >= 3 /\ Len(screen.month) >= 3

\* The inductive invariant of the leaderboard's data.
BoardsInv == TypeOK /\ BoardsLong /\ NobodyDropped

\* What every row of a new board says.
RowSound(row, users, days) ==
    /\ row \in Row
    /\ row.coins = Coins(row.user, days, today)
    /\ Cardinality({v \in users : Coins(v, days, today) > Coins(row.user, days, today)}) < row.rank
    /\ row.rank <= Cardinality({v \in users : Coins(v, days, today) >= Coins(row.user, days, today)})

\* A board made of a ranking has rows that are sound.
LEMMA BoardSound ==
    ASSUME done \in [User -> Seq(Done)], NEW users \in SUBSET User, Cardinality(users) >= 3,
           NEW days, NEW order \in Rankings(users, days), NEW own
    PROVE  LET b == Board(order, days, MyIndex(own, order))
           IN  /\ b \in Seq(Row) /\ Len(b) >= 3
               /\ \A i \in DOMAIN b : RowSound(b[i], users, days)
  <1> DEFINE N == Cardinality(users)
             me == MyIndex(own, order)
             b == Board(order, days, me)
             S == {RowAt(order, days, j) : j \in 0..(Len(order) - 1)}
  <1>1. N \in Nat /\ Len(order) = N /\ order \in [1..N -> users]
    BY RankingIsList DEF Rankings
  <1>2. me \in {-1} \cup Nat
    <2>1. CASE own /\ \E i \in DOMAIN order : order[i] = Me
      <3>1. (CHOOSE i \in DOMAIN order : order[i] = Me) \in 1..N
        BY <1>1, <2>1
      <3> QED
        BY <1>1, <2>1, <3>1 DEF MyIndex
    <2> QED
      BY <2>1 DEF MyIndex
  <1>3. \A row \in S : RowSound(row, users, days)
    <2> SUFFICES ASSUME NEW j \in 0..(N - 1)
                 PROVE  RowSound(RowAt(order, days, j), users, days)
      BY <1>1
    <2>1. j + 1 \in 1..N /\ order[j + 1] \in users
      BY <1>1
    <2>2. Coins(order[j + 1], days, today) \in Nat
      BY <2>1, CoinsAreNatural
    <2>3. /\ Cardinality({v \in users : Coins(v, days, today) > Coins(order[j + 1], days, today)}) < j + 1
          /\ j + 1 <= Cardinality({v \in users : Coins(v, days, today) >= Coins(order[j + 1], days, today)})
      BY <2>1, PlaceIsRank
    <2>4. /\ RowAt(order, days, j).user = order[j + 1]
          /\ RowAt(order, days, j).rank = j + 1
          /\ RowAt(order, days, j).coins = Coins(order[j + 1], days, today)
      BY DEF RowAt
    <2>5. RowAt(order, days, j) \in Row
      BY <1>1, <2>1, <2>2 DEF RowAt, Row
    <2> QED
      BY <2>3, <2>4, <2>5 DEF RowSound
  <1>4. b \in Seq(S) /\ Len(b) >= 3
    <2> HIDE DEF me
    <2> QED
      BY <1>1, <1>2, BoardIsRows
  <1> HIDE DEF S, b
  <1>5. \A i \in DOMAIN b : b[i] \in S
    BY <1>4
  <1>6. \A i \in DOMAIN b : b[i] \in Row /\ RowSound(b[i], users, days)
    BY <1>3, <1>5 DEF RowSound
  <1>7. b \in Seq(Row)
    BY <1>4, <1>6
  <1> QED
    BY <1>4, <1>6, <1>7 DEF b

\* What the answer to a query makes of the model.
LEMMA LoadSound ==
    ASSUME TypeOK, NEW users \in SUBSET User, Load(users)
    PROVE  /\ model' \in Model
           /\ model'.loaded /\ model'.users = users /\ model'.day = today
           /\ Len(model'.week) >= 3 /\ Len(model'.month) >= 3
           /\ \A i \in DOMAIN model'.week : RowSound(model'.week[i], users, WeekDays)
           /\ \A i \in DOMAIN model'.month : RowSound(model'.month[i], users, MonthDays)
  <1>1. PICK w \in Rankings(users, WeekDays), m \in Rankings(users, MonthDays) :
          model' = [own    |-> model.own,
                    loaded |-> TRUE,
                    users  |-> users,
                    day    |-> today,
                    week   |-> Board(w, WeekDays, MyIndex(model.own, w)),
                    month  |-> Board(m, MonthDays, MyIndex(model.own, m))]
    BY DEF Load
  <1> DEFINE bw == Board(w, WeekDays, MyIndex(model.own, w))
             bm == Board(m, MonthDays, MyIndex(model.own, m))
  <1>2. Cardinality(users) >= 3 /\ done \in [User -> Seq(Done)] /\ today \in Nat /\ model.own \in BOOLEAN
    BY DEF Load, TypeOK, Model
  <1>3. /\ bw \in Seq(Row) /\ Len(bw) >= 3
        /\ \A i \in DOMAIN bw : RowSound(bw[i], users, WeekDays)
    BY <1>2, BoardSound
  <1>4. /\ bm \in Seq(Row) /\ Len(bm) >= 3
        /\ \A i \in DOMAIN bm : RowSound(bm[i], users, MonthDays)
    BY <1>2, BoardSound
  <1>5. model' = [own |-> model.own, loaded |-> TRUE, users |-> users, day |-> today,
                  week |-> bw, month |-> bm]
    BY <1>1
  <1> HIDE DEF bw, bm
  <1>6. model' \in Model
    BY <1>2, <1>3, <1>4, <1>5 DEF Model
  <1> QED
    BY <1>3, <1>4, <1>5, <1>6

\* setRanks takes three rows of a long board away and drops nobody.
LEMMA RankedSound ==
    ASSUME NEW s \in Screen, NEW b \in Seq(Row), Len(b) >= 3
    PROVE  /\ Ranked(s, b) \in Screen
           /\ Ranked(s, b).tab = s.tab
           /\ Ranked(s, b).week = s.week /\ Ranked(s, b).month = s.month
           /\ Ranked(s, b).podium \o Ranked(s, b).persons = b
           /\ Len(Ranked(s, b).podium) = 3
  <1> DEFINE p == SubSeq(b, 1, 3)
             q == SubSeq(b, 4, Len(b))
  <1>1. p \in Seq(Row) /\ Len(p) = 3 /\ \A i \in 1..3 : p[i] = b[i]
    BY SubSeqProperties
  <1>2. q \in Seq(Row) /\ Len(q) = Len(b) - 3 /\ \A i \in 1..(Len(b) - 3) : q[i] = b[3 + i]
    <2> DEFINE n == Len(b)
    <2>1. n \in Nat /\ n >= 3 /\ \A i \in 4..n : b[i] \in Row
      OBVIOUS
    <2> HIDE DEF n
    <2>2. /\ SubSeq(b, 4, n) \in Seq(Row)
          /\ Len(SubSeq(b, 4, n)) = IF 4 <= n THEN n - 4 + 1 ELSE 0
          /\ \A i \in 1..(n - 4 + 1) : SubSeq(b, 4, n)[i] = b[4 + i - 1]
      BY <2>1, SubSeqProperties
    <2>3. 1..(n - 3) = 1..(n - 4 + 1) /\ \A i \in 1..(n - 3) : 4 + i - 1 = 3 + i
      BY <2>1
    <2>4. Len(SubSeq(b, 4, n)) = n - 3
      BY <2>1, <2>2
    <2> QED
      BY <2>2, <2>3, <2>4 DEF n
  <1>3. Ranked(s, b) = [s EXCEPT !.podium = p, !.persons = q]
    BY DEF Ranked
  <1> HIDE DEF p, q
  <1>4. /\ p \o q \in Seq(Row)
        /\ Len(p \o q) = Len(p) + Len(q)
        /\ \A i \in 1..(Len(p) + Len(q)) :
             (p \o q)[i] = IF i <= Len(p) THEN p[i] ELSE q[i - Len(p)]
    BY <1>1, <1>2, ConcatProperties
  <1>5. \A i \in 1..Len(b) : (p \o q)[i] = b[i]
    <2> TAKE i \in 1..Len(b)
    <2>1. CASE i <= 3
      BY <1>1, <1>2, <1>4, <2>1
    <2>2. CASE i > 3
      <3>1. i - 3 \in 1..(Len(b) - 3) /\ 3 + (i - 3) = i
        BY <2>2
      <3>2. q[i - 3] = b[i]
        BY <1>2, <3>1
      <3>3. i \in 1..(Len(p) + Len(q)) /\ ~(i <= Len(p)) /\ i - Len(p) = i - 3
        BY <1>1, <1>2, <2>2
      <3> QED
        BY <1>4, <3>2, <3>3
    <2>3. i <= 3 \/ i > 3
      OBVIOUS
    <2> QED
      BY <2>1, <2>2, <2>3, Zenon
  <1>6. p \o q = b
    BY <1>1, <1>2, <1>4, <1>5, SeqEqual
  <1>7. Ranked(s, b) \in Screen
    BY <1>1, <1>2, <1>3 DEF Screen
  <1>8. Ranked(s, b).podium = p /\ Ranked(s, b).persons = q
    BY <1>3 DEF Screen
  <1> QED
    BY <1>1, <1>3, <1>6, <1>7, <1>8 DEF Screen

-----------------------------------------------------------------------------
\* At launch there are no boards.
LEMMA BoardsInit == Init => BoardsInv
  <1> SUFFICES ASSUME Init PROVE BoardsInv
    OBVIOUS
  <1>1. Loading(FALSE) \in Model /\ ~Loading(FALSE).loaded
    BY DEF Loading, Model
  <1>2. NoScreen \in Screen /\ NoScreen.tab = "none"
    BY DEF NoScreen, Screen
  <1>3. done \in [User -> Seq(Done)]
    BY DEF Init
  <1> QED
    BY <1>1, <1>2, <1>3 DEF Init, BoardsInv, TypeOK, BoardsLong, NobodyDropped

\* What a claim writes is a list of completions, none dated in the future.
LEMMA CompleteType ==
    ASSUME TypeOK, NEW u \in User, Complete(u)
    PROVE  /\ done' \in [User -> Seq(Done)]
           /\ \A v \in User \ {u} : done'[v] = done[v]
           /\ \A i \in DOMAIN done'[u] : done'[u][i].date <= today
  <1>1. PICK kept \in 0..Len(done[u]), read \in 0..today, end \in 0..today, sp \in Sp :
          done' = [done EXCEPT ![u] = Rewritten(u, kept, read, end, sp)]
    BY DEF Complete
  <1>2. /\ done \in [User -> Seq(Done)] /\ today \in Nat
        /\ read \in Nat /\ end \in Nat /\ kept \in Nat
    <2>1. done \in [User -> Seq(Done)] /\ today \in Nat
      BY DEF TypeOK
    <2> QED
      BY <2>1
  <1> DEFINE old == [i \in 1..kept |-> [done[u][i] EXCEPT !.date = read]]
             new == [date |-> end, sp |-> sp, at |-> today]
  <1>3. old \in Seq(Done)
    <2>1. ASSUME NEW i \in 1..kept
          PROVE  [done[u][i] EXCEPT !.date = read] \in Done
      <3>1. i \in 1..Len(done[u])
        BY <1>2
      <3>2. done[u][i] \in Done
        BY <1>2, <3>1
      <3> QED
        BY <1>2, <3>2 DEF Done
    <2>2. old \in [1..kept -> Done]
      BY <2>1
    <2> HIDE DEF old
    <2> QED
      BY <1>2, <2>2
  <1>4. new \in Done
    BY <1>2 DEF Done
  <1>5. Rewritten(u, kept, read, end, sp) = Append(old, new)
    BY DEF Rewritten
  <1>6. \A i \in 1..kept : old[i].date = read
    <2> TAKE i \in 1..kept
    <2>1. done[u][i] \in Done
      BY <1>2
    <2> QED
      BY <2>1 DEF Done
  <1>7. Len(old) = kept /\ new.date = end
    BY <1>2
  <1> HIDE DEF old, new
  <1>8. /\ Append(old, new) \in Seq(Done)
        /\ DOMAIN Append(old, new) = 1..(kept + 1)
        /\ \A i \in 1..kept : Append(old, new)[i] = old[i]
        /\ Append(old, new)[kept + 1] = new
    BY <1>2, <1>3, <1>4, <1>7, AppendProperties
  <1>9. \A i \in 1..(kept + 1) : Append(old, new)[i].date <= today
    <2> TAKE i \in 1..(kept + 1)
    <2>1. CASE i = kept + 1
      BY <1>2, <1>7, <1>8, <2>1
    <2>2. CASE i \in 1..kept
      BY <1>2, <1>6, <1>8, <2>2
    <2>3. i = kept + 1 \/ i \in 1..kept
      BY <1>2
    <2> QED
      BY <2>1, <2>2, <2>3, Zenon
  <1>10. done'[u] = Append(old, new) /\ \A v \in User \ {u} : done'[v] = done[v]
    BY <1>1, <1>2, <1>5
  <1>11. done' \in [User -> Seq(Done)]
    BY <1>1, <1>2, <1>5, <1>8
  <1> QED
    BY <1>8, <1>9, <1>10, <1>11

\* A replaced model is empty.
LEMMA ReplaceSound ==
    ASSUME TypeOK, NEW own \in BOOLEAN, Replace(own)
    PROVE  model' \in Model /\ ~model'.loaded /\ orphans' \in Nat
  BY DEF TypeOK, Replace, Loading, Model

\* The end of the process leaves neither model nor tab.
LEMMA DieSound ==
    ASSUME NEW cause, Die(cause)
    PROVE  /\ app' = "off" /\ orphans' = 0 /\ trap' = cause
           /\ model' \in Model /\ ~model'.loaded
           /\ screen' \in Screen /\ screen'.tab = "none"
  BY DEF Die, Loading, Model, NoScreen, Screen

\* One case per action: boards come from Load, copies from OpenTab, podium and
\* rows from setRanks.
LEMMA BoardsStep == BoardsInv /\ [Next]_vars => BoardsInv'
  <1> SUFFICES ASSUME BoardsInv, [Next]_vars
               PROVE  BoardsInv'
    OBVIOUS
  <1> USE DEF BoardsInv
  <1>a. TypeOK
    OBVIOUS
  <1>b. /\ today \in Nat /\ done \in [User -> Seq(Done)] /\ app \in {"off", "intro", "in"}
        /\ model \in Model /\ orphans \in Nat /\ screen \in Screen
        /\ trap \in {"none", "load", "open"}
    BY DEF TypeOK
  <1>s. ASSUME UNCHANGED screen
        PROVE  (screen.tab # "none" => Len(screen.week) >= 3 /\ Len(screen.month) >= 3)'
               /\ NobodyDropped' /\ screen' \in Screen
    BY <1>b, <1>s DEF BoardsLong, NobodyDropped
  <1>m. ASSUME UNCHANGED model
        PROVE  (model.loaded => Len(model.week) >= 3 /\ Len(model.month) >= 3)'
               /\ model' \in Model
    BY <1>b, <1>m DEF BoardsLong
  <1>1. CASE Launch
    <2>1. \A own \in BOOLEAN : Loading(own) \in Model /\ ~Loading(own).loaded
      BY DEF Loading, Model
    <2> QED
      BY <1>1, <1>b, <1>s, <2>1 DEF Launch, TypeOK, BoardsLong
  <1>2. CASE Login
    BY <1>2, <1>a, <1>b, <1>s, ReplaceSound DEF Login, TypeOK, BoardsLong
  <1>3. CASE SignOut
    <2>1. NoScreen \in Screen /\ NoScreen.tab = "none"
      BY DEF NoScreen, Screen
    <2> QED
      BY <1>3, <1>b, <1>m, <2>1 DEF SignOut, TypeOK, BoardsLong, NobodyDropped
  <1>4. CASE Kill \/ LoadTraps \/ OpenTabTraps
    <2>1. PICK cause \in {"none", "load", "open"} : Die(cause) /\ UNCHANGED <<today, done>>
      BY <1>4 DEF Kill, LoadTraps, OpenTabTraps
    <2>2. TypeOK'
      BY <1>b, <2>1, DieSound DEF TypeOK
    <2>3. BoardsLong' /\ NobodyDropped'
      BY <2>1, DieSound DEF BoardsLong, NobodyDropped
    <2> QED
      BY <2>2, <2>3
  <1>5. ASSUME NEW users \in SUBSET User, Load(users)
        PROVE  BoardsInv'
    BY <1>5, <1>a, <1>b, <1>s, LoadSound DEF Load, TypeOK, BoardsLong
  <1>6. CASE LoadOrphan
    BY <1>6, <1>b, <1>m, <1>s DEF LoadOrphan, TypeOK, BoardsLong
  <1>7. CASE OpenTab
    <2> DEFINE s == [screen EXCEPT !.tab = "here", !.week = model.week, !.month = model.month]
    <2>1. /\ model.week \in Seq(Row) /\ Len(model.week) >= 3
          /\ model.month \in Seq(Row) /\ Len(model.month) >= 3
      BY <1>7, <1>b DEF OpenTab, BoardsLong, Model
    <2>2. s \in Screen /\ s.tab = "here" /\ s.week = model.week /\ s.month = model.month
      BY <1>b, <2>1 DEF Screen
    <2>3. screen' = Ranked(s, model.week)
      BY <1>7 DEF OpenTab
    <2> HIDE DEF s
    <2>4. /\ screen' \in Screen
          /\ screen'.week = model.week /\ screen'.month = model.month
          /\ screen'.podium \o screen'.persons = model.week
          /\ Len(screen'.podium) = 3
      BY <2>1, <2>2, <2>3, RankedSound
    <2> QED
      BY <1>7, <1>b, <1>m, <2>1, <2>4 DEF OpenTab, TypeOK, BoardsLong, NobodyDropped
  <1>8. CASE LeaveTab
    <2>1. /\ screen' \in Screen
          /\ screen'.week = screen.week /\ screen'.month = screen.month
          /\ screen'.podium = screen.podium /\ screen'.persons = screen.persons
      BY <1>8, <1>b DEF LeaveTab, Screen
    <2>2. screen.tab # "none"
      BY <1>8 DEF LeaveTab
    <2> QED
      BY <1>8, <1>b, <1>m, <2>1, <2>2 DEF LeaveTab, TypeOK, BoardsLong, NobodyDropped
  <1>9. CASE ChangeView
    <2>1. PICK board \in {screen.week, screen.month} : screen' = Ranked(screen, board)
      BY <1>9 DEF ChangeView
    <2>2. screen.tab = "here"
      BY <1>9 DEF ChangeView
    <2>3. board \in Seq(Row) /\ Len(board) >= 3
      BY <1>b, <2>2 DEF BoardsLong, Screen
    <2>4. /\ screen' \in Screen /\ screen'.tab = "here"
          /\ screen'.week = screen.week /\ screen'.month = screen.month
          /\ screen'.podium \o screen'.persons = board
          /\ Len(screen'.podium) = 3
      BY <1>b, <2>1, <2>2, <2>3, RankedSound
    <2> QED
      BY <1>9, <1>b, <1>m, <2>2, <2>4 DEF ChangeView, TypeOK, BoardsLong, NobodyDropped
  <1>10. CASE Claim
    <2>1. Complete(Me) /\ Replace(TRUE) /\ UNCHANGED <<today, app, screen, trap>>
      BY <1>10 DEF Claim
    <2>2. done' \in [User -> Seq(Done)]
      BY <1>a, <2>1, UserAssumption, CompleteType
    <2> QED
      BY <1>a, <1>b, <1>s, <2>1, <2>2, ReplaceSound DEF TypeOK, BoardsLong
  <1>11. CASE ClaimElsewhere
    <2>1. PICK u \in User \ {Me} : Complete(u)
      BY <1>11 DEF ClaimElsewhere
    <2>2. done' \in [User -> Seq(Done)]
      BY <1>a, <2>1, CompleteType
    <2> QED
      BY <1>11, <1>b, <1>m, <1>s, <2>2 DEF ClaimElsewhere, TypeOK, BoardsLong
  <1>12. CASE NextDay
    BY <1>12, <1>b, <1>m, <1>s DEF NextDay, TypeOK, BoardsLong
  <1>13. CASE UNCHANGED vars
    BY <1>13, <1>b, <1>m, <1>s DEF vars, TypeOK, BoardsLong
  <1> QED
    BY <1>1, <1>2, <1>3, <1>4, <1>5, <1>6, <1>7, <1>8, <1>9, <1>10, <1>11, <1>12, <1>13
       DEF Next

\* The tab and the model only ever hold boards long enough for setRanks, which
\* takes three rows without testing that there are any.
THEOREM BoardsInvariant == Spec => []BoardsInv
  BY BoardsInit, BoardsStep, PTL DEF Spec

\* Documents, model and tab keep their types for every number of users.
THEOREM TypesHold == Spec => []TypeOK
  <1>1. BoardsInv => TypeOK
    BY DEF BoardsInv
  <1> QED
    BY <1>1, BoardsInvariant, PTL

\* Whatever the order of opening, leaving and switching, podium and rows are a
\* whole board of the tab's copies, with three persons on the podium.
THEOREM NobodyIsDropped == Spec => []NobodyDropped
  <1>1. BoardsInv => NobodyDropped
    BY DEF BoardsInv
  <1> QED
    BY <1>1, BoardsInvariant, PTL

\* A loaded model is not filled again, and while it stays the completions of
\* this device's user stay.
LEMMA LoadedKept ==
    ASSUME TypeOK, [Next]_vars, model.loaded, model'.loaded
    PROVE  model' = model /\ done'[Me] = done[Me]
  <1>1. \A own \in BOOLEAN : ~Loading(own).loaded
    BY DEF Loading
  <1>2. CASE Launch \/ Login \/ Claim \/ Kill \/ LoadTraps \/ OpenTabTraps
             \/ \E users \in SUBSET User : Load(users)
    BY <1>1, <1>2 DEF Launch, Login, Claim, Kill, LoadTraps, OpenTabTraps, Replace, Die, Load
  <1>3. CASE ClaimElsewhere
    <2>1. PICK u \in User \ {Me} : Complete(u)
      BY <1>3 DEF ClaimElsewhere
    <2>2. done'[Me] = done[Me]
      BY <2>1, UserAssumption, CompleteType
    <2> QED
      BY <1>3, <2>2 DEF ClaimElsewhere
  <1>4. CASE SignOut \/ LoadOrphan \/ OpenTab \/ LeaveTab \/ ChangeView
             \/ NextDay \/ UNCHANGED vars
    BY <1>4
       DEF SignOut, LoadOrphan, OpenTab, LeaveTab, ChangeView, NextDay, vars
  <1> QED
    BY <1>2, <1>3, <1>4 DEF Next

\* Only an answer makes a loaded model.
LEMMA OnlyLoadLoads ==
    ASSUME TypeOK, [Next]_vars, ~model.loaded, model'.loaded
    PROVE  \E users \in SUBSET User : Load(users)
  <1>1. \A own \in BOOLEAN : ~Loading(own).loaded
    BY DEF Loading
  <1>2. CASE Launch \/ Login \/ Claim \/ Kill \/ LoadTraps \/ OpenTabTraps
    BY <1>1, <1>2 DEF Launch, Login, Claim, Kill, LoadTraps, OpenTabTraps, Replace, Die
  <1>3. CASE UNCHANGED model
    BY <1>3
  <1>4. CASE SignOut \/ LoadOrphan \/ OpenTab \/ LeaveTab \/ ChangeView
             \/ ClaimElsewhere \/ NextDay \/ UNCHANGED vars
    BY <1>3, <1>4
       DEF SignOut, LoadOrphan, OpenTab, LeaveTab, ChangeView, ClaimElsewhere,
           NextDay, vars
  <1> QED
    BY <1>2, <1>4 DEF Next

\* Every rank of a new board is the place of its person's points among all
\* persons of the answer, equals sharing a range: createLeaderboard's indices
\* survive the sort, the podium and the range.
THEOREM RanksAreTrue == Spec => RanksTrue
  <1> DEFINE True == ~model.loaded /\ model'.loaded =>
               /\ \A row \in Range(model'.week) : RankTrue(row, WeekDays)
               /\ \A row \in Range(model'.month) : RankTrue(row, MonthDays)
  <1>1. TypeOK /\ [Next]_vars => True
    <2> SUFFICES ASSUME TypeOK, [Next]_vars, ~model.loaded, model'.loaded
                 PROVE  /\ \A row \in Range(model'.week) : RankTrue(row, WeekDays)
                        /\ \A row \in Range(model'.month) : RankTrue(row, MonthDays)
      OBVIOUS
    <2>1. PICK users \in SUBSET User : Load(users)
      BY OnlyLoadLoads
    <2>2. /\ model'.users = users
          /\ \A i \in DOMAIN model'.week : RowSound(model'.week[i], users, WeekDays)
          /\ \A i \in DOMAIN model'.month : RowSound(model'.month[i], users, MonthDays)
      BY <2>1, LoadSound
    <2>3. \A row, days : RowSound(row, users, days) => RankTrue(row, days)
      BY <2>2 DEF RowSound, RankTrue, Outranking, NotOutranked
    <2> QED
      BY <2>2, <2>3 DEF Range
  <1> HIDE DEF True
  <1>2. TypeOK /\ [Next]_vars => [True]_vars
    BY <1>1
  <1> QED
    BY <1>2, TypesHold, PTL DEF Spec, RanksTrue, True

-----------------------------------------------------------------------------
\* The points an own row shows, as the model counts them: at the time of the
\* answer, of the completions not dated in the future.
OwnRowsCounted ==
    model.loaded /\ model.own =>
        /\ \A i \in RowsOf(model.week, Me) :
             model.week[i].coins = CoinsOf(done[Me], WeekDays, model.day)
        /\ \A i \in RowsOf(model.month, Me) :
             model.month[i].coins = CoinsOf(done[Me], MonthDays, model.day)

\* No completion is dated in the future, nor, while a model is loaded, after it.
DatesPast ==
    /\ \A i \in DOMAIN done[Me] : done[Me][i].date <= today
    /\ model.loaded => \A i \in DOMAIN done[Me] : done[Me][i].date <= model.day

\* Days are natural numbers.
LEMMA DatesAreDays ==
    ASSUME NEW list \in Seq(Done), NEW i \in DOMAIN list
    PROVE  list[i].date \in Nat
  <1>1. list[i] \in Done
    OBVIOUS
  <1> QED
    BY <1>1 DEF Done

\* The day moves forward only, and this device's user completes nothing but by
\* a claim on this device.
LEMMA OwnDatesStep ==
    ASSUME TypeOK, [Next]_vars
    PROVE  /\ today \in Nat /\ today' \in Nat /\ today <= today'
           /\ done'[Me] = done[Me] \/ \A i \in DOMAIN done'[Me] : done'[Me][i].date <= today
  <1>1. CASE Claim
    BY <1>1, UserAssumption, CompleteType DEF Claim, TypeOK
  <1>2. CASE ClaimElsewhere
    <2>1. PICK u \in User \ {Me} : Complete(u)
      BY <1>2 DEF ClaimElsewhere
    <2>2. done'[Me] = done[Me]
      BY <2>1, UserAssumption, CompleteType
    <2> QED
      BY <1>2, <2>2 DEF ClaimElsewhere, TypeOK
  <1>3. CASE NextDay
    BY <1>3 DEF NextDay, TypeOK
  <1>4. CASE Launch \/ Login \/ SignOut \/ Kill \/ LoadOrphan \/ LoadTraps \/ OpenTab
             \/ OpenTabTraps \/ LeaveTab \/ ChangeView \/ UNCHANGED vars
             \/ \E users \in SUBSET User : Load(users)
    <2>1. \A users \in SUBSET User : Load(users) => today' = today /\ done' = done
      BY DEF Load
    <2>2. Launch \/ Login \/ SignOut \/ Kill \/ LoadOrphan \/ LoadTraps
            => today' = today /\ done' = done
      BY DEF Launch, Login, SignOut, Kill, LoadOrphan, LoadTraps
    <2>3. OpenTab \/ OpenTabTraps \/ LeaveTab \/ ChangeView \/ UNCHANGED vars
            => today' = today /\ done' = done
      BY DEF OpenTab, OpenTabTraps, LeaveTab, ChangeView, vars
    <2>4. today' = today /\ done' = done
      BY <1>4, <2>1, <2>2, <2>3
    <2> QED
      BY <2>4 DEF TypeOK
  <1> QED
    BY <1>1, <1>2, <1>3, <1>4 DEF Next

\* Every completion of this device's user was dated when a model is filled, and
\* a claim, the only step that adds one, leaves no loaded model.
LEMMA DatesStep == TypeOK /\ TypeOK' /\ DatesPast /\ [Next]_vars => DatesPast'
  <1> SUFFICES ASSUME TypeOK, TypeOK', DatesPast, [Next]_vars PROVE DatesPast'
    OBVIOUS
  <1>1. /\ \A i \in DOMAIN done[Me] : done[Me][i].date \in Nat
        /\ \A i \in DOMAIN done'[Me] : done'[Me][i].date \in Nat
    <2>1. done[Me] \in Seq(Done) /\ done'[Me] \in Seq(Done)
      BY UserAssumption DEF TypeOK
    <2> QED
      BY <2>1, DatesAreDays
  <1>2. \A i \in DOMAIN done'[Me] : done'[Me][i].date <= today'
    BY <1>1, OwnDatesStep DEF DatesPast
  <1>3. ASSUME model'.loaded
        PROVE  \A i \in DOMAIN done'[Me] : done'[Me][i].date <= model'.day
    <2>1. CASE model.loaded
      BY <1>3, <2>1, LoadedKept DEF DatesPast
    <2>2. CASE ~model.loaded
      <3>1. PICK users \in SUBSET User : Load(users)
        BY <1>3, <2>2, OnlyLoadLoads
      <3>2. model'.day = today /\ done' = done
        BY <3>1, LoadSound DEF Load
      <3> QED
        BY <3>2 DEF DatesPast
    <2> QED
      BY <2>1, <2>2
  <1> QED
    BY <1>2, <1>3 DEF DatesPast

\* The points of an own row change only with a new model.
LEMMA CountedStep == TypeOK /\ OwnRowsCounted /\ [Next]_vars => OwnRowsCounted'
  <1> SUFFICES ASSUME TypeOK, OwnRowsCounted, [Next]_vars, model'.loaded, model'.own
               PROVE  /\ \A i \in RowsOf(model'.week, Me) :
                           model'.week[i].coins = CoinsOf(done'[Me], WeekDays, model'.day)
                      /\ \A i \in RowsOf(model'.month, Me) :
                           model'.month[i].coins = CoinsOf(done'[Me], MonthDays, model'.day)
    BY DEF OwnRowsCounted, RowsOf
  <1>1. CASE ~model.loaded
    <2>1. PICK users \in SUBSET User : Load(users)
      BY <1>1, OnlyLoadLoads
    <2>2. /\ \A i \in DOMAIN model'.week : RowSound(model'.week[i], users, WeekDays)
          /\ \A i \in DOMAIN model'.month : RowSound(model'.month[i], users, MonthDays)
          /\ model'.day = today
      BY <2>1, LoadSound
    <2>3. done' = done
      BY <2>1 DEF Load
    <2> QED
      BY <2>2, <2>3 DEF RowSound, Coins, RowsOf
  <1>2. CASE model.loaded
    <2>1. model' = model /\ done'[Me] = done[Me]
      BY <1>2, LoadedKept
    <2> QED
      BY <1>2, <2>1 DEF OwnRowsCounted
  <1> QED
    BY <1>1, <1>2

\* With no completion dated after the model, Within has one side only.
LEMMA PointsAreCoins ==
    ASSUME TypeOK, DatesPast, model.loaded, NEW days
    PROVE  CoinsOf(done[Me], days, model.day) = OwnPoints(days)
  <1> DEFINE S == {i \in DOMAIN done[Me] : Within(done[Me][i].date, days, model.day)}
             R == {k \in DOMAIN done[Me] : model.day - done[Me][k].date <= days}
             sum(T) == (CHOOSE g : IsSum(g, T, done[Me]))[T]
  <1>1. CoinsOf(done[Me], days, model.day) = sum(S)
    BY DEF CoinsOf, MapThenSumSet, MapThenFoldSet, SumStep, IsSum
  <1>2. OwnPoints(days) = sum(R)
    BY DEF OwnPoints, MapThenSumSet, MapThenFoldSet, SumStep, IsSum
  <1>3. \A i \in DOMAIN done[Me] : done[Me][i].date \in Nat
    <2>1. done[Me] \in Seq(Done)
      BY UserAssumption DEF TypeOK
    <2> QED
      BY <2>1, DatesAreDays
  <1>4. model.day \in Nat
    BY DEF TypeOK, Model
  <1>5. \A i \in DOMAIN done[Me] : 0 <= model.day - done[Me][i].date
    BY <1>3, <1>4 DEF DatesPast
  <1>6. S = R
    BY <1>5 DEF Within
  <1> HIDE DEF S, R, sum
  <1> QED
    BY <1>1, <1>2, <1>6

\* Whatever was claimed on this device, and however late after the end of the
\* challenge, a loaded model gives its user the points of the completions dated
\* in the 7 or 30 days before the answer: its user's completions change only in
\* a claim, which empties the model before anybody can read it, and a claim
\* dates nothing in the future.
THEOREM ClaimsAreCounted == Spec => []ClaimsCounted
  <1>1. Init => DatesPast /\ OwnRowsCounted
    BY UserAssumption DEF Init, DatesPast, OwnRowsCounted, Loading
  <1>2. TypeOK /\ TypeOK' /\ DatesPast /\ OwnRowsCounted /\ [Next]_vars
          => DatesPast' /\ OwnRowsCounted'
    BY DatesStep, CountedStep
  <1>3. TypeOK /\ DatesPast /\ OwnRowsCounted => ClaimsCounted
    BY PointsAreCoins DEF OwnRowsCounted, ClaimsCounted
  <1> QED
    BY <1>1, <1>2, <1>3, TypesHold, PTL DEF Spec
=============================================================================
