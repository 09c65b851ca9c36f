--------------------------- MODULE FirestoreProofs ---------------------------
(***************************************************************************)
(* The write path of the Firestore client for all values of the constants: *)
(* any number of accounts, writes, faults, and any length of the pipeline. *)
(* An inductive invariant in layers gives the safety properties of         *)
(* FirestoreWrites, and that the client implements WriteChannel.           *)
(***************************************************************************)
EXTENDS FirestoreWrites, FiniteSetTheorems, SequenceTheorems, FunctionTheorems, TLAPS

-----------------------------------------------------------------------------
(* The inductive invariant, in layers.                                     *)

Task == [kind: {"write"}, write: Write]
        \cup [kind: {"account"}, account: Account]
        \cup [kind: {"token"}, live: BOOLEAN, ok: BOOLEAN, account: Account]

Asked == [kind: {"hello"}] \cup [kind: {"write"}, id: Nat \ {0}, write: Write]

Reply == [kind: {"hello"}]
         \cup [kind: {"result"}, version: Nat \ {0}, write: Write]
         \cup [kind: {"refusal"}, write: Write]

\* The batches of an account: a finite function from ids.
MutationQueue(q) ==
    /\ DOMAIN q \subseteq Nat \ {0} /\ IsFiniteSet(DOMAIN q)
    /\ q \in [DOMAIN q -> Write]

Types ==
    /\ auth \in Account /\ current \in Account /\ bearer \in Account
    /\ tasks \in Seq(Task)
    /\ batches = [u \in Account |-> batches[u]]
    /\ \A u \in Account : MutationQueue(batches[u])
    /\ nextId \in Nat \ {0}
    /\ callbacks \in [Account -> SUBSET Batch]
    /\ cache \in [Account -> Document]
    /\ pipeline \in Seq(Batch)
    /\ stream \in StreamState
    /\ asked \subseteq {"live", "stale"}
    /\ handshake \in BOOLEAN
    /\ idle \in BOOLEAN
    /\ toServer \in Seq(Asked)
    /\ toClient \in Seq(Reply)
    /\ server \in [Account -> Document]
    /\ snapshot \in Document \cup {NoSnapshot}
    /\ issued \in 0..MaxWrites
    /\ told \in [Write -> {"nothing", "ok", "refused"}]
    /\ applied \subseteq Write
    /\ refused \subseteq Write
    /\ faults \in 0..MaxFaults

\* Ids grow; each callback is of a stored batch.
Persisted ==
    /\ \A u \in Account : \A i \in DOMAIN batches[u] : i < nextId
    /\ \A u \in Account : \A c \in callbacks[u] :
          c.id \in DOMAIN batches[u] /\ batches[u][c.id] = c.write

\* The pipeline holds the first batches of the current account, as many as fit.
FrontOf(q) == SubSeq(q, 1, Min({Len(q), MaxPendingWrites}))
Filled == pipeline = FrontOf(QueueOf(batches[current]))

Streams ==
    /\ pipeline # <<>> => IsStarted(stream)
    /\ idle => handshake /\ pipeline = <<>>
    /\ handshake => stream = "Open"

\* u is the account that a worker at c is switched to before task k of ts.
Follows(ts, c, k, u) ==
    /\ (\A j \in DOMAIN ts : j < k => ts[j].kind # "account") => u = c
    /\ \A j \in DOMAIN ts :
          (/\ j < k /\ ts[j].kind = "account"
           /\ \A i \in DOMAIN ts : j < i /\ i < k => ts[i].kind # "account")
          => u = ts[j].account

\* Each task was queued when its account was logged in.
Queued(ts, c) ==
    \A k \in DOMAIN ts :
        /\ ts[k].kind = "write" => Follows(ts, c, k, ts[k].write.by)
        /\ ts[k].kind = "token" => Follows(ts, c, k, ts[k].account)

Logins == Queued(tasks, current) /\ Follows(tasks, current, Len(tasks) + 1, auth)

\* Answers tc and requests ts are, in order, for the first batches of Q, and a
\* refusal is the last of all.
Talks(tc, ts, Q) ==
    /\ \A k \in DOMAIN tc :
          /\ tc[k].kind # "hello" /\ k <= Len(Q) /\ tc[k].write = Q[k].write
          /\ tc[k].kind = "refusal" => k = Len(tc) /\ ts = <<>>
    /\ \A k \in DOMAIN ts :
          ts[k].kind # "hello" /\ Len(tc) + k <= Len(Q) /\ ts[k].write = Q[Len(tc) + k].write

\* What is on the wire is for the account that opened the stream.
Talking == Talks(toClient, toServer, QueueOf(batches[bearer]))

Greeting ==
    \/ toServer = <<Hello>> /\ toClient = <<>>
    \/ toServer = <<>> /\ toClient = <<Hello>>

Wires ==
    /\ Greeting \/ Talking
    /\ stream = "Open" => bearer = current
    /\ stream = "Open" /\ ~handshake => Greeting
    /\ handshake =>
         /\ Talking
         /\ Len(toClient) + Len(toServer) <= Len(pipeline)
         /\ ~Ended => Len(toClient) + Len(toServer) = Len(pipeline)

\* Writes are numbered in the order of the taps.
Touched(w) == told[w] # "nothing" \/ w \in applied \/ w \in refused
IsQueued(w) == \E i \in DOMAIN batches[w.by] : batches[w.by][i] = w
Tapped(ts) == {ts[k].write : k \in {j \in DOMAIN ts : ts[j].kind = "write"}}
Ordered(ts) ==
    \A j, k \in DOMAIN ts :
        j < k /\ ts[j].kind = "write" /\ ts[k].kind = "write" => ts[j].write.n < ts[k].write.n

\* w is of a later tap than all that was persisted.
Above(w) ==
    /\ w.n <= issued
    /\ \A u \in Account : \A i \in DOMAIN batches[u] : batches[u][i].n < w.n
    /\ \A v \in Write : Touched(v) => v.n < w.n

QueueNumbers ==
    \A u \in Account : \A i \in DOMAIN batches[u] :
        /\ batches[u][i].by = u /\ batches[u][i].n <= issued
        /\ \A j \in DOMAIN batches[u] : i < j => batches[u][i].n < batches[u][j].n

\* A write the server or a callback knows is still to be acknowledged, or is
\* older than every batch.
TouchedNumbers ==
    \A w \in Write : Touched(w) =>
        /\ w.n <= issued
        /\ \/ told[w] = "nothing" /\ w \notin refused /\ IsQueued(w)
           \/ \A i \in DOMAIN batches[w.by] : w.n < batches[w.by][i].n

\* A success is of a write the server applied.
Acknowledged ==
    \A k \in DOMAIN toClient : toClient[k].kind = "result" => toClient[k].write \in applied

Numbers ==
    /\ Ordered(tasks)
    /\ \A w \in Tapped(tasks) : Above(w)
    /\ QueueNumbers
    /\ TouchedNumbers
    /\ Acknowledged

Settled(w) == w \in applied \ refused /\ ~IsQueued(w)

\* d, a document or an answer to a read, is not newer than the one at the server.
Behind(d, u) ==
    /\ d.version <= server[u].version
    /\ d.version = server[u].version => d = server[u]

\* d, if it is as new as an answer in tc, is not of an earlier write.
Ahead(d, tc) ==
    \A k \in DOMAIN tc :
        tc[k].kind = "result" /\ d.version >= tc[k].version => d.n >= tc[k].write.n

\* The successes in tc are in order, and the last is of what the server holds, s.
Results(tc, s) ==
    \A k \in DOMAIN tc : tc[k].kind = "result" =>
        /\ tc[k].version <= s.version
        /\ \A j \in DOMAIN tc : k < j /\ tc[j].kind = "result" => tc[k].version < tc[j].version
        /\ (\A j \in DOMAIN tc : k < j => tc[j].kind # "result") =>
              s = [version |-> tc[k].version, n |-> tc[k].write.n]

\* The copies on the device are not newer than the server's document, and are
\* as new as the answers they follow.
Copies ==
    /\ \A u \in Account : Behind(cache[u], u)
    /\ Behind(snapshot, current)
    /\ Ahead(cache[bearer], toClient)
    /\ bearer = current => Ahead(snapshot, toClient)

\* No copy is older than a settled write.
Seen ==
    \A w \in Write : Settled(w) =>
        /\ w.n <= server[w.by].n
        /\ w.n <= cache[w.by].n
        /\ current = w.by /\ snapshot.version > cache[w.by].version => w.n <= snapshot.n

\* When the queue of an account is empty the cache holds the server's document.
Drained ==
    \A u \in Account :
        \/ DOMAIN batches[u] # {} \/ (\E w \in refused : w.by = u)
        \/ (\A w \in applied : w.by # u) \/ cache[u] = server[u]

Values == Results(toClient, server[bearer]) /\ Copies /\ Seen /\ Drained

-----------------------------------------------------------------------------
(* The batches of a queue in the order of their ids.                       *)

Increasing(s) == \A j, k \in DOMAIN s : j < k => s[j] < s[k]

UpTo(S, i) == {j \in S : j <= i}

\* How many elements are up to the k-th of an increasing sequence.
LEMMA Ranks ==
    ASSUME NEW S \in SUBSET Int, NEW m \in Nat, NEW s \in [1..m -> S], Increasing(s),
           \A i \in S : \E k \in 1..m : s[k] = i
    PROVE  /\ IsFiniteSet(S) /\ Cardinality(S) = m
           /\ \A k \in 1..m : Cardinality(UpTo(S, s[k])) = k
  <1>0. \A k \in 1..m : s[k] \in S /\ s[k] \in Int
    OBVIOUS
  <1>1. \A j, k \in 1..m : /\ s[j] = s[k] => j = k
                          /\ s[j] <= s[k] <=> j <= k
    <2> SUFFICES ASSUME NEW j \in 1..m, NEW k \in 1..m
                 PROVE  (s[j] = s[k] => j = k) /\ (s[j] <= s[k] <=> j <= k)
      OBVIOUS
    <2>1. (j < k => s[j] < s[k]) /\ (k < j => s[k] < s[j])
      BY DEF Increasing
    <2>2. s[j] \in Int /\ s[k] \in Int /\ j \in Int /\ k \in Int
      BY <1>0
    <2> QED
      BY <2>1, <2>2
  <1>2. ASSUME NEW k \in 0..m, NEW T,
               \A i \in T : i \in S /\ \E j \in 1..k : s[j] = i,
               \A j \in 1..k : s[j] \in T
        PROVE  IsFiniteSet(T) /\ Cardinality(T) = k
    <2> DEFINE h == [j \in 1..k |-> s[j]]
    <2>1. h \in [1..k -> T]
      BY <1>2
    <2>2. \A j, l \in 1..k : h[j] = h[l] => j = l
      BY <1>1, <1>2
    <2>3. \A i \in T : \E j \in 1..k : h[j] = i
      BY <1>2
    <2> HIDE DEF h
    <2>4. h \in Bijection(1..k, T)
      BY <2>1, <2>2, <2>3, Fun_IsBij
    <2>5. ExistsBijection(1..k, T)
      BY <2>4 DEF ExistsBijection
    <2>6. IsFiniteSet(1..k) /\ Cardinality(1..k) = k
      BY FS_Interval
    <2> QED
      BY <2>5, <2>6, FS_Bijection
  <1>3. IsFiniteSet(S) /\ Cardinality(S) = m
    <2>1. m \in 0..m /\ \A i \in S : i \in S /\ \E j \in 1..m : s[j] = i
      OBVIOUS
    <2> QED
      BY <1>0, <1>2, <2>1
  <1>4. ASSUME NEW k \in 1..m PROVE Cardinality(UpTo(S, s[k])) = k
    <2> DEFINE T == UpTo(S, s[k])
    <2>1. \A i \in T : i \in S /\ \E j \in 1..k : s[j] = i
      <3> TAKE i \in T
      <3>1. i \in S /\ i <= s[k]
        BY DEF UpTo
      <3>2. PICK j \in 1..m : s[j] = i
        BY <3>1
      <3>3. j <= k
        BY <1>1, <3>1, <3>2
      <3> QED
        BY <3>1, <3>2, <3>3
    <2>2. \A j \in 1..k : s[j] \in T
      BY <1>0, <1>1 DEF UpTo
    <2> HIDE DEF T
    <2>3. Cardinality(T) = k
      BY <1>2, <2>1, <2>2
    <2> QED
      BY <2>3 DEF T
  <1> QED
    BY <1>3, <1>4

\* There is one such sequence at most.
LEMMA OneOrder ==
    ASSUME NEW S \in SUBSET Int, NEW m \in Nat, NEW n \in Nat,
           NEW s \in [1..m -> S], Increasing(s), \A i \in S : \E k \in 1..m : s[k] = i,
           NEW t \in [1..n -> S], Increasing(t), \A i \in S : \E k \in 1..n : t[k] = i
    PROVE  s = t
  <1>1. /\ Cardinality(S) = m /\ Cardinality(S) = n
        /\ \A k \in 1..m : Cardinality(UpTo(S, s[k])) = k
        /\ \A k \in 1..n : Cardinality(UpTo(S, t[k])) = k
    BY Ranks
  <1>2. ASSUME NEW k \in 1..m PROVE s[k] = t[k]
    <2>1. PICK j \in 1..n : t[j] = s[k]
      OBVIOUS
    <2>2. j = k
      BY <1>1, <2>1
    <2> QED
      BY <2>1, <2>2
  <1> QED
    BY <1>1, <1>2

\* A finite set has one.
LEMMA OrderExists ==
    ASSUME NEW S \in SUBSET Int, IsFiniteSet(S)
    PROVE  /\ Cardinality(S) \in Nat
           /\ InOrder(S) \in [1..Cardinality(S) -> S] /\ Increasing(InOrder(S))
           /\ \A i \in S : \E k \in 1..Cardinality(S) : InOrder(S)[k] = i
  <1> DEFINE n == Cardinality(S)
             f == [i \in S |-> Cardinality(UpTo(S, i))]
  <1>0. n \in Nat /\ \A i \in S : i \in Int
    BY FS_CardinalityType
  <1>1. ASSUME NEW i \in S
        PROVE  IsFiniteSet(UpTo(S, i)) /\ f[i] \in 1..n
    <2>1. UpTo(S, i) \in SUBSET S /\ i \in UpTo(S, i)
      BY DEF UpTo
    <2>2. IsFiniteSet(UpTo(S, i)) /\ Cardinality(UpTo(S, i)) <= n
      BY <2>1, FS_Subset
    <2>3. Cardinality(UpTo(S, i)) \in Nat /\ Cardinality(UpTo(S, i)) # 0
      BY <2>1, <2>2, FS_CardinalityType, FS_EmptySet
    <2> QED
      BY <1>0, <2>2, <2>3
  <1>2. ASSUME NEW i \in S, NEW j \in S, i < j PROVE f[i] < f[j]
    <2>0. i \in Int /\ j \in Int /\ \A k \in S : k \in Int
      OBVIOUS
    <2>1. UpTo(S, i) \in SUBSET UpTo(S, j) /\ j \in UpTo(S, j) /\ j \notin UpTo(S, i)
      <3>1. ASSUME NEW k \in UpTo(S, i) PROVE k \in UpTo(S, j)
        <4>1. k \in S /\ k <= i /\ k \in Int
          BY <2>0 DEF UpTo
        <4> QED
          BY <1>2, <2>0, <4>1 DEF UpTo
      <3> QED
        <4>1. j \in UpTo(S, j) /\ j \notin UpTo(S, i)
          BY <1>2, <2>0 DEF UpTo
        <4>2. UpTo(S, i) \subseteq UpTo(S, j)
          BY <3>1
        <4> QED
          BY <4>1, <4>2
    <2>2. IsFiniteSet(UpTo(S, j)) /\ f[i] \in Nat /\ f[j] \in Nat
      BY <1>1
    <2>3. Cardinality(UpTo(S, i)) <= Cardinality(UpTo(S, j)) /\
          (Cardinality(UpTo(S, j)) = Cardinality(UpTo(S, i)) => UpTo(S, j) = UpTo(S, i))
      BY <2>1, <2>2, FS_Subset
    <2> QED
      BY <2>1, <2>2, <2>3
  <1>3. f \in [S -> 1..n]
    BY <1>1
  <1>4. \A i, j \in S : f[i] = f[j] => i = j
    <2> SUFFICES ASSUME NEW i \in S, NEW j \in S, f[i] = f[j], i # j PROVE FALSE
      OBVIOUS
    <2>1. f[i] \in Int /\ f[j] \in Int /\ (i < j \/ j < i)
      BY <1>1
    <2> QED
      BY <1>2, <2>1
  <1> HIDE DEF f
  <1>5. f \in Injection(S, 1..n)
    BY <1>3, <1>4, Fun_IsInj
  <1>6. IsFiniteSet(1..n) /\ Cardinality(1..n) = n
    BY <1>0, FS_Interval
  <1>7. f \in Surjection(S, 1..n)
    BY <1>5, <1>6, FS_Injection
  <1>8. \A k \in 1..n : \E i \in S : f[i] = k
    BY <1>7, Fun_SurjectionProperties
  <1> DEFINE g == [k \in 1..n |-> CHOOSE i \in S : f[i] = k]
  <1>9. \A k \in 1..n : g[k] \in S /\ f[g[k]] = k
    BY <1>8
  <1>10. g \in [1..n -> S]
    BY <1>9
  <1>11. Increasing(g)
    <2> SUFFICES ASSUME NEW j \in 1..n, NEW k \in 1..n, j < k, ~(g[j] < g[k]) PROVE FALSE
      BY DEF Increasing
    <2>1. g[j] \in Int /\ g[k] \in Int /\ g[j] \in S /\ g[k] \in S
      BY <1>9
    <2>2. CASE g[j] = g[k]
      BY <1>9, <2>2
    <2>3. CASE g[k] < g[j]
      BY <1>2, <1>9, <2>1, <2>3
    <2> QED
      BY <2>1, <2>2, <2>3
  <1> HIDE DEF g
  <1>12. InOrder(S) \in [1..n -> S] /\ Increasing(InOrder(S))
    BY <1>10, <1>11 DEF InOrder, Increasing
  <1>13. \A i \in S : \E k \in 1..n : InOrder(S)[k] = i
    <2> DEFINE h == InOrder(S)
    <2> HIDE DEF h
    <2>0. h \in [1..n -> S] /\ \A j, k \in 1..n : j < k => h[j] < h[k]
      BY <1>12 DEF Increasing, h
    <2>1. \A j, k \in 1..n : h[j] = h[k] => j = k
      <3> SUFFICES ASSUME NEW j \in 1..n, NEW k \in 1..n, h[j] = h[k], j # k PROVE FALSE
        OBVIOUS
      <3>1. h[j] \in Int /\ h[k] \in Int /\ j \in Int /\ k \in Int
        <4>1. h[j] \in S /\ h[k] \in S
          BY <2>0
        <4>2. j \in Int /\ k \in Int
          BY <1>0
        <4> QED
          BY <1>0, <4>1, <4>2
      <3> QED
        BY <2>0, <3>1
    <2>2. h \in Injection(1..n, S)
      BY <2>0, <2>1, Fun_IsInj
    <2>3. h \in Surjection(1..n, S)
      BY <1>6, <2>2, FS_Injection
    <2>4. \A i \in S : \E k \in 1..n : h[k] = i
      BY <2>3 DEF Surjection
    <2> QED
      BY <2>4 DEF h
  <1> QED
    BY <1>0, <1>12, <1>13

\* InOrder of a set is its increasing sequence.
LEMMA OrderIs ==
    ASSUME NEW S \in SUBSET Int, NEW m \in Nat, NEW s \in [1..m -> S], Increasing(s),
           \A i \in S : \E k \in 1..m : s[k] = i
    PROVE  IsFiniteSet(S) /\ Cardinality(S) = m /\ InOrder(S) = s
  <1>1. IsFiniteSet(S) /\ Cardinality(S) = m
    BY Ranks
  <1>2. /\ InOrder(S) \in [1..m -> S] /\ Increasing(InOrder(S))
        /\ \A i \in S : \E k \in 1..m : InOrder(S)[k] = i
    BY <1>1, OrderExists
  <1> QED
    BY <1>1, <1>2, OneOrder

-----------------------------------------------------------------------------
(* A mutation queue as a sequence.                                         *)

\* s holds the batches of q by growing ids.
Lists(s, q) ==
    /\ s \in Seq(Batch)
    /\ \A k \in 1..Len(s) : s[k].id \in DOMAIN q /\ s[k].write = q[s[k].id]
    /\ \A j, k \in 1..Len(s) : j < k => s[j].id < s[k].id
    /\ \A i \in DOMAIN q : \E k \in 1..Len(s) : s[k].id = i

\* QueueOf lists the batches of a mutation queue.
LEMMA QueueLists ==
    ASSUME NEW q, MutationQueue(q)
    PROVE  Lists(QueueOf(q), q)
  <1> DEFINE S == DOMAIN q
             n == Cardinality(S)
             o == InOrder(S)
             Q == QueueOf(q)
  <1>1. S \in SUBSET Int /\ S \subseteq Nat \ {0} /\ IsFiniteSet(S) /\ q \in [S -> Write]
    BY DEF MutationQueue
  <1>2. n \in Nat /\ o \in [1..n -> S] /\ Increasing(o) /\ \A i \in S : \E k \in 1..n : o[k] = i
    BY <1>1, OrderExists
  <1>3. Q = [k \in 1..n |-> [id |-> o[k], write |-> q[o[k]]]]
    BY <1>2 DEF QueueOf
  <1>4. \A k \in 1..n : o[k] \in S /\ o[k] \in Nat \ {0} /\ q[o[k]] \in Write
    BY <1>1, <1>2
  <1>5. \A j, k \in 1..n : j < k => o[j] < o[k]
    BY <1>2 DEF Increasing
  <1> HIDE DEF S, n, o, Q
  <1>6. \A k \in 1..n : Q[k] \in Batch /\ Q[k].id = o[k] /\ Q[k].write = q[o[k]]
    BY <1>3, <1>4 DEF Batch
  <1>7. Q \in Seq(Batch) /\ Len(Q) = n
    BY <1>2, <1>3, <1>6
  <1>8. Lists(Q, q)
    <2>1. \A k \in 1..Len(Q) : Q[k].id \in DOMAIN q /\ Q[k].write = q[Q[k].id]
      BY <1>4, <1>6, <1>7 DEF S
    <2>2. \A j, k \in 1..Len(Q) : j < k => Q[j].id < Q[k].id
      BY <1>5, <1>6, <1>7
    <2>3. \A i \in DOMAIN q : \E k \in 1..Len(Q) : Q[k].id = i
      BY <1>2, <1>6, <1>7 DEF S
    <2> QED
      BY <1>7, <2>1, <2>2, <2>3 DEF Lists
  <1> QED
    BY <1>8 DEF Q

\* A sequence that lists them is QueueOf.
LEMMA ListsIs ==
    ASSUME NEW q, MutationQueue(q), NEW s, Lists(s, q)
    PROVE  QueueOf(q) = s
  <1> DEFINE S == DOMAIN q
             n == Len(s)
             o == [k \in 1..n |-> s[k].id]
  <1>1. S \in SUBSET Int /\ n \in Nat /\ s \in Seq(Batch)
    BY DEF MutationQueue, Lists
  <1>2. o \in [1..n -> S]
    BY DEF Lists
  <1>3. Increasing(o)
    BY DEF Lists, Increasing
  <1>4. \A i \in S : \E k \in 1..n : o[k] = i
    BY DEF Lists
  <1>5. InOrder(S) = o
    <2> HIDE DEF o, S, n
    <2> QED
      BY <1>1, <1>2, <1>3, <1>4, OrderIs
  <1>6. QueueOf(q) = [k \in 1..n |-> [id |-> s[k].id, write |-> q[s[k].id]]]
    BY <1>5 DEF QueueOf
  <1>7. \A k \in 1..n : s[k] = [id |-> s[k].id, write |-> q[s[k].id]]
    <2> SUFFICES ASSUME NEW k \in 1..n PROVE s[k] = [id |-> s[k].id, write |-> q[s[k].id]]
      OBVIOUS
    <2>1. s[k] \in Batch /\ s[k].write = q[s[k].id]
      BY <1>1, SMTT(30) DEF Lists
    <2> QED
      BY <2>1 DEF Batch
  <1>8. s = [k \in 1..n |-> s[k]]
    BY <1>1
  <1> QED
    BY <1>6, <1>7, <1>8

\* An empty queue.
LEMMA QueueEmpty ==
    ASSUME NEW q, MutationQueue(q)
    PROVE  /\ q = <<>> <=> DOMAIN q = {}
           /\ q = <<>> <=> QueueOf(q) = <<>>
  <1>1. Lists(QueueOf(q), q)
    BY QueueLists
  <1>2. DOMAIN q = {} => q = <<>>
    <2> SUFFICES ASSUME DOMAIN q = {} PROVE q = <<>>
      OBVIOUS
    <2>1. q \in [{} -> Write]
      BY DEF MutationQueue
    <2>2. q = [i \in {} |-> q[i]]
      BY <2>1
    <2> QED
      BY <2>1
  <1>3. q = <<>> => DOMAIN q = {}
    OBVIOUS
  <1>4. QueueOf(q) = <<>> => DOMAIN q = {}
    BY <1>1 DEF Lists
  <1>5. DOMAIN q = {} => QueueOf(q) = <<>>
    <2> DEFINE Q == QueueOf(q)
    <2> HIDE DEF Q
    <2>1. Q \in Seq(Batch) /\ \A k \in 1..Len(Q) : Q[k].id \in DOMAIN q
      BY <1>1 DEF Lists, Q
    <2>2. DOMAIN q = {} => Len(Q) = 0
      BY <2>1
    <2> QED
      BY <2>1, <2>2 DEF Q
  <1> QED
    BY <1>2, <1>3, <1>4, <1>5

\* A batch with a new, larger id goes to the end.
LEMMA QueueGrows ==
    ASSUME NEW q, MutationQueue(q), NEW id \in Nat \ {0}, \A i \in DOMAIN q : i < id,
           NEW w \in Write
    PROVE  /\ MutationQueue(With(q, id, w))
           /\ QueueOf(With(q, id, w)) = Append(QueueOf(q), [id |-> id, write |-> w])
  <1> DEFINE b == [id |-> id, write |-> w]
             Q == QueueOf(q)
             r == With(q, id, w)
             s == Append(Q, b)
  <1>1. Lists(Q, q)
    BY QueueLists
  <1>2. DOMAIN r = DOMAIN q \cup {id} /\ r[id] = w /\ \A i \in DOMAIN q : r[i] = q[i]
    BY DEF With
  <1>3. q \in [DOMAIN q -> Write] /\ DOMAIN q \subseteq Nat \ {0} /\ IsFiniteSet(DOMAIN q)
    BY DEF MutationQueue
  <1>4. MutationQueue(r)
    <2>1. IsFiniteSet(DOMAIN q \cup {id})
      BY <1>3, FS_AddElement
    <2>2. r \in [DOMAIN q \cup {id} -> Write]
      BY <1>3 DEF With
    <2> QED
      BY <1>2, <1>3, <2>1, <2>2 DEF MutationQueue
  <1>5. Lists(s, r)
    <2> HIDE DEF Q, r
    <2>1. b \in Batch /\ b.id = id /\ b.write = w
      BY DEF Batch
    <2>2. Q \in Seq(Batch)
      BY <1>1 DEF Lists
    <2> HIDE DEF b
    <2>3. s \in Seq(Batch) /\ Len(s) = Len(Q) + 1 /\ s[Len(s)] = b /\ Len(Q) \in Nat
      BY <2>1, <2>2
    <2>4. \A k \in 1..Len(Q) : s[k] = Q[k]
      BY <2>1, <2>2
    <2> HIDE DEF s
    <2>5. \A k \in 1..Len(s) : s[k].id \in DOMAIN r /\ s[k].write = r[s[k].id]
      <3> TAKE k \in 1..Len(s)
      <3>1. CASE k = Len(s)
        BY <1>2, <2>1, <2>3, <3>1
      <3>2. CASE k # Len(s)
        <4>1. k \in 1..Len(Q)
          BY <2>3, <3>2
        <4> QED
          BY <1>1, <1>2, <2>4, <4>1 DEF Lists
      <3> QED
        BY <3>1, <3>2
    <2>6. \A j, k \in 1..Len(s) : j < k => s[j].id < s[k].id
      <3> SUFFICES ASSUME NEW j \in 1..Len(s), NEW k \in 1..Len(s), j < k
                   PROVE  s[j].id < s[k].id
        OBVIOUS
      <3>1. j \in 1..Len(Q)
        BY <2>3
      <3>2. CASE k = Len(s)
        BY <1>1, <2>1, <2>3, <2>4, <3>1, <3>2 DEF Lists
      <3>3. CASE k # Len(s)
        <4>1. k \in 1..Len(Q)
          BY <2>3, <3>3
        <4> QED
          BY <1>1, <2>4, <3>1, <4>1 DEF Lists
      <3> QED
        BY <3>2, <3>3
    <2>7. \A i \in DOMAIN r : \E k \in 1..Len(s) : s[k].id = i
      <3> TAKE i \in DOMAIN r
      <3>1. CASE i = id
        BY <2>1, <2>3, <3>1
      <3>2. CASE i \in DOMAIN q
        <4>1. PICK k \in 1..Len(Q) : Q[k].id = i
          BY <1>1, <3>2 DEF Lists
        <4>2. k \in 1..Len(s)
          BY <2>3
        <4> QED
          BY <2>4, <4>1, <4>2
      <3> QED
        BY <1>2, <3>1, <3>2
    <2> QED
      BY <2>3, <2>5, <2>6, <2>7 DEF Lists
  <1>6. QueueOf(r) = s
    <2> HIDE DEF r, s
    <2> QED
      BY <1>4, <1>5, ListsIs
  <1> QED
    BY <1>4, <1>6

\* The batches from position m + 1 on are those with a larger id than the m-th.
LEMMA QueueAfter ==
    ASSUME NEW q, MutationQueue(q), NEW m \in 0..Len(QueueOf(q)), NEW T,
           T = {QueueOf(q)[k].id : k \in m + 1..Len(QueueOf(q))}
    PROVE  /\ MutationQueue(Restrict(q, T))
           /\ QueueOf(Restrict(q, T)) = SubSeq(QueueOf(q), m + 1, Len(QueueOf(q)))
  <1> DEFINE Q == QueueOf(q)
             r == Restrict(q, T)
             n == Len(Q)
             s == SubSeq(Q, m + 1, n)
  <1>1. Lists(Q, q)
    BY QueueLists
  <1>2. Q \in Seq(Batch) /\ n \in Nat /\ m \in Nat /\ m <= n
    BY <1>1 DEF Lists
  <1>3. T \subseteq DOMAIN q
    <2>1. \A k \in m + 1..n : k \in 1..n
      BY <1>2
    <2> QED
      BY <1>1, <2>1 DEF Lists
  <1>4. DOMAIN r = T /\ \A i \in T : r[i] = q[i]
    BY DEF Restrict
  <1>5. MutationQueue(r)
    <2>1. q \in [DOMAIN q -> Write] /\ DOMAIN q \subseteq Nat \ {0} /\ IsFiniteSet(DOMAIN q)
      BY DEF MutationQueue
    <2>2. IsFiniteSet(T)
      BY <1>3, <2>1, FS_Subset
    <2>3. r \in [T -> Write]
      BY <1>3, <2>1 DEF Restrict
    <2> QED
      BY <1>3, <1>4, <2>1, <2>2, <2>3 DEF MutationQueue
  <1>6. s \in Seq(Batch) /\ Len(s) = n - m
    BY <1>2
  <1>7. \A k \in 1..Len(s) : s[k] = Q[m + k] /\ m + k \in m + 1..n
    BY <1>2
  <1>8. Lists(s, r)
    <2> HIDE DEF s, r, Q
    <2>1. \A k \in 1..Len(s) : s[k].id \in DOMAIN r /\ s[k].write = r[s[k].id]
      <3> TAKE k \in 1..Len(s)
      <3>1. s[k].id \in T
        BY <1>7 DEF Q
      <3>2. m + k \in 1..n
        BY <1>2, <1>6
      <3>3. Q[m + k].write = q[Q[m + k].id]
        BY <1>1, <3>2 DEF Lists
      <3>4. s[k] = Q[m + k]
        BY <1>7
      <3>5. DOMAIN r = T /\ r[s[k].id] = q[s[k].id]
        BY <1>4, <3>1
      <3> QED
        BY <3>1, <3>3, <3>4, <3>5
    <2>2. \A j, k \in 1..Len(s) : j < k => s[j].id < s[k].id
      <3> SUFFICES ASSUME NEW j \in 1..Len(s), NEW k \in 1..Len(s), j < k
                   PROVE  s[j].id < s[k].id
        OBVIOUS
      <3>1. m + j \in 1..n /\ m + k \in 1..n /\ m + j < m + k
        BY <1>2, <1>6
      <3> QED
        BY <1>1, <1>7, <3>1 DEF Lists
    <2>3. \A i \in DOMAIN r : \E k \in 1..Len(s) : s[k].id = i
      <3> TAKE i \in DOMAIN r
      <3>1. PICK l \in m + 1..n : i = Q[l].id
        BY <1>4 DEF Q
      <3>2. l - m \in 1..Len(s) /\ m + (l - m) = l
        BY <1>2, <1>6, <3>1
      <3> QED
        BY <1>7, <3>1, <3>2
    <2> QED
      BY <1>6, <2>1, <2>2, <2>3 DEF Lists
  <1>9. QueueOf(r) = s
    <2> HIDE DEF r, s
    <2> QED
      BY <1>5, <1>8, ListsIs
  <1> QED
    BY <1>5, <1>9

-----------------------------------------------------------------------------
(* The front of a queue.                                                   *)

\* The minimum that bounds the pipeline.
LEMMA MinOfTwo ==
    ASSUME NEW a \in Int, NEW b \in Int
    PROVE  Min({a, b}) = IF a <= b THEN a ELSE b
  <1> DEFINE c == IF a <= b THEN a ELSE b
  <1>1. c \in {a, b} /\ \A y \in {a, b} : c <= y
    OBVIOUS
  <1>2. \A x \in {a, b} : (\A y \in {a, b} : x <= y) => x = c
    OBVIOUS
  <1> HIDE DEF c
  <1>3. Min({a, b}) = c
    BY <1>1, <1>2 DEF Min
  <1> QED
    BY <1>3 DEF c

\* How many of the first n batches the pipeline takes.
Fit(n) == IF n <= MaxPendingWrites THEN n ELSE MaxPendingWrites

\* The front of a queue is as much of it as the pipeline takes.
LEMMA FrontFacts ==
    ASSUME NEW s \in Seq(Batch)
    PROVE  /\ FrontOf(s) \in Seq(Batch)
           /\ Len(FrontOf(s)) = Fit(Len(s)) /\ Fit(Len(s)) \in Nat
           /\ Fit(Len(s)) <= Len(s) /\ Fit(Len(s)) <= MaxPendingWrites
           /\ \A k \in 1..Fit(Len(s)) : FrontOf(s)[k] = s[k]
           /\ FrontOf(s) = SubSeq(s, 1, Fit(Len(s)))
           /\ FrontOf(s) = <<>> <=> s = <<>>
           /\ s # <<>> => Head(FrontOf(s)) = s[1] /\ Head(s) = s[1]
  <1>1. MaxPendingWrites \in Nat \ {0} /\ Len(s) \in Nat
    BY PendingAssumption
  <1>2. Min({Len(s), MaxPendingWrites}) = Fit(Len(s))
    BY <1>1, MinOfTwo DEF Fit
  <1>3. FrontOf(s) = SubSeq(s, 1, Fit(Len(s)))
    BY <1>2 DEF FrontOf
  <1>4. /\ Fit(Len(s)) \in Nat
        /\ Fit(Len(s)) <= Len(s) /\ Fit(Len(s)) <= MaxPendingWrites
        /\ Len(s) # 0 => Fit(Len(s)) # 0
    BY <1>1 DEF Fit
  <1> DEFINE m == Fit(Len(s))
             f == FrontOf(s)
  <1> HIDE DEF m, f
  <1>5. f \in Seq(Batch) /\ Len(f) = m /\ \A k \in 1..m : f[k] = s[k]
    BY <1>1, <1>3, <1>4 DEF m, f
  <1>6. f = <<>> <=> s = <<>>
    <2>1. f = <<>> <=> m = 0
      BY <1>5
    <2>2. s = <<>> <=> Len(s) = 0
      OBVIOUS
    <2>3. m = 0 <=> Len(s) = 0
      BY <1>1, <1>4 DEF m
    <2> QED
      BY <2>1, <2>2, <2>3
  <1>7. s # <<>> => Head(f) = s[1] /\ Head(s) = s[1]
    <2> SUFFICES ASSUME s # <<>> PROVE Head(f) = s[1] /\ Head(s) = s[1]
      OBVIOUS
    <2>1. Len(s) # 0 /\ m # 0 /\ m \in Nat
      BY <1>4 DEF m
    <2>2. f[1] = s[1] /\ f # <<>>
      BY <1>5, <1>6, <2>1
    <2> QED
      BY <1>5, <2>2
  <1> QED
    BY <1>3, <1>4, <1>5, <1>6, <1>7 DEF m, f

\* Without its first batch.
LEMMA QueueShrinks ==
    ASSUME NEW q, MutationQueue(q), QueueOf(q) # <<>>
    PROVE  /\ MutationQueue(Without(q, QueueOf(q)[1].id))
           /\ QueueOf(Without(q, QueueOf(q)[1].id)) = Tail(QueueOf(q))
  <1> DEFINE Q == QueueOf(q)
             n == Len(Q)
             T == {Q[k].id : k \in 1 + 1..n}
  <1>1. Lists(Q, q) /\ Q \in Seq(Batch) /\ n \in Nat \ {0} /\ Q # <<>>
    BY QueueLists DEF Lists
  <1>2. DOMAIN q \ {Q[1].id} = T
    <2> HIDE DEF Q
    <2>1. ASSUME NEW i \in DOMAIN q, i # Q[1].id PROVE i \in T
      <3>1. PICK k \in 1..n : Q[k].id = i
        BY <1>1 DEF Lists
      <3>2. k \in 1 + 1..n
        BY <1>1, <2>1, <3>1
      <3> QED
        BY <3>1, <3>2
    <2>2. ASSUME NEW k \in 1 + 1..n PROVE Q[k].id \in DOMAIN q /\ Q[k].id # Q[1].id
      <3>1. k \in 1..n /\ 1 \in 1..n /\ 1 < k
        BY <1>1
      <3>2. Q[1].id < Q[k].id /\ Q[k].id \in DOMAIN q /\ Q[1].id \in DOMAIN q
        BY <1>1, <3>1 DEF Lists
      <3>3. Q[1].id \in Nat /\ Q[k].id \in Nat
        BY <3>2 DEF MutationQueue
      <3> QED
        BY <3>2, <3>3
    <2> QED
      BY <2>1, <2>2
  <1>3. 1 \in 0..Len(QueueOf(q))
    BY <1>1
  <1>4. MutationQueue(Restrict(q, T)) /\ QueueOf(Restrict(q, T)) = SubSeq(Q, 1 + 1, n)
    BY <1>3, QueueAfter
  <1>5. SubSeq(Q, 1 + 1, n) = Tail(Q)
    <2> HIDE DEF Q
    <2> QED
      BY <1>1
  <1> QED
    BY <1>2, <1>4, <1>5 DEF Without

\* The pipeline filled up, when it holds the first m batches.
LEMMA Refill ==
    ASSUME NEW q, MutationQueue(q), NEW m \in 0..Len(QueueOf(q)), m <= MaxPendingWrites,
           NEW p, p = SubSeq(QueueOf(q), 1, m)
    PROVE  /\ p \o NextBatches(p, q) = FrontOf(QueueOf(q))
           /\ NextBatches(p, q) \in Seq(Batch)
           /\ Len(NextBatches(p, q)) = Fit(Len(QueueOf(q))) - m
           /\ \A k \in 1..Len(NextBatches(p, q)) : NextBatches(p, q)[k] = QueueOf(q)[m + k]
  <1> DEFINE Q == QueueOf(q)
             n == Len(Q)
             T == {Q[k].id : k \in m + 1..n}
             after == {i \in DOMAIN q : p = <<>> \/ i > Last(p).id}
             rest == QueueOf(Restrict(q, after))
             new == NextBatches(p, q)
  <1>1. Lists(Q, q) /\ Q \in Seq(Batch) /\ n \in Nat /\ m \in Nat /\ m <= n
    BY QueueLists DEF Lists
  <1>2. MaxPendingWrites \in Nat \ {0}
    BY PendingAssumption
  <1>3. p \in Seq(Batch) /\ Len(p) = m /\ \A k \in 1..m : p[k] = Q[k]
    BY <1>1
  <1>4. after = T
    <2> HIDE DEF Q
    <2>0. \A i \in DOMAIN q : i \in Nat
      BY DEF MutationQueue
    <2>1. \A k \in 1..n : Q[k].id \in DOMAIN q /\ Q[k].id \in Nat
      BY <1>1, <2>0 DEF Lists
    <2>2. \A j, k \in 1..n : j < k => Q[j].id < Q[k].id
      BY <1>1 DEF Lists
    <2>3. m = 0 => p = <<>>
      BY <1>3
    <2>4. m # 0 => p # <<>> /\ Last(p) = Q[m] /\ m \in 1..n
      BY <1>1, <1>3 DEF Last
    <2>5. ASSUME NEW k \in 1..n PROVE Q[k].id \in after <=> k > m
      <3>1. CASE m = 0
        BY <2>1, <2>3, <3>1
      <3>2. CASE m # 0
        <4>1. Q[k].id \in after <=> Q[k].id > Q[m].id
          BY <2>1, <2>4, <3>2
        <4>2. Q[m].id \in Nat /\ Q[k].id \in Nat
          BY <2>1, <2>4, <3>2
        <4>3. (m < k => Q[m].id < Q[k].id) /\ (k < m => Q[k].id < Q[m].id)
          BY <2>2, <2>4, <3>2
        <4> QED
          <5>1. k < m \/ k = m \/ k > m
            BY <1>1
          <5>2. CASE k = m
            BY <1>1, <4>1, <4>2, <5>2
          <5>3. CASE k < m
            <6>1. ~(Q[k].id > Q[m].id) /\ ~(k > m)
              BY <1>1, <4>2, <4>3, <5>3
            <6> QED
              BY <4>1, <6>1
          <5>4. CASE k > m
            <6>1. Q[k].id > Q[m].id
              BY <1>1, <4>2, <4>3, <5>4
            <6> QED
              BY <4>1, <5>4, <6>1
          <5> QED
            BY <5>1, <5>2, <5>3, <5>4
      <3> QED
        BY <3>1, <3>2
    <2>6. ASSUME NEW i \in after PROVE i \in T
      <3>1. PICK k \in 1..n : Q[k].id = i
        BY <1>1 DEF Lists
      <3>2. k \in m + 1..n
        BY <1>1, <2>5, <3>1
      <3> QED
        BY <3>1, <3>2
    <2>7. ASSUME NEW k \in m + 1..n PROVE Q[k].id \in after
      <3>1. k \in 1..n /\ k > m
        BY <1>1
      <3> QED
        BY <2>5, <3>1
    <2> HIDE DEF after
    <2> QED
      BY <2>6, <2>7
  <1>5. rest = SubSeq(Q, m + 1, n)
    BY <1>4, QueueAfter
  <1>6. rest \in Seq(Batch) /\ Len(rest) = n - m /\ \A k \in 1..n - m : rest[k] = Q[m + k]
    <2> HIDE DEF Q, rest
    <2> QED
      BY <1>1, <1>5
  <1>7. Min({Len(rest), MaxPendingWrites - Len(p)}) = Fit(n) - m
    <2>1. n - m \in Int /\ MaxPendingWrites - m \in Int
      BY <1>1, <1>2
    <2>2. Min({n - m, MaxPendingWrites - m}) = IF n - m <= MaxPendingWrites - m THEN n - m ELSE MaxPendingWrites - m
      BY <2>1, MinOfTwo
    <2> HIDE DEF Q, rest
    <2>3. (IF n - m <= MaxPendingWrites - m THEN n - m ELSE MaxPendingWrites - m) = Fit(n) - m
      BY <1>1, <1>2 DEF Fit
    <2>4. Len(rest) = n - m /\ Len(p) = m
      BY <1>3, <1>6
    <2> QED
      BY <2>2, <2>3, <2>4
  <1>8. new = SubSeq(rest, 1, Fit(n) - m)
    BY <1>7 DEF NextBatches
  <1>9. Fit(n) \in Nat /\ m <= Fit(n) /\ Fit(n) <= n
    BY <1>1, <1>2 DEF Fit
  <1>10. new \in Seq(Batch) /\ Len(new) = Fit(n) - m /\ \A k \in 1..Fit(n) - m : new[k] = Q[m + k]
    <2> HIDE DEF Q, rest, new
    <2> QED
      BY <1>1, <1>6, <1>8, <1>9
  <1>11. p \o new = FrontOf(Q)
    <2> HIDE DEF Q, new
    <2>1. /\ FrontOf(Q) \in Seq(Batch) /\ Len(FrontOf(Q)) = Fit(n)
          /\ \A k \in 1..Fit(n) : FrontOf(Q)[k] = Q[k]
      BY <1>1, FrontFacts
    <2>2. p \o new \in Seq(Batch) /\ Len(p \o new) = Fit(n)
      <3>1. p \o new \in Seq(Batch) /\ Len(p \o new) = Len(p) + Len(new)
        <4>1. p \in Seq(Batch) /\ new \in Seq(Batch)
          BY <1>3, <1>10
        <4> QED
          BY <4>1
      <3> QED
        BY <1>1, <1>3, <1>9, <1>10, <3>1
    <2>3. ASSUME NEW k \in 1..Fit(n) PROVE (p \o new)[k] = Q[k]
      <3>1. CASE k <= m
        BY <1>1, <1>3, <1>10, <3>1
      <3>2. CASE k > m
        <4>1. k - m \in 1..Fit(n) - m /\ m + (k - m) = k
          BY <1>1, <1>9, <3>2
        <4>2. (p \o new)[k] = new[k - m]
          BY <1>1, <1>3, <1>9, <1>10, <3>2
        <4> QED
          BY <1>10, <4>1, <4>2
      <3> QED
        <4>1. k <= m \/ k > m
          BY <1>1, <1>9
        <4> QED
          BY <3>1, <3>2, <4>1
    <2>4. FrontOf(Q) = [k \in 1..Fit(n) |-> FrontOf(Q)[k]]
      BY <2>1
    <2>5. p \o new = [k \in 1..Fit(n) |-> (p \o new)[k]]
      BY <2>2
    <2>6. \A k \in 1..Fit(n) : (p \o new)[k] = FrontOf(Q)[k]
      BY <2>1, <2>3
    <2> QED
      BY <2>4, <2>5, <2>6
  <1> QED
    BY <1>10, <1>11

-----------------------------------------------------------------------------
(* New ids, and what is sent when the pipeline is filled.                  *)

\* The maximum of a finite set, which the next id is computed from.
LEMMA MaxOfFinite ==
    ASSUME NEW S \in SUBSET Int, IsFiniteSet(S), S # {}
    PROVE  Max(S) \in S /\ \A y \in S : Max(S) >= y
  <1> DEFINE n == Cardinality(S)
             o == InOrder(S)
  <1>1. n \in Nat /\ o \in [1..n -> S] /\ Increasing(o) /\ \A i \in S : \E k \in 1..n : o[k] = i
    BY OrderExists
  <1> HIDE DEF o, n
  <1>2. n # 0
    <2>1. PICK i \in S : TRUE
      OBVIOUS
    <2>2. PICK k \in 1..n : o[k] = i
      BY <1>1
    <2> QED
      BY <1>1, <2>2
  <1>3. ASSUME NEW i \in S PROVE o[n] >= i
    <2>1. PICK k \in 1..n : o[k] = i
      BY <1>1
    <2>2. k < n => o[k] < o[n]
      BY <1>1, <1>2 DEF Increasing
    <2>3. o[k] \in S /\ o[n] \in S /\ k \in Int
      BY <1>1, <1>2
    <2>4. o[k] \in Int /\ o[n] \in Int
      BY <2>3
    <2> QED
      BY <1>1, <2>1, <2>2, <2>4
  <1>4. o[n] \in S
    BY <1>1, <1>2
  <1> QED
    BY <1>3, <1>4 DEF Max

\* The ids loaded from LevelDB are new for every account.
LEMMA LoadedIdIsNew ==
    ASSUME NEW bs, \A u \in Account : MutationQueue(bs[u])
    PROVE  /\ LoadNextBatchId(bs) \in Nat \ {0}
           /\ \A u \in Account : \A i \in DOMAIN bs[u] : i < LoadNextBatchId(bs)
  <1> DEFINE D == {DOMAIN bs[u] : u \in Account}
             f == [u \in Account |-> DOMAIN bs[u]]
             S == {0} \cup UNION D
  <1>1. \A u \in Account : DOMAIN bs[u] \subseteq Nat \ {0} /\ IsFiniteSet(DOMAIN bs[u])
    BY DEF MutationQueue
  <1>2. IsFiniteSet(D)
    <2>1. f \in Surjection(Account, D)
      BY DEF Surjection
    <2> QED
      BY <2>1, FS_Surjection, AccountAssumption
  <1>3. IsFiniteSet(UNION D)
    BY <1>1, <1>2, FS_UNION
  <1>4. IsFiniteSet(S)
    <2>1. IsFiniteSet({0})
      BY FS_Singleton
    <2> QED
      BY <1>3, <2>1, FS_Union
  <1>5. S \in SUBSET Nat /\ 0 \in S
    BY <1>1
  <1>6. \A u \in Account : \A i \in DOMAIN bs[u] : i \in S
    OBVIOUS
  <1> HIDE DEF S
  <1>7. Max(S) \in S /\ \A y \in S : Max(S) >= y
    BY <1>4, <1>5, MaxOfFinite
  <1>8. Max(S) \in Nat
    BY <1>5, <1>7
  <1>9. LoadNextBatchId(bs) = 1 + Max(S)
    BY DEF LoadNextBatchId, S
  <1>10. ASSUME NEW u \in Account, NEW i \in DOMAIN bs[u] PROVE i < LoadNextBatchId(bs)
    <2>1. i \in S
      BY <1>6
    <2>2. i \in Nat /\ Max(S) >= i
      BY <1>5, <1>7, <2>1
    <2> QED
      BY <1>8, <1>9, <2>2
  <1> QED
    BY <1>8, <1>9, <1>10

\* Length and elements of a concatenation.
LEMMA Joined ==
    ASSUME NEW X, NEW s \in Seq(X), NEW t \in Seq(X)
    PROVE  /\ s \o t \in Seq(X) /\ Len(s \o t) = Len(s) + Len(t)
           /\ \A k \in 1..Len(s) : (s \o t)[k] = s[k]
           /\ \A k \in 1..Len(t) : (s \o t)[Len(s) + k] = t[k]
  <1>1. s \o t \in Seq(X) /\ Len(s \o t) = Len(s) + Len(t)
    OBVIOUS
  <1>2. \A k \in 1..Len(s) : (s \o t)[k] = s[k]
    OBVIOUS
  <1>3. \A k \in 1..Len(t) : (s \o t)[Len(s) + k] = t[k]
    OBVIOUS
  <1> QED
    BY <1>1, <1>2, <1>3

\* There is one request for each batch sent, in order.
LEMMA RequestsOf ==
    ASSUME NEW s \in Seq(Batch)
    PROVE  /\ Requests(s) \in Seq(Asked) /\ Len(Requests(s)) = Len(s)
           /\ \A k \in 1..Len(s) : Requests(s)[k] = Request(s[k])
  <1>1. \A k \in 1..Len(s) : Request(s[k]) \in Asked
    <2> TAKE k \in 1..Len(s)
    <2>1. s[k] \in Batch
      OBVIOUS
    <2>2. s[k].id \in Nat \ {0} /\ s[k].write \in Write
      BY <2>1 DEF Batch
    <2> QED
      BY <2>2 DEF Request, Asked
  <1>2. Requests(s) = [k \in 1..Len(s) |-> Request(s[k])]
    BY DEF Requests
  <1> QED
    BY <1>1, <1>2

\* FillWritePipeline in stream state s, when the queue becomes Q and the pipeline
\* holds the first m batches of it.
Fills(Q, m, s, tokens) ==
    /\ pipeline' = FrontOf(Q) /\ pipeline' \in Seq(Batch) /\ Len(pipeline') = Fit(Len(Q))
    /\ stream' \in StreamState /\ asked' \in SUBSET {"live", "stale"}
    /\ StartIfNeeded(pipeline', s, tokens)
    /\ handshake' = (s = "Open" /\ handshake)
    /\ handshake' \in BOOLEAN /\ idle' \in BOOLEAN
    /\ idle' => /\ s = "Open"
                /\ pipeline' = <<>> \/ (idle /\ (handshake => Fit(Len(Q)) = m))
    /\ toServer' \in Seq(Asked)
    /\ ~(s = "Open" /\ handshake) \/ Ended => toServer' = toServer
    /\ s = "Open" /\ handshake /\ ~Ended =>
          /\ Len(toServer') = Len(toServer) + (Fit(Len(Q)) - m)
          /\ \A k \in 1..Len(toServer) : toServer'[k] = toServer[k]
          /\ \A k \in 1..Fit(Len(Q)) - m : toServer'[Len(toServer) + k] = Request(Q[m + k])

\* fillWritePipeline and what it sends: the pipeline is the front of the queue again.
LEMMA FillEffect ==
    ASSUME NEW q, MutationQueue(q), NEW m \in 0..Len(QueueOf(q)), m <= MaxPendingWrites,
           NEW p, p = SubSeq(QueueOf(q), 1, m), NEW s \in StreamState,
           NEW tokens \in SUBSET {"live", "stale"}, toServer \in Seq(Asked),
           FillWritePipeline(p, q, s, tokens)
    PROVE  Fills(QueueOf(q), m, s, tokens)
  <1> DEFINE Q == QueueOf(q)
             new == NextBatches(p, q)
             out == IF s = "Open" /\ handshake THEN new ELSE <<>>
             d == Fit(Len(Q)) - m
  <1>1. Q \in Seq(Batch)
    BY QueueLists DEF Lists
  <1>2. /\ p \o new = FrontOf(Q) /\ new \in Seq(Batch) /\ Len(new) = d
        /\ \A k \in 1..Len(new) : new[k] = Q[m + k]
    BY Refill
  <1>3. FrontOf(Q) \in Seq(Batch) /\ Len(FrontOf(Q)) = Fit(Len(Q)) /\ Fit(Len(Q)) \in Nat
    BY <1>1, FrontFacts
  <1>4. /\ pipeline' = p \o new
        /\ Send(Requests(out))
        /\ idle' = (s = "Open" /\ (p \o new = <<>> \/ (idle /\ out = <<>>)))
        /\ handshake' = (s = "Open" /\ handshake)
        /\ StartIfNeeded(p \o new, s, tokens)
    BY DEF FillWritePipeline
  <1> HIDE DEF Q, new
  <1>5. stream' \in StreamState /\ asked' \in SUBSET {"live", "stale"}
    BY <1>4 DEF StartIfNeeded, StreamState
  <1>6. handshake' \in BOOLEAN /\ idle' \in BOOLEAN
    BY <1>4
  <1>7. out \in Seq(Batch) /\ Len(new) \in Nat
    BY <1>2
  <1>8. Requests(out) \in Seq(Asked) /\ Len(Requests(out)) = Len(out)
        /\ \A k \in 1..Len(out) : Requests(out)[k] = Request(out[k])
    BY <1>7, RequestsOf
  <1> DEFINE R == Requests(out)
  <1>9. toServer' = IF Ended THEN toServer ELSE toServer \o R
    BY <1>4 DEF Send
  <1>10. toServer' \in Seq(Asked)
    <2>1. toServer \o R \in Seq(Asked)
      BY <1>8
    <2> QED
      BY <1>9, <2>1
  <1>11. ~(s = "Open" /\ handshake) \/ Ended => toServer' = toServer
    <2>1. CASE ~(s = "Open" /\ handshake)
      <3>1. out = <<>>
        BY <2>1
      <3>2. R \in Seq(Asked) /\ Len(R) = 0
        BY <1>8, <3>1
      <3> HIDE DEF R
      <3>3. toServer \o R = toServer
        BY <3>2
      <3> QED
        BY <1>9, <3>3
    <2>2. CASE Ended
      BY <1>9, <2>2
    <2> QED
      BY <2>1, <2>2
  <1>12. ASSUME s = "Open", handshake, ~Ended
         PROVE  /\ Len(toServer') = Len(toServer) + d
                /\ \A k \in 1..Len(toServer) : toServer'[k] = toServer[k]
                /\ \A k \in 1..d : toServer'[Len(toServer) + k] = Request(Q[m + k])
    <2>1. out = new
      BY <1>12
    <2>2. R \in Seq(Asked) /\ Len(R) = d /\ \A k \in 1..d : R[k] = Request(Q[m + k])
      BY <1>2, <1>8, <2>1
    <2>3. toServer' = toServer \o R
      BY <1>9, <1>12
    <2> HIDE DEF R, d
    <2>4. d \in Nat
      BY <1>2, <1>7
    <2>5. toServer \in Seq(Asked) /\ R \in Seq(Asked) /\ Len(toServer) \in Nat
      BY <2>2
    <2>6. /\ Len(toServer \o R) = Len(toServer) + Len(R)
          /\ \A k \in 1..Len(toServer) : (toServer \o R)[k] = toServer[k]
          /\ \A k \in 1..Len(R) : (toServer \o R)[Len(toServer) + k] = R[k]
      BY <2>5, Joined
    <2> QED
      BY <2>2, <2>3, <2>4, <2>6
  <1>13. idle' => /\ s = "Open"
                  /\ pipeline' = <<>> \/ (idle /\ (handshake => Fit(Len(Q)) = m))
    <2>0. idle' => s = "Open"
      BY <1>4
    <2> SUFFICES ASSUME idle', pipeline' # <<>>
                 PROVE  idle /\ (handshake => Fit(Len(Q)) = m)
      BY <2>0
    <2>1. s = "Open" /\ idle /\ out = <<>>
      BY <1>4
    <2>2. handshake => Len(new) = 0
      BY <2>1
    <2>3. handshake => Fit(Len(Q)) = m
      BY <1>2, <1>3, <2>2
    <2> QED
      BY <2>1, <2>3
  <1>14. StartIfNeeded(pipeline', s, tokens)
    BY <1>4
  <1>15. pipeline' = FrontOf(Q) /\ pipeline' \in Seq(Batch) /\ Len(pipeline') = Fit(Len(Q))
    BY <1>2, <1>3, <1>4
  <1> QED
    BY <1>4, <1>5, <1>6, <1>10, <1>11, <1>12, <1>13, <1>14, <1>15 DEF Q, Fills

-----------------------------------------------------------------------------
(* Types, queues, callbacks and pipeline.                                  *)

Base == Types /\ Persisted /\ Filled /\ Streams /\ Wires

\* A new account has no batches.
LEMMA EmptyQueue == MutationQueue(<<>>) /\ QueueOf(<<>>) = <<>>
  <1>1. DOMAIN <<>> = {}
    OBVIOUS
  <1>2. <<>> \in [{} -> Write]
    OBVIOUS
  <1>3. IsFiniteSet({})
    BY FS_EmptySet
  <1>4. MutationQueue(<<>>)
    BY <1>1, <1>2, <1>3 DEF MutationQueue
  <1> QED
    BY <1>4, QueueEmpty

\* The first layers of the invariant hold when the app starts.
LEMMA InitBase == Init => Base
  <1> SUFFICES ASSUME Init PROVE Base
    OBVIOUS
  <1>1. \A u \in Account : batches[u] = <<>>
    BY DEF Init
  <1>2. Types
    <2>1. \A u \in Account : MutationQueue(batches[u])
      BY <1>1, EmptyQueue
    <2>2. NoDocument \in Document /\ told \in [Write -> {"nothing", "ok", "refused"}]
      BY WriteBoundAssumption DEF Init, NoDocument, Document
    <2>3. issued \in 0..MaxWrites /\ faults \in 0..MaxFaults
      BY WriteBoundAssumption DEF Init
    <2>4. cache \in [Account -> Document] /\ server \in [Account -> Document]
      BY <2>2 DEF Init
    <2>5. /\ auth \in Account /\ current \in Account /\ bearer \in Account
          /\ nextId \in Nat \ {0} /\ stream \in StreamState
      BY DEF Init, StreamState
    <2>8. /\ callbacks \in [Account -> SUBSET Batch] /\ asked \subseteq {"live", "stale"}
          /\ applied \subseteq Write /\ refused \subseteq Write
      BY DEF Init
    <2>9. handshake \in BOOLEAN /\ idle \in BOOLEAN
      BY DEF Init
    <2>10. snapshot \in Document \cup {NoSnapshot}
      BY DEF Init
    <2>7. batches = [u \in Account |-> batches[u]]
      BY DEF Init
    <2>6. /\ tasks \in Seq(Task) /\ pipeline \in Seq(Batch)
          /\ toServer \in Seq(Asked) /\ toClient \in Seq(Reply)
      BY DEF Init
    <2> QED
      BY <2>1, <2>2, <2>3, <2>4, <2>5, <2>6, <2>7, <2>8, <2>9, <2>10 DEF Types
  <1>3. Persisted
    BY <1>1 DEF Init, Persisted
  <1>4. Filled
    <2>1. QueueOf(batches[current]) = <<>>
      BY <1>1, <1>2, EmptyQueue DEF Types
    <2>2. <<>> \in Seq(Batch)
      OBVIOUS
    <2>3. FrontOf(<<>>) = <<>>
      BY <2>2, FrontFacts
    <2> QED
      BY <2>1, <2>3 DEF Init, Filled
  <1>5. Streams
    BY DEF Init, Streams
  <1>6. Wires
    BY DEF Init, Wires, Talking, Talks, Greeting
  <1> QED
    BY <1>2, <1>3, <1>4, <1>5, <1>6 DEF Base

\* The pipeline is the front of the queue.
LEMMA PipelineFacts ==
    ASSUME Base, NEW Q, Q = QueueOf(batches[current])
    PROVE  /\ MutationQueue(batches[current]) /\ Q \in Seq(Batch)
           /\ pipeline = SubSeq(Q, 1, Fit(Len(Q))) /\ Len(pipeline) = Fit(Len(Q))
           /\ \A k \in 1..Fit(Len(Q)) : pipeline[k] = Q[k]
           /\ Fit(Len(Q)) \in 0..Len(Q) /\ Fit(Len(Q)) <= MaxPendingWrites
           /\ pipeline = <<>> <=> Q = <<>>
           /\ pipeline # <<>> => Head(pipeline) = Q[1]
  <1>1. MutationQueue(batches[current])
    BY DEF Base, Types
  <1>2. Q \in Seq(Batch) /\ Len(Q) \in Nat
    BY <1>1, QueueLists DEF Lists
  <1>3. pipeline = FrontOf(Q)
    BY DEF Base, Filled
  <1>4. /\ FrontOf(Q) \in Seq(Batch)
        /\ Len(FrontOf(Q)) = Fit(Len(Q)) /\ Fit(Len(Q)) \in Nat
        /\ Fit(Len(Q)) <= Len(Q) /\ Fit(Len(Q)) <= MaxPendingWrites
        /\ \A k \in 1..Fit(Len(Q)) : FrontOf(Q)[k] = Q[k]
        /\ FrontOf(Q) = SubSeq(Q, 1, Fit(Len(Q)))
        /\ FrontOf(Q) = <<>> <=> Q = <<>>
        /\ Q # <<>> => Head(FrontOf(Q)) = Q[1]
    BY <1>2, FrontFacts
  <1> QED
    BY <1>1, <1>2, <1>3, <1>4

\* An answer to a write is for the first batch of the queue.
LEMMA AnswerFacts ==
    ASSUME Base, stream = "Open", toClient # <<>>, Head(toClient).kind # "hello",
           NEW Q, Q = QueueOf(batches[current])
    PROVE  /\ handshake /\ Talking /\ bearer = current
           /\ pipeline # <<>> /\ Head(pipeline) = Q[1] /\ Q # <<>>
           /\ Head(toClient) = toClient[1] /\ toClient[1].write = Q[1].write
  <1>1. toClient \in Seq(Reply) /\ toServer \in Seq(Asked) /\ handshake \in BOOLEAN
    BY DEF Base, Types
  <1>2. Head(toClient) = toClient[1] /\ 1 \in DOMAIN toClient /\ Len(toClient) \in Nat \ {0} /\ Len(toServer) \in Nat
    BY <1>1
  <1>3. ~Greeting
    <2>1. toClient # <<Hello>>
      BY <1>2 DEF Hello
    <2> QED
      BY <2>1 DEF Greeting
  <1>4. bearer = current /\ handshake
    BY <1>3 DEF Base, Wires
  <1>5. Talking /\ Len(toClient) + Len(toServer) <= Len(pipeline)
    BY <1>4 DEF Base, Wires
  <1>6. pipeline # <<>>
    BY <1>2, <1>5
  <1>7. Head(pipeline) = Q[1] /\ Q # <<>>
    BY <1>6, PipelineFacts
  <1>8. toClient[1].write = Q[1].write
    BY <1>2, <1>4, <1>5 DEF Talking, Talks
  <1> QED
    BY <1>2, <1>4, <1>5, <1>6, <1>7, <1>8

\* Closing the stream leaves all tasks in place, with stale tokens.
LEMMA ForgetFacts ==
    ASSUME NEW ts \in Seq(Task)
    PROVE  /\ Forget(ts) \in Seq(Task) /\ Len(Forget(ts)) = Len(ts)
           /\ \A k \in 1..Len(ts) :
                 /\ Forget(ts)[k].kind = ts[k].kind
                 /\ ts[k].kind # "token" => Forget(ts)[k] = ts[k]
                 /\ ts[k].kind = "token" => /\ Forget(ts)[k].account = ts[k].account
                                           /\ Forget(ts)[k].live = FALSE
  <1> DEFINE f(k) == IF ts[k].kind = "token" THEN [ts[k] EXCEPT !.live = FALSE] ELSE ts[k]
  <1>1. ASSUME NEW k \in 1..Len(ts)
        PROVE  /\ f(k) \in Task /\ f(k).kind = ts[k].kind
               /\ ts[k].kind # "token" => f(k) = ts[k]
               /\ ts[k].kind = "token" => f(k).account = ts[k].account /\ f(k).live = FALSE
    <2>1. ts[k] \in Task
      OBVIOUS
    <2>2. CASE ts[k].kind = "token"
      <3>1. ts[k] \in [kind: {"token"}, live: BOOLEAN, ok: BOOLEAN, account: Account]
        BY <2>1, <2>2 DEF Task
      <3> QED
        BY <2>2, <3>1 DEF Task
    <2>3. CASE ts[k].kind # "token"
      BY <2>1, <2>3
    <2> QED
      BY <2>2, <2>3
  <1>2. Forget(ts) = [k \in 1..Len(ts) |-> f(k)]
    BY DEF Forget
  <1>3. Len(ts) \in Nat
    OBVIOUS
  <1> HIDE DEF f
  <1>4. Forget(ts) \in Seq(Task) /\ Len(Forget(ts)) = Len(ts)
    <2>1. Forget(ts) \in [1..Len(ts) -> Task]
      BY <1>1, <1>2
    <2> HIDE DEF Task
    <2> QED
      BY <1>3, <2>1
  <1>5. \A k \in 1..Len(ts) : Forget(ts)[k] = f(k)
    BY <1>2
  <1> QED
    BY <1>1, <1>4, <1>5

\* Closing the stream makes the tokens asked for stale.
LEMMA TokensOk == asked \subseteq {"live", "stale"} => StaleTokens \in SUBSET {"live", "stale"}
  BY DEF StaleTokens

\* The worker persists a write behind those of the current account.
LEMMA RunWriteEffect ==
    ASSUME Base, RunWrite, NEW Q, Q = QueueOf(batches[current]),
           NEW b, b = [id |-> nextId, write |-> Head(tasks).write]
    PROVE  /\ b \in Batch /\ tasks[1].kind = "write" /\ b.write = tasks[1].write
           /\ current' = current
           /\ batches' = [batches EXCEPT ![current] = With(batches[current], nextId, b.write)]
           /\ MutationQueue(batches'[current]) /\ QueueOf(batches'[current]) = Append(Q, b)
           /\ \A u \in Account : u # current => batches'[u] = batches[u]
           /\ Fills(Append(Q, b), Fit(Len(Q)), stream, asked)
  <1> DEFINE w == Head(tasks).write
             q == With(batches[current], nextId, w)
  <1>1. /\ tasks # <<>> /\ Head(tasks).kind = "write" /\ current' = current
        /\ batches' = [batches EXCEPT ![current] = q]
        /\ FillWritePipeline(pipeline, q, stream, asked)
    BY DEF RunWrite
  <1>2. /\ tasks \in Seq(Task) /\ nextId \in Nat \ {0} /\ current \in Account
        /\ stream \in StreamState /\ asked \in SUBSET {"live", "stale"} /\ toServer \in Seq(Asked)
        /\ batches = [u \in Account |-> batches[u]]
    BY DEF Base, Types
  <1>3. w \in Write /\ Head(tasks) = tasks[1]
    <2>1. Head(tasks) \in Task /\ Head(tasks) = tasks[1]
      BY <1>1, <1>2
    <2> QED
      BY <1>1, <2>1 DEF Task
  <1>4. \A i \in DOMAIN batches[current] : i < nextId
    BY <1>2 DEF Base, Persisted
  <1>5. /\ MutationQueue(batches[current]) /\ Q \in Seq(Batch)
        /\ pipeline = SubSeq(Q, 1, Fit(Len(Q)))
        /\ Fit(Len(Q)) \in 0..Len(Q) /\ Fit(Len(Q)) <= MaxPendingWrites
    BY PipelineFacts
  <1> HIDE DEF w
  <1>6. MutationQueue(q) /\ QueueOf(q) = Append(Q, [id |-> nextId, write |-> w])
    BY <1>2, <1>3, <1>4, <1>5, QueueGrows
  <1> HIDE DEF q
  <1>7. b \in Batch /\ b.write = w /\ b = [id |-> nextId, write |-> w]
    BY <1>2, <1>3 DEF Batch, w
  <1>8. /\ QueueOf(q) = Append(Q, b) /\ Fit(Len(Q)) \in 0..Len(QueueOf(q))
        /\ pipeline = SubSeq(QueueOf(q), 1, Fit(Len(Q)))
    <2>1. QueueOf(q) = Append(Q, b)
      BY <1>6, <1>7
    <2>2. Fit(Len(Q)) \in Nat /\ Fit(Len(Q)) <= Len(Q) /\ Len(Q) \in Nat
      BY <1>5
    <2>3. Fit(Len(Q)) \in 0..Len(Append(Q, b))
      BY <1>5, <1>7, <2>2
    <2>4. SubSeq(Q, 1, Fit(Len(Q))) = SubSeq(Append(Q, b), 1, Fit(Len(Q)))
      BY <1>5, <1>7, <2>2
    <2> QED
      BY <1>5, <2>1, <2>3, <2>4
  <1>9. Fills(QueueOf(q), Fit(Len(Q)), stream, asked)
    BY <1>1, <1>2, <1>5, <1>6, <1>8, FillEffect
  <1>10. batches'[current] = q /\ \A u \in Account : u # current => batches'[u] = batches[u]
    BY <1>1, <1>2
  <1> QED
    BY <1>1, <1>3, <1>6, <1>7, <1>8, <1>9, <1>10 DEF q, w

\* The first batch of the pipeline leaves it and the queue.
Drops(Q) ==
    /\ current' = current
    /\ batches' = [batches EXCEPT ![current] = Without(@, Q[1].id)]
    /\ MutationQueue(batches'[current]) /\ QueueOf(batches'[current]) = Tail(Q)
    /\ \A u \in Account : u # current => batches'[u] = batches[u]
    /\ DOMAIN batches'[current] = DOMAIN batches[current] \ {Q[1].id}
    /\ \A i \in DOMAIN batches'[current] : batches'[current][i] = batches[current][i]
    /\ Q[1] \in Batch /\ Q[1].id \in DOMAIN batches[current]
    /\ batches[current][Q[1].id] = Q[1].write

\* HandleSuccessfulWrite and HandleWriteError: the first batch goes, the pipeline fills up.
LEMMA DropEffect ==
    ASSUME Base, NEW Q, Q = QueueOf(batches[current]), Q # <<>>,
           NEW s \in StreamState, NEW tokens \in SUBSET {"live", "stale"},
           current' = current,
           batches' = [batches EXCEPT ![current] = Without(@, Q[1].id)],
           FillWritePipeline(Tail(pipeline), Without(batches[current], Q[1].id), s, tokens)
    PROVE  Drops(Q) /\ Fills(Tail(Q), Fit(Len(Q)) - 1, s, tokens)
  <1> DEFINE q == Without(batches[current], Q[1].id)
  <1>1. current \in Account /\ toServer \in Seq(Asked) /\ batches = [u \in Account |-> batches[u]]
    BY DEF Base, Types
  <1>2. /\ MutationQueue(batches[current]) /\ Q \in Seq(Batch)
        /\ pipeline = SubSeq(Q, 1, Fit(Len(Q))) /\ Len(pipeline) = Fit(Len(Q))
        /\ Fit(Len(Q)) \in 0..Len(Q) /\ Fit(Len(Q)) <= MaxPendingWrites
        /\ pipeline # <<>>
    BY PipelineFacts
  <1>3. MutationQueue(q) /\ QueueOf(q) = Tail(Q)
    BY <1>2, QueueShrinks
  <1>4. batches'[current] = q /\ \A u \in Account : u # current => batches'[u] = batches[u]
    BY <1>1
  <1>5. DOMAIN q = DOMAIN batches[current] \ {Q[1].id} /\ \A i \in DOMAIN q : q[i] = batches[current][i]
    BY DEF Without, Restrict
  <1>6. Q[1] \in Batch /\ Q[1].id \in DOMAIN batches[current] /\ batches[current][Q[1].id] = Q[1].write
    <2>1. 1 \in 1..Len(Q)
      BY <1>2
    <2>2. Lists(Q, batches[current])
      BY <1>2, QueueLists
    <2>3. Q[1] \in Batch
      BY <1>2, <2>1
    <2> QED
      BY <2>1, <2>2, <2>3 DEF Lists
  <1>7. /\ Fit(Len(Q)) - 1 \in 0..Len(Tail(Q)) /\ Fit(Len(Q)) - 1 <= MaxPendingWrites
        /\ Tail(pipeline) = SubSeq(Tail(Q), 1, Fit(Len(Q)) - 1)
    <2> DEFINE f == Fit(Len(Q))
    <2> HIDE DEF f
    <2>1. f \in Nat \ {0} /\ f <= Len(Q) /\ Len(Q) \in Nat /\ Len(Tail(Q)) = Len(Q) - 1
      BY <1>2 DEF f
    <2>2. Tail(SubSeq(Q, 1, f)) = SubSeq(Tail(Q), 1, f - 1)
      BY <1>2, <2>1
    <2>3. MaxPendingWrites \in Nat
      BY PendingAssumption
    <2> QED
      BY <1>2, <2>1, <2>2, <2>3, SMTT(30) DEF f
  <1> HIDE DEF q
  <1>8. Fills(QueueOf(q), Fit(Len(Q)) - 1, s, tokens)
    BY <1>1, <1>3, <1>7, FillEffect DEF q
  <1> QED
    BY <1>3, <1>4, <1>5, <1>6, <1>8 DEF Drops

\* What a success does to the queue, the pipeline and the cache.
LEMMA TakeResultEffect ==
    ASSUME Base, TakeResult, NEW Q, Q = QueueOf(batches[current])
    PROVE  /\ Drops(Q) /\ Fills(Tail(Q), Fit(Len(Q)) - 1, stream, asked)
           /\ NotifyUser(Q[1].id, "ok")
           /\ stream = "Open" /\ toClient # <<>> /\ toClient[1].kind = "result"
           /\ toClient[1].write = Q[1].write
           /\ toClient' = Tail(toClient)
           /\ cache' = [cache EXCEPT ![current] =
                  Newer(@, [version |-> toClient[1].version, n |-> Q[1].write.n])]
  <1>1. /\ stream = "Open" /\ toClient # <<>> /\ Head(toClient).kind = "result"
        /\ current' = current /\ toClient' = Tail(toClient)
        /\ NotifyUser(Head(pipeline).id, "ok")
        /\ batches' = [batches EXCEPT ![current] = Without(batches[current], Head(pipeline).id)]
        /\ cache' = [cache EXCEPT ![current] =
                  Newer(@, [version |-> Head(toClient).version, n |-> Head(pipeline).write.n])]
        /\ FillWritePipeline(Tail(pipeline), Without(batches[current], Head(pipeline).id), stream, asked)
    BY DEF TakeResult
  <1>2. /\ Head(pipeline) = Q[1] /\ Q # <<>> /\ Head(toClient) = toClient[1]
        /\ toClient[1].write = Q[1].write
    BY <1>1, AnswerFacts
  <1>3. stream \in StreamState /\ asked \in SUBSET {"live", "stale"}
    BY DEF Base, Types
  <1>4. Drops(Q) /\ Fills(Tail(Q), Fit(Len(Q)) - 1, stream, asked)
    BY <1>1, <1>2, <1>3, DropEffect
  <1> QED
    BY <1>1, <1>2, <1>4

\* What a refusal does to the queue, the pipeline and the stream.
LEMMA TakeRefusalEffect ==
    ASSUME Base, TakeRefusal, NEW Q, Q = QueueOf(batches[current])
    PROVE  /\ Drops(Q) /\ Fills(Tail(Q), Fit(Len(Q)) - 1, "Initial", StaleTokens)
           /\ NotifyUser(Q[1].id, "refused")
           /\ refused' = refused \cup {Q[1].write}
           /\ stream = "Open" /\ toClient # <<>> /\ toClient[1].kind = "refusal"
           /\ toClient' = Tail(toClient)
  <1>1. /\ stream = "Open" /\ toClient # <<>> /\ Head(toClient).kind = "refusal"
        /\ current' = current /\ toClient' = Tail(toClient)
        /\ NotifyUser(Head(pipeline).id, "refused")
        /\ refused' = refused \cup {Head(pipeline).write}
        /\ batches' = [batches EXCEPT ![current] = Without(batches[current], Head(pipeline).id)]
        /\ FillWritePipeline(Tail(pipeline), Without(batches[current], Head(pipeline).id), "Initial", StaleTokens)
    BY DEF TakeRefusal
  <1>2. /\ Head(pipeline) = Q[1] /\ Q # <<>> /\ Head(toClient) = toClient[1]
    BY <1>1, AnswerFacts
  <1>3. "Initial" \in StreamState /\ StaleTokens \in SUBSET {"live", "stale"}
    BY TokensOk DEF Base, Types, StreamState
  <1>4. Drops(Q) /\ Fills(Tail(Q), Fit(Len(Q)) - 1, "Initial", StaleTokens)
    BY <1>1, <1>2, <1>3, DropEffect
  <1> QED
    BY <1>1, <1>2, <1>4

\* The pipeline is filled anew.
LEMMA RestartEffect ==
    ASSUME Base, NEW u \in Account, NEW tokens \in SUBSET {"live", "stale"},
           FillWritePipeline(<<>>, batches[u], "Initial", tokens)
    PROVE  Fills(QueueOf(batches[u]), 0, "Initial", tokens)
  <1>1. MutationQueue(batches[u]) /\ toServer \in Seq(Asked) /\ "Initial" \in StreamState
    BY DEF Base, Types, StreamState
  <1>2. QueueOf(batches[u]) \in Seq(Batch)
    BY <1>1, QueueLists DEF Lists
  <1> DEFINE Q == QueueOf(batches[u])
  <1> HIDE DEF Q
  <1>3. 0 \in 0..Len(Q) /\ 0 <= MaxPendingWrites /\ <<>> = SubSeq(Q, 1, 0)
    BY <1>2, PendingAssumption DEF Q
  <1> QED
    BY <1>1, <1>3, FillEffect DEF Q

\* The part of the client that LevelDB and the worker keep.
Local == Types /\ Persisted /\ Filled

\* Steps that leave batches, ids, callbacks and pipeline alone.
LEMMA LocalAlone ==
    ASSUME Base, current' = current, batches' = batches, nextId' = nextId,
           callbacks' = callbacks, pipeline' = pipeline
    PROVE  Persisted' /\ Filled'
  BY DEF Base, Persisted, Filled

\* NotifyUser calls the callbacks of one batch, and erases them.
LEMMA NotifyEffect ==
    ASSUME Base, NEW id, NEW outcome \in {"ok", "refused"}, NotifyUser(id, outcome)
    PROVE  /\ told' \in [Write -> {"nothing", "ok", "refused"}]
           /\ callbacks' \in [Account -> SUBSET Batch]
           /\ \A u \in Account : \A c \in callbacks'[u] :
                 c \in callbacks[u] /\ (u = current => c.id # id)
           /\ \A w \in Write : told'[w] # told[w] =>
                 told'[w] = outcome /\ \E c \in callbacks[current] : c.id = id /\ c.write = w
  <1> DEFINE called == {c \in callbacks[current] : c.id = id}
  <1>1. /\ told' = [w \in Write |-> IF \E c \in called : c.write = w THEN outcome ELSE told[w]]
        /\ callbacks' = [callbacks EXCEPT ![current] = @ \ called]
    BY DEF NotifyUser
  <1>2. /\ told \in [Write -> {"nothing", "ok", "refused"}]
        /\ callbacks \in [Account -> SUBSET Batch] /\ current \in Account
    BY DEF Base, Types
  <1>3. told' \in [Write -> {"nothing", "ok", "refused"}]
    BY <1>1, <1>2
  <1>4. ASSUME NEW u \in Account
        PROVE  callbacks'[u] = IF u = current THEN callbacks[u] \ called ELSE callbacks[u]
    BY <1>1, <1>2
  <1>5. callbacks' \in [Account -> SUBSET Batch]
    BY <1>1, <1>2
  <1>6. \A u \in Account : \A c \in callbacks'[u] : c \in callbacks[u] /\ (u = current => c.id # id)
    BY <1>4
  <1>7. ASSUME NEW w \in Write, told'[w] # told[w]
        PROVE  told'[w] = outcome /\ \E c \in callbacks[current] : c.id = id /\ c.write = w
    BY <1>1, <1>7
  <1> QED
    BY <1>3, <1>5, <1>6, <1>7

\* After a batch is dropped the callbacks left are of batches left.
LEMMA LocalDrop ==
    ASSUME Base, NEW Q, Drops(Q), NEW outcome \in {"ok", "refused"},
           NotifyUser(Q[1].id, outcome), nextId' = nextId
    PROVE  Persisted' /\ batches' = [u \in Account |-> batches'[u]]
           /\ \A u \in Account : MutationQueue(batches'[u])
  <1>1. batches = [u \in Account |-> batches[u]] /\ \A u \in Account : MutationQueue(batches[u])
    BY DEF Base, Types
  <1>2. /\ MutationQueue(batches'[current]) /\ \A u \in Account : u # current => batches'[u] = batches[u]
        /\ DOMAIN batches'[current] = DOMAIN batches[current] \ {Q[1].id}
        /\ \A i \in DOMAIN batches'[current] : batches'[current][i] = batches[current][i]
    BY DEF Drops
  <1>3. batches' = [u \in Account |-> batches'[u]]
    BY <1>1 DEF Drops
  <1>4. \A u \in Account : MutationQueue(batches'[u])
    <2> TAKE u \in Account
    <2> QED
      BY <1>1, <1>2
  <1>5. \A u \in Account : /\ DOMAIN batches'[u] \subseteq DOMAIN batches[u]
                           /\ \A i \in DOMAIN batches'[u] : batches'[u][i] = batches[u][i]
                           /\ \A i \in DOMAIN batches[u] :
                                 i \in DOMAIN batches'[u] \/ (u = current /\ i = Q[1].id)
    <2> TAKE u \in Account
    <2>1. CASE u = current
      BY <1>2, <2>1
    <2>2. CASE u # current
      BY <1>2, <2>2
    <2> QED
      BY <2>1, <2>2
  <1>6. \A u \in Account : \A i \in DOMAIN batches'[u] : i < nextId'
    BY <1>5 DEF Base, Persisted
  <1>7. ASSUME NEW u \in Account, NEW c \in callbacks'[u]
        PROVE  c.id \in DOMAIN batches'[u] /\ batches'[u][c.id] = c.write
    <2>1. c \in callbacks[u] /\ (u = current => c.id # Q[1].id)
      BY NotifyEffect
    <2>2. c.id \in DOMAIN batches[u] /\ batches[u][c.id] = c.write
      BY <2>1 DEF Base, Persisted
    <2> QED
      BY <1>5, <2>1, <2>2
  <1>8. Persisted'
    BY <1>6, <1>7 DEF Persisted
  <1> QED
    BY <1>3, <1>4, <1>8

\* Running a write preserves the local layers.
LEMMA LocalRunWrite ==
    ASSUME Base, RunWrite
    PROVE  Local'
  <1> DEFINE Q == QueueOf(batches[current])
             b == [id |-> nextId, write |-> Head(tasks).write]
  <1>1. /\ b \in Batch /\ tasks[1].kind = "write" /\ b.write = tasks[1].write
        /\ current' = current
        /\ batches' = [batches EXCEPT ![current] = With(batches[current], nextId, b.write)]
        /\ MutationQueue(batches'[current]) /\ QueueOf(batches'[current]) = Append(Q, b)
        /\ \A u \in Account : u # current => batches'[u] = batches[u]
        /\ Fills(Append(Q, b), Fit(Len(Q)), stream, asked)
    BY RunWriteEffect
  <1> HIDE DEF b, Q
  <1>2. /\ nextId' = nextId + 1 /\ tasks # <<>> /\ tasks' = Tail(tasks)
        /\ callbacks' = [callbacks EXCEPT ![current] = WithCallback(@, nextId, b.write)]
        /\ UNCHANGED <<app, current, cache, bearer, toClient, server, snapshot, applied, history, faults>>
    BY DEF RunWrite, b
  <1>3. Types
    BY DEF Base
  <1>4. current \in Account /\ batches = [u \in Account |-> batches[u]]
        /\ nextId \in Nat \ {0} /\ callbacks \in [Account -> SUBSET Batch]
        /\ \A u \in Account : MutationQueue(batches[u])
    BY <1>3 DEF Types
  <1>5. batches' = [u \in Account |-> batches'[u]] /\ \A u \in Account : MutationQueue(batches'[u])
    <2>1. batches' = [u \in Account |-> batches'[u]]
      BY <1>1, <1>4
    <2>2. ASSUME NEW u \in Account PROVE MutationQueue(batches'[u])
      BY <1>1, <1>4
    <2> QED
      BY <2>1, <2>2
  <1> DEFINE cb == [id |-> nextId, write |-> b.write]
  <1>6. \A u \in Account : callbacks'[u] =
            IF u = current THEN WithCallback(callbacks[u], nextId, b.write) ELSE callbacks[u]
    BY <1>2, <1>4
  <1>7. cb \in Batch
    BY <1>1, <1>4 DEF Batch
  <1>8. \A u \in Account : \A c \in callbacks'[u] : c \in callbacks[u] \/ (u = current /\ c = cb)
    BY <1>6 DEF WithCallback
  <1>9. callbacks' \in [Account -> SUBSET Batch]
    <2>1. callbacks' = [u \in Account |-> callbacks'[u]]
      BY <1>2, <1>4
    <2>2. \A u \in Account : callbacks'[u] \in SUBSET Batch
      BY <1>4, <1>7, <1>8
    <2> QED
      BY <2>1, <2>2
  <1>10. /\ pipeline' \in Seq(Batch) /\ stream' \in StreamState /\ asked' \subseteq {"live", "stale"}
         /\ handshake' \in BOOLEAN /\ idle' \in BOOLEAN /\ toServer' \in Seq(Asked)
    BY <1>1 DEF Fills
  <1>11. tasks' \in Seq(Task)
    BY <1>2, <1>3 DEF Types
  <1>12. Types'
    <2>1. /\ auth' \in Account /\ current' \in Account /\ bearer' \in Account
          /\ nextId' \in Nat \ {0} /\ cache' \in [Account -> Document]
          /\ toClient' \in Seq(Reply) /\ server' \in [Account -> Document]
          /\ snapshot' \in Document \cup {NoSnapshot}
      BY <1>2, <1>3 DEF Types, app
    <2>2. /\ issued' \in 0..MaxWrites /\ faults' \in 0..MaxFaults
          /\ told' \in [Write -> {"nothing", "ok", "refused"}]
          /\ applied' \subseteq Write /\ refused' \subseteq Write
      BY <1>2, <1>3 DEF Types, app, history
    <2> QED
      BY <1>5, <1>9, <1>10, <1>11, <2>1, <2>2 DEF Types
  <1>13. /\ DOMAIN batches'[current] = DOMAIN batches[current] \cup {nextId}
         /\ batches'[current][nextId] = b.write
         /\ \A i \in DOMAIN batches[current] : i # nextId /\ batches'[current][i] = batches[current][i]
    <2>1. batches'[current] = With(batches[current], nextId, b.write)
      BY <1>1, <1>4
    <2>2. \A i \in DOMAIN batches[current] : i < nextId /\ i \in Nat
      BY <1>4 DEF Base, Persisted, MutationQueue
    <2> QED
      BY <1>4, <2>1, <2>2 DEF With
  <1>14. Persisted'
    <2>1. ASSUME NEW u \in Account, NEW i \in DOMAIN batches'[u] PROVE i < nextId'
      <3>1. \A j \in DOMAIN batches[u] : j < nextId /\ j \in Nat
        BY <1>4 DEF Base, Persisted, MutationQueue
      <3>2. i \in DOMAIN batches[u] \/ i = nextId
        BY <1>1, <1>13
      <3> QED
        BY <1>2, <1>4, <3>1, <3>2
    <2>2. ASSUME NEW u \in Account, NEW c \in callbacks'[u]
          PROVE  c.id \in DOMAIN batches'[u] /\ batches'[u][c.id] = c.write
      <3>1. CASE c \in callbacks[u]
        <4>1. c.id \in DOMAIN batches[u] /\ batches[u][c.id] = c.write
          BY <3>1 DEF Base, Persisted
        <4>2. CASE u = current
          BY <1>13, <4>1, <4>2
        <4>3. CASE u # current
          BY <1>1, <4>1, <4>3
        <4> QED
          BY <4>2, <4>3
      <3>2. CASE u = current /\ c = cb
        BY <1>13, <3>2
      <3> QED
        BY <1>8, <3>1, <3>2
    <2> QED
      BY <2>1, <2>2 DEF Persisted
  <1>15. Filled'
    BY <1>1 DEF Filled, Fills
  <1> QED
    BY <1>12, <1>14, <1>15 DEF Local

\* A success preserves the local layers.
LEMMA LocalTakeResult ==
    ASSUME Base, TakeResult
    PROVE  Local'
  <1> DEFINE Q == QueueOf(batches[current])
  <1>1. /\ Drops(Q) /\ Fills(Tail(Q), Fit(Len(Q)) - 1, stream, asked)
        /\ NotifyUser(Q[1].id, "ok")
        /\ toClient # <<>> /\ toClient[1].kind = "result"
        /\ toClient' = Tail(toClient)
        /\ cache' = [cache EXCEPT ![current] =
               Newer(@, [version |-> toClient[1].version, n |-> Q[1].write.n])]
    BY TakeResultEffect
  <1>2. UNCHANGED <<app, tasks, current, nextId, bearer, server, snapshot, applied, refused, faults>>
    BY DEF TakeResult
  <1> HIDE DEF Q
  <1>3. Types
    BY DEF Base
  <1>4. /\ Persisted' /\ batches' = [u \in Account |-> batches'[u]]
        /\ \A u \in Account : MutationQueue(batches'[u])
    BY <1>1, <1>2, LocalDrop
  <1>5. /\ pipeline' \in Seq(Batch) /\ stream' \in StreamState /\ asked' \subseteq {"live", "stale"}
        /\ handshake' \in BOOLEAN /\ idle' \in BOOLEAN /\ toServer' \in Seq(Asked)
    BY <1>1 DEF Fills
  <1>6. /\ told' \in [Write -> {"nothing", "ok", "refused"}]
        /\ callbacks' \in [Account -> SUBSET Batch]
    BY <1>1, NotifyEffect
  <1>7. toClient' \in Seq(Reply)
    BY <1>1, <1>3 DEF Types
  <1>8. cache' \in [Account -> Document]
    <2>1. toClient[1] \in Reply
      BY <1>1, <1>3 DEF Types
    <2>2. toClient[1].version \in Nat
      BY <1>1, <2>1 DEF Reply
    <2>3. Q[1].write.n \in 0..MaxWrites
      BY <1>1 DEF Drops, Batch, Write
    <2>4. [version |-> toClient[1].version, n |-> Q[1].write.n] \in Document
      BY <2>2, <2>3 DEF Document
    <2> QED
      BY <1>1, <1>3, <2>4 DEF Types, Newer
  <1>9. Types'
    <2>1. /\ auth' \in Account /\ current' \in Account /\ bearer' \in Account
          /\ nextId' \in Nat \ {0} /\ tasks' \in Seq(Task)
          /\ server' \in [Account -> Document]
          /\ snapshot' \in Document \cup {NoSnapshot}
      BY <1>2, <1>3 DEF Types, app
    <2>2. /\ issued' \in 0..MaxWrites /\ faults' \in 0..MaxFaults
          /\ applied' \subseteq Write /\ refused' \subseteq Write
      BY <1>2, <1>3 DEF Types, app
    <2> QED
      BY <1>4, <1>5, <1>6, <1>7, <1>8, <2>1, <2>2 DEF Types
  <1>10. Filled'
    BY <1>1 DEF Filled, Fills, Drops
  <1> QED
    BY <1>4, <1>9, <1>10 DEF Local

\* A refusal preserves the local layers.
LEMMA LocalTakeRefusal ==
    ASSUME Base, TakeRefusal
    PROVE  Local'
  <1> DEFINE Q == QueueOf(batches[current])
  <1>1. /\ Drops(Q) /\ Fills(Tail(Q), Fit(Len(Q)) - 1, "Initial", StaleTokens)
        /\ NotifyUser(Q[1].id, "refused")
        /\ refused' = refused \cup {Q[1].write}
        /\ toClient # <<>> /\ toClient' = Tail(toClient)
    BY TakeRefusalEffect
  <1>2. /\ tasks' = Forget(tasks)
        /\ UNCHANGED <<app, current, nextId, cache, bearer, server, snapshot, applied, faults>>
    BY DEF TakeRefusal
  <1> HIDE DEF Q
  <1>3. Types
    BY DEF Base
  <1>4. /\ Persisted' /\ batches' = [u \in Account |-> batches'[u]]
        /\ \A u \in Account : MutationQueue(batches'[u])
    BY <1>1, <1>2, LocalDrop
  <1>5. /\ pipeline' \in Seq(Batch) /\ stream' \in StreamState /\ asked' \subseteq {"live", "stale"}
        /\ handshake' \in BOOLEAN /\ idle' \in BOOLEAN /\ toServer' \in Seq(Asked)
    BY <1>1 DEF Fills
  <1>6. /\ told' \in [Write -> {"nothing", "ok", "refused"}]
        /\ callbacks' \in [Account -> SUBSET Batch]
    BY <1>1, NotifyEffect
  <1>7. toClient' \in Seq(Reply) /\ tasks' \in Seq(Task)
    <2>1. toClient \in Seq(Reply) /\ tasks \in Seq(Task)
      BY <1>3 DEF Types
    <2>2. toClient' \in Seq(Reply)
      BY <1>1, <2>1
    <2>3. Forget(tasks) \in Seq(Task)
      BY <2>1, ForgetFacts
    <2> QED
      BY <1>2, <2>2, <2>3
  <1>8. refused' \subseteq Write
    BY <1>1, <1>3 DEF Types, Drops, Batch
  <1>9. Types'
    <2>1. /\ auth' \in Account /\ current' \in Account /\ bearer' \in Account
          /\ nextId' \in Nat \ {0} /\ cache' \in [Account -> Document]
          /\ server' \in [Account -> Document]
          /\ snapshot' \in Document \cup {NoSnapshot}
      BY <1>2, <1>3 DEF Types, app
    <2>2. /\ issued' \in 0..MaxWrites /\ faults' \in 0..MaxFaults
          /\ applied' \subseteq Write
      BY <1>2, <1>3 DEF Types, app
    <2> QED
      BY <1>4, <1>5, <1>6, <1>7, <1>8, <2>1, <2>2 DEF Types
  <1>10. Filled'
    BY <1>1 DEF Filled, Fills, Drops
  <1> QED
    BY <1>4, <1>9, <1>10 DEF Local

\* Steps that restart the network: the pipeline of account u is filled anew.
LEMMA LocalRestart ==
    ASSUME Base, NEW u \in Account, NEW tokens \in SUBSET {"live", "stale"},
           current' = u, FillWritePipeline(<<>>, batches[u], "Initial", tokens),
           nextId' = nextId \/ nextId' = LoadNextBatchId(batches),
           callbacks' = callbacks \/ callbacks' = [v \in Account |-> {}],
           tasks' \in Seq(Task), faults' \in 0..MaxFaults,
           snapshot' = snapshot \/ snapshot' = NoSnapshot,
           UNCHANGED <<app, batches, cache, bearer, toClient, server, applied, history>>
    PROVE  Local'
  <1>1. Fills(QueueOf(batches[u]), 0, "Initial", tokens)
    BY RestartEffect
  <1>2. Types
    BY DEF Base
  <1>3. /\ nextId' \in Nat \ {0}
        /\ \A v \in Account : \A i \in DOMAIN batches[v] : i < nextId'
    <2>1. CASE nextId' = nextId
      BY <1>2, <2>1 DEF Base, Types, Persisted
    <2>2. CASE nextId' = LoadNextBatchId(batches)
      BY <1>2, <2>2, LoadedIdIsNew DEF Types
    <2> QED
      BY <2>1, <2>2
  <1>4. Persisted'
    BY <1>3 DEF Base, Persisted
  <1>5. Filled'
    BY <1>1 DEF Filled, Fills
  <1>6. /\ pipeline' \in Seq(Batch) /\ stream' \in StreamState /\ asked' \subseteq {"live", "stale"}
        /\ handshake' \in BOOLEAN /\ idle' \in BOOLEAN /\ toServer' \in Seq(Asked)
    BY <1>1 DEF Fills
  <1>7. callbacks' \in [Account -> SUBSET Batch] /\ snapshot' \in Document \cup {NoSnapshot}
    BY <1>2 DEF Types
  <1>8. /\ auth' \in Account /\ bearer' \in Account
        /\ batches' = [v \in Account |-> batches'[v]] /\ \A v \in Account : MutationQueue(batches'[v])
        /\ cache' \in [Account -> Document]
        /\ toClient' \in Seq(Reply) /\ server' \in [Account -> Document]
    BY <1>2 DEF Types, app
  <1>9. /\ issued' \in 0..MaxWrites /\ told' \in [Write -> {"nothing", "ok", "refused"}]
        /\ applied' \subseteq Write /\ refused' \subseteq Write
    BY <1>2 DEF Types, app, history
  <1>10. Types'
    BY <1>3, <1>6, <1>7, <1>8, <1>9 DEF Types
  <1> QED
    BY <1>4, <1>5, <1>10 DEF Local

\* The count of faults stays within its bound.
LEMMA FaultCounts ==
    ASSUME Base, Fault
    PROVE  faults' \in 0..MaxFaults
  BY WriteBoundAssumption DEF Base, Types, Fault

\* A tap preserves the local layers.
LEMMA LocalMakeWrite ==
    ASSUME Base, MakeWrite
    PROVE  Local'
  <1>1. /\ issued < MaxWrites /\ issued' = issued + 1
        /\ tasks' = Append(tasks, [kind |-> "write", write |-> [by |-> auth, n |-> issued + 1]])
        /\ UNCHANGED <<auth, local, remote, wire, history, faults>>
    BY DEF MakeWrite
  <1>2. Types
    BY DEF Base
  <1>3. issued' \in 0..MaxWrites /\ [by |-> auth, n |-> issued + 1] \in Write
    BY <1>1, <1>2, WriteBoundAssumption DEF Types, Write
  <1>4. tasks' \in Seq(Task)
    <2>1. [kind |-> "write", write |-> [by |-> auth, n |-> issued + 1]] \in Task
      BY <1>3 DEF Task
    <2> QED
      BY <1>1, <1>2, <2>1 DEF Types
  <1>5. Types'
    BY <1>1, <1>2, <1>3, <1>4 DEF Types, local, remote, wire, history
  <1> QED
    BY <1>1, <1>5, LocalAlone DEF Local, local, remote

\* A login preserves the local layers.
LEMMA LocalChangeLogin ==
    ASSUME Base, NEW u \in Account, ChangeLogin(u)
    PROVE  Local'
  <1>1. /\ auth' = u /\ tasks' = Append(tasks, [kind |-> "account", account |-> u])
        /\ UNCHANGED <<issued, local, remote, wire, history>> /\ faults' \in 0..MaxFaults
    BY FaultCounts DEF ChangeLogin
  <1>2. Types
    BY DEF Base
  <1>3. tasks' \in Seq(Task)
    <2>1. [kind |-> "account", account |-> u] \in Task
      BY DEF Task
    <2> QED
      BY <1>1, <1>2, <2>1 DEF Types
  <1>4. Types'
    BY <1>1, <1>2, <1>3 DEF Types, local, remote, wire, history
  <1> QED
    BY <1>1, <1>4, LocalAlone DEF Local, local, remote

\* A token preserves the local layers.
LEMMA LocalAnswerToken ==
    ASSUME Base, NEW age \in {"live", "stale"}, NEW ok \in BOOLEAN, AnswerToken(age, ok)
    PROVE  Local'
  <1>1. /\ asked' = asked \ {age}
        /\ tasks' = Append(tasks, [kind |-> "token", live |-> age = "live", ok |-> ok, account |-> auth])
        /\ UNCHANGED <<app, local, pipeline, stream, bearer, handshake, idle, wire, history>>
    BY DEF AnswerToken
  <1>2. Types
    BY DEF Base
  <1>3. faults' \in 0..MaxFaults
    BY <1>2, FaultCounts DEF AnswerToken, Types
  <1>4. tasks' \in Seq(Task)
    <2>1. (age = "live") \in BOOLEAN /\ auth \in Account
      BY <1>2 DEF Types
    <2>2. [kind |-> "token", live |-> age = "live", ok |-> ok, account |-> auth] \in Task
      BY <2>1 DEF Task
    <2> QED
      BY <1>1, <1>2, <2>2 DEF Types
  <1>5. Types'
    BY <1>1, <1>2, <1>3, <1>4 DEF Types, app, local, wire, history
  <1> QED
    BY <1>1, <1>5, LocalAlone DEF Local, local

\* HandleCredentialChange preserves the local layers.
LEMMA LocalRunAccount ==
    ASSUME Base, RunAccount
    PROVE  Local'
  <1>1. /\ tasks # <<>> /\ Head(tasks).kind = "account" /\ current' = Head(tasks).account
        /\ nextId' = nextId \/ nextId' = LoadNextBatchId(batches)
        /\ tasks' = Forget(Tail(tasks))
        /\ FillWritePipeline(<<>>, batches[current'], "Initial", StaleTokens)
        /\ snapshot' = NoSnapshot
        /\ UNCHANGED <<app, batches, callbacks, cache, bearer, toClient, server, applied, history, faults>>
    BY DEF RunAccount, RestartNetwork
  <1>2. Types
    BY DEF Base
  <1>3. tasks \in Seq(Task) /\ faults' \in 0..MaxFaults
    BY <1>1, <1>2 DEF Types
  <1>4. current' \in Account
    <2>1. Head(tasks) \in Task
      BY <1>1, <1>3
    <2> QED
      BY <1>1, <2>1 DEF Task
  <1>5. tasks' \in Seq(Task)
    <2>1. Tail(tasks) \in Seq(Task)
      BY <1>1, <1>3
    <2> QED
      BY <1>1, <2>1, ForgetFacts
  <1>6. StaleTokens \in SUBSET {"live", "stale"}
    BY TokensOk DEF Base, Types
  <1> QED
    BY <1>1, <1>3, <1>4, <1>5, <1>6, LocalRestart

\* A change of the network preserves the local layers.
LEMMA LocalChangeNetwork ==
    ASSUME Base, ChangeNetwork
    PROVE  Local'
  <1>1. /\ tasks' = Forget(tasks)
        /\ FillWritePipeline(<<>>, batches[current], "Initial", StaleTokens)
        /\ UNCHANGED <<app, local, bearer, toClient, server, snapshot, applied, history>>
    BY DEF ChangeNetwork, RestartNetwork
  <1>2. Types
    BY DEF Base
  <1>3. tasks' \in Seq(Task) /\ current \in Account
    BY <1>1, <1>2, ForgetFacts DEF Types
  <1>4. faults' \in 0..MaxFaults
    BY FaultCounts DEF ChangeNetwork
  <1>5. StaleTokens \in SUBSET {"live", "stale"}
    BY TokensOk DEF Base, Types
  <1> QED
    BY <1>1, <1>3, <1>4, <1>5, LocalRestart DEF local

\* A relaunch preserves the local layers.
LEMMA LocalRelaunch ==
    ASSUME Base, Relaunch
    PROVE  Local'
  <1>1. /\ current' = auth /\ nextId' = LoadNextBatchId(batches)
        /\ callbacks' = [u \in Account |-> {}] /\ snapshot' = NoSnapshot /\ tasks' = <<>>
        /\ FillWritePipeline(<<>>, batches[auth], "Initial", {})
        /\ UNCHANGED <<app, batches, cache, bearer, toClient, server, applied, history>>
    BY DEF Relaunch
  <1>2. tasks' \in Seq(Task) /\ auth \in Account
    BY <1>1 DEF Base, Types
  <1>3. faults' \in 0..MaxFaults
    BY FaultCounts DEF Relaunch
  <1> QED
    BY <1>1, <1>2, <1>3, LocalRestart

\* A stream closed on an error backs off, if there is something to send.
LEMMA CloseEffect ==
    ASSUME Base, NEW ts \in Seq(Task), CloseOnError(ts)
    PROVE  /\ tasks' = Forget(ts) /\ tasks' \in Seq(Task)
           /\ stream' = (IF pipeline = <<>> THEN "Error" ELSE "Backoff")
           /\ asked' = StaleTokens /\ asked' \subseteq {"live", "stale"}
           /\ handshake' = FALSE /\ idle' = FALSE
           /\ pipeline' = pipeline /\ toServer' = toServer
  <1>1. tasks' \in Seq(Task) /\ tasks' = Forget(ts)
    BY ForgetFacts DEF CloseOnError
  <1>2. StaleTokens \in SUBSET {"live", "stale"}
    BY TokensOk DEF Base, Types
  <1>3. /\ stream' = (IF pipeline = <<>> THEN "Error" ELSE "Backoff")
        /\ asked' = StaleTokens
    BY DEF CloseOnError, StartIfNeeded, IsStarted
  <1> QED
    BY <1>1, <1>2, <1>3 DEF CloseOnError

\* A token that is run preserves the local layers.
LEMMA LocalRunToken ==
    ASSUME Base, RunToken
    PROVE  Local'
  <1>1. tasks # <<>> /\ UNCHANGED <<app, local, server, snapshot, applied, history, faults>>
    BY DEF RunToken
  <1>2. Types
    BY DEF Base
  <1>3. tasks \in Seq(Task) /\ Tail(tasks) \in Seq(Task) /\ Head(tasks) \in Task
    BY <1>1, <1>2 DEF Types
  <1>4. Head(tasks).kind = "token" /\ Head(tasks).account \in Account
    BY <1>3 DEF RunToken, Task
  <1>5. /\ tasks' \in Seq(Task) /\ bearer' \in Account /\ stream' \in StreamState
        /\ asked' \subseteq {"live", "stale"} /\ handshake' \in BOOLEAN /\ idle' \in BOOLEAN
        /\ toServer' \in Seq(Asked) /\ toClient' \in Seq(Reply) /\ pipeline' = pipeline
    <2>1. CASE ~Head(tasks).live
      <3>1. tasks' = Tail(tasks) /\ UNCHANGED <<remote, toServer, toClient>>
        BY <2>1 DEF RunToken
      <3> QED
        BY <1>2, <1>3, <3>1 DEF Types, remote
    <2>2. CASE Head(tasks).live /\ Head(tasks).ok
      <3>1. /\ stream' = "Open" /\ bearer' = Head(tasks).account
            /\ toServer' = <<Hello>> /\ toClient' = <<>> /\ tasks' = Tail(tasks)
            /\ UNCHANGED <<pipeline, asked, handshake, idle>>
        BY <2>2 DEF RunToken
      <3>2. Hello \in Asked
        BY DEF Hello, Asked
      <3>3. toServer' \in Seq(Asked) /\ toClient' \in Seq(Reply)
        BY <3>1, <3>2
      <3> QED
        BY <1>2, <1>3, <1>4, <3>1, <3>3 DEF Types, StreamState
    <2>3. CASE Head(tasks).live /\ ~Head(tasks).ok
      <3>1. CloseOnError(Tail(tasks)) /\ UNCHANGED <<bearer, toClient>>
        BY <2>3 DEF RunToken
      <3>2. /\ tasks' \in Seq(Task) /\ stream' = (IF pipeline = <<>> THEN "Error" ELSE "Backoff")
            /\ asked' \subseteq {"live", "stale"} /\ handshake' = FALSE /\ idle' = FALSE
            /\ pipeline' = pipeline /\ toServer' = toServer
        BY <1>3, <3>1, CloseEffect
      <3>3. handshake' \in BOOLEAN /\ idle' \in BOOLEAN
        BY <3>2
      <3> QED
        BY <1>2, <3>1, <3>2, <3>3 DEF Types, StreamState
    <2> QED
      BY <2>1, <2>2, <2>3
  <1>6. Types'
    <2>1. /\ auth' \in Account /\ current' \in Account
          /\ batches' = [u \in Account |-> batches'[u]] /\ \A u \in Account : MutationQueue(batches'[u])
          /\ nextId' \in Nat \ {0} /\ callbacks' \in [Account -> SUBSET Batch]
          /\ cache' \in [Account -> Document]
          /\ server' \in [Account -> Document] /\ snapshot' \in Document \cup {NoSnapshot}
      BY <1>1, <1>2 DEF Types, app, local
    <2>2. /\ issued' \in 0..MaxWrites /\ told' \in [Write -> {"nothing", "ok", "refused"}]
          /\ applied' \subseteq Write /\ refused' \subseteq Write /\ faults' \in 0..MaxFaults
      BY <1>1, <1>2 DEF Types, app, history
    <2>3. pipeline' \in Seq(Batch)
      BY <1>2, <1>5 DEF Types
    <2> QED
      BY <1>5, <2>1, <2>2, <2>3 DEF Types
  <1> QED
    BY <1>1, <1>5, <1>6, LocalAlone DEF Local, local

\* The events of the stream preserve the local layers.
LEMMA LocalStream ==
    ASSUME Base, BreakStream \/ EndBackoff \/ StopIdle \/ FinishHandshake
    PROVE  Local'
  <1>1. Types
    BY DEF Base
  <1>2. /\ /\ tasks' \in Seq(Task) /\ stream' \in StreamState
           /\ asked' \subseteq {"live", "stale"} /\ handshake' \in BOOLEAN /\ idle' \in BOOLEAN
           /\ toServer' \in Seq(Asked) /\ toClient' \in Seq(Reply) /\ faults' \in 0..MaxFaults
        /\ UNCHANGED <<app, local, pipeline, bearer, server, snapshot, applied, history>>
    <2>1. CASE BreakStream
      <3>1. /\ CloseOnError(tasks)
            /\ UNCHANGED <<app, local, bearer, toClient, server, snapshot, applied, history>>
        BY <2>1 DEF BreakStream
      <3>2. tasks \in Seq(Task) /\ toServer \in Seq(Asked) /\ toClient \in Seq(Reply)
        BY <1>1 DEF Types
      <3>3. /\ tasks' \in Seq(Task) /\ stream' = (IF pipeline = <<>> THEN "Error" ELSE "Backoff")
            /\ asked' \subseteq {"live", "stale"} /\ handshake' = FALSE /\ idle' = FALSE
            /\ pipeline' = pipeline /\ toServer' = toServer
        BY <3>1, <3>2, CloseEffect
      <3>4. handshake' \in BOOLEAN /\ idle' \in BOOLEAN
        BY <3>3
      <3>5. faults' \in 0..MaxFaults
        BY <2>1, FaultCounts DEF BreakStream
      <3> QED
        BY <3>1, <3>2, <3>3, <3>4, <3>5 DEF StreamState
    <2>2. CASE EndBackoff
      BY <1>1, <2>2 DEF EndBackoff, Types, StreamState, wire
    <2>3. CASE StopIdle
      BY <1>1, <2>3 DEF StopIdle, Types, StreamState, wire
    <2>4. CASE FinishHandshake
      <3>1. /\ handshake' = TRUE /\ toClient # <<>> /\ toClient' = Tail(toClient)
            /\ Send(Requests(pipeline)) /\ idle' = (idle /\ pipeline = <<>>)
            /\ UNCHANGED <<app, tasks, local, pipeline, stream, asked, bearer,
                           server, snapshot, applied, history, faults>>
        BY <2>4 DEF FinishHandshake
      <3>2. toClient' \in Seq(Reply)
        BY <1>1, <3>1 DEF Types
      <3>3. toServer' \in Seq(Asked)
        <4>1. pipeline \in Seq(Batch) /\ toServer \in Seq(Asked)
          BY <1>1 DEF Types
        <4>2. Requests(pipeline) \in Seq(Asked)
          BY <4>1, RequestsOf
        <4>3. toServer \o Requests(pipeline) \in Seq(Asked)
          BY <4>1, <4>2
        <4> QED
          BY <3>1, <4>1, <4>3 DEF Send
      <3>4. handshake' \in BOOLEAN /\ idle' \in BOOLEAN
        BY <3>1
      <3> QED
        BY <1>1, <3>1, <3>2, <3>3, <3>4 DEF Types
    <2> QED
      BY <2>1, <2>2, <2>3, <2>4
  <1>3. /\ auth' \in Account /\ current' \in Account /\ bearer' \in Account
        /\ batches' = [u \in Account |-> batches'[u]] /\ \A u \in Account : MutationQueue(batches'[u])
        /\ nextId' \in Nat \ {0} /\ callbacks' \in [Account -> SUBSET Batch]
        /\ cache' \in [Account -> Document] /\ pipeline' \in Seq(Batch)
        /\ server' \in [Account -> Document] /\ snapshot' \in Document \cup {NoSnapshot}
    BY <1>1, <1>2 DEF Types, app, local
  <1>4. /\ issued' \in 0..MaxWrites /\ told' \in [Write -> {"nothing", "ok", "refused"}]
        /\ applied' \subseteq Write /\ refused' \subseteq Write
    BY <1>1, <1>2 DEF Types, app, history
  <1>5. Types'
    BY <1>2, <1>3, <1>4 DEF Types
  <1> QED
    BY <1>2, <1>5, LocalAlone DEF Local, local

\* Reads preserve the local layers.
LEMMA LocalReads ==
    ASSUME Base, SendSnapshot \/ TakeSnapshot
    PROVE  Local'
  <1>1. Types
    BY DEF Base
  <1>2. /\ cache' \in [Account -> Document] /\ snapshot' \in Document \cup {NoSnapshot}
        /\ UNCHANGED <<app, tasks, current, batches, nextId, callbacks, remote,
                       toServer, toClient, server, applied, history, faults>>
    <2>1. CASE SendSnapshot
      BY <1>1, <2>1 DEF SendSnapshot, Types, local
    <2>2. CASE TakeSnapshot
      <3>1. snapshot \in Document
        BY <1>1, <2>2 DEF TakeSnapshot, Types
      <3>2. \A d \in Document : Newer(d, snapshot) \in Document
        BY <3>1 DEF Newer
      <3> QED
        BY <1>1, <2>2, <3>2 DEF TakeSnapshot, Types
    <2> QED
      BY <2>1, <2>2
  <1>3. /\ auth' \in Account /\ current' \in Account /\ bearer' \in Account /\ tasks' \in Seq(Task)
        /\ batches' = [u \in Account |-> batches'[u]] /\ \A u \in Account : MutationQueue(batches'[u])
        /\ nextId' \in Nat \ {0} /\ callbacks' \in [Account -> SUBSET Batch]
        /\ pipeline' \in Seq(Batch) /\ stream' \in StreamState /\ asked' \subseteq {"live", "stale"}
        /\ toServer' \in Seq(Asked) /\ toClient' \in Seq(Reply)
        /\ server' \in [Account -> Document]
    BY <1>1, <1>2 DEF Types, app, remote
  <1>4. handshake' \in BOOLEAN /\ idle' \in BOOLEAN
    BY <1>1, <1>2 DEF Types, remote
  <1>5. /\ issued' \in 0..MaxWrites /\ told' \in [Write -> {"nothing", "ok", "refused"}]
        /\ applied' \subseteq Write /\ refused' \subseteq Write /\ faults' \in 0..MaxFaults
    BY <1>1, <1>2 DEF Types, app, history
  <1>6. Types'
    BY <1>2, <1>3, <1>4, <1>5 DEF Types
  <1> QED
    BY <1>2, <1>6, LocalAlone DEF Local, remote

\* The server preserves the local layers.
LEMMA LocalServe ==
    ASSUME Base, Serve
    PROVE  Local'
  <1>1. Types
    BY DEF Base
  <1>2. toServer \in Seq(Asked) /\ toClient \in Seq(Reply) /\ server \in [Account -> Document]
    BY <1>1 DEF Types
  <1>3. /\ /\ toServer' \in Seq(Asked) /\ toClient' \in Seq(Reply)
           /\ server' \in [Account -> Document] /\ applied' \subseteq Write /\ faults' \in 0..MaxFaults
        /\ UNCHANGED <<app, tasks, local, remote, snapshot, history>>
    <2>1. CASE AnswerHello
      <3>1. Hello \in Reply
        BY DEF Hello, Reply
      <3> QED
        BY <1>1, <1>2, <2>1, <3>1 DEF AnswerHello, Asks, Types
    <2>2. CASE ApplyRequest
      <3> DEFINE w == Head(toServer).write
                 v == server[w.by].version + 1
                 d == [version |-> v, n |-> w.n]
                 r == [kind |-> "result", version |-> v, write |-> w]
      <3>1. toServer # <<>> /\ Head(toServer).kind = "write"
        BY <2>2 DEF ApplyRequest, Asks
      <3>2. w \in Write
        <4>1. Head(toServer) \in Asked
          BY <1>2, <3>1
        <4> QED
          BY <3>1, <4>1 DEF Asked
      <3>3. w.by \in Account /\ w.n \in 0..MaxWrites /\ v \in Nat \ {0}
        BY <1>2, <3>2, WriteBoundAssumption DEF Write, Document
      <3>4. /\ server' = [server EXCEPT ![w.by] = d] /\ applied' = applied \cup {w}
            /\ toClient' = Append(toClient, r) /\ toServer' = Tail(toServer)
            /\ UNCHANGED <<app, tasks, local, remote, snapshot, history, faults>>
        BY <2>2 DEF ApplyRequest
      <3>5. d \in Document /\ r \in Reply
        BY <3>2, <3>3 DEF Document, Reply
      <3> HIDE DEF d, r, w
      <3>6. toServer' \in Seq(Asked) /\ toClient' \in Seq(Reply)
        BY <1>2, <3>1, <3>4, <3>5
      <3>7. server' \in [Account -> Document]
        BY <1>2, <3>4, <3>5
      <3>8. applied' \subseteq Write /\ faults' \in 0..MaxFaults
        BY <1>1, <3>2, <3>4 DEF Types
      <3> QED
        BY <3>4, <3>6, <3>7, <3>8
    <2>3. CASE RefuseRequest
      <3> DEFINE r == [kind |-> "refusal", write |-> Head(toServer).write]
      <3>1. toServer # <<>> /\ Head(toServer).kind = "write" /\ Fault
        BY <2>3 DEF RefuseRequest, Asks
      <3>2. r \in Reply
        <4>1. Head(toServer) \in Asked
          BY <1>2, <3>1
        <4> QED
          BY <3>1, <4>1 DEF Asked, Reply
      <3>3. /\ toServer' = <<>> /\ toClient' = Append(toClient, r)
            /\ UNCHANGED <<app, tasks, local, remote, server, snapshot, applied, history>>
        BY <2>3 DEF RefuseRequest
      <3>4. faults' \in 0..MaxFaults
        BY <3>1, FaultCounts
      <3> HIDE DEF r
      <3> QED
        BY <1>1, <1>2, <3>2, <3>3, <3>4 DEF Types
    <2> QED
      BY <2>1, <2>2, <2>3 DEF Serve
  <1>4. /\ auth' \in Account /\ current' \in Account /\ bearer' \in Account /\ tasks' \in Seq(Task)
        /\ batches' = [u \in Account |-> batches'[u]] /\ \A u \in Account : MutationQueue(batches'[u])
        /\ nextId' \in Nat \ {0} /\ callbacks' \in [Account -> SUBSET Batch]
        /\ cache' \in [Account -> Document]
        /\ pipeline' \in Seq(Batch) /\ stream' \in StreamState /\ asked' \subseteq {"live", "stale"}
        /\ snapshot' \in Document \cup {NoSnapshot}
    BY <1>1, <1>3 DEF Types, app, local, remote
  <1>5. handshake' \in BOOLEAN /\ idle' \in BOOLEAN
    BY <1>1, <1>3 DEF Types, remote
  <1>6. /\ issued' \in 0..MaxWrites /\ told' \in [Write -> {"nothing", "ok", "refused"}]
        /\ refused' \subseteq Write
    BY <1>1, <1>3 DEF Types, app, history
  <1>7. Types'
    BY <1>3, <1>4, <1>5, <1>6 DEF Types
  <1> QED
    BY <1>3, <1>7, LocalAlone DEF Local, local, remote

\* Every step preserves the types, the queues and the pipeline.
LEMMA LocalStep ==
    ASSUME Base, [Next]_vars
    PROVE  Local'
  <1>1. CASE MakeWrite
    BY <1>1, LocalMakeWrite
  <1>2. ASSUME NEW u \in Account, ChangeLogin(u) PROVE Local'
    BY <1>2, LocalChangeLogin
  <1>3. ASSUME NEW age \in {"live", "stale"}, NEW ok \in BOOLEAN, AnswerToken(age, ok) PROVE Local'
    BY <1>3, LocalAnswerToken
  <1>4. CASE Worker
    BY <1>4, LocalRunWrite, LocalRunAccount, LocalRunToken DEF Worker
  <1>5. CASE Receive
    BY <1>5, LocalStream, LocalTakeResult, LocalTakeRefusal DEF Receive
  <1>6. CASE BreakStream \/ EndBackoff \/ StopIdle
    BY <1>6, LocalStream
  <1>7. CASE ChangeNetwork
    BY <1>7, LocalChangeNetwork
  <1>8. CASE Relaunch
    BY <1>8, LocalRelaunch
  <1>9. CASE SendSnapshot \/ TakeSnapshot
    BY <1>9, LocalReads
  <1>10. CASE Serve
    BY <1>10, LocalServe
  <1>11. CASE UNCHANGED vars
    <2>1. Types'
      BY <1>11 DEF Base, Types, vars, app, local, remote, wire, history
    <2> QED
      BY <1>11, <2>1, LocalAlone DEF Local, vars, local, remote
  <1> QED
    BY <1>1, <1>2, <1>3, <1>4, <1>5, <1>6, <1>7, <1>8, <1>9, <1>10, <1>11 DEF Next

-----------------------------------------------------------------------------
(* The state of the stream.                                                *)

\* After the pipeline is filled the stream is started if it must be.
LEMMA FillStreams ==
    ASSUME Base, NEW Q, NEW m, NEW s \in StreamState, NEW tokens, Fills(Q, m, s, tokens),
           \/ s = "Open" => handshake /\ ~idle
           \/ ~idle'
    PROVE  Streams'
  <1>1. /\ StartIfNeeded(pipeline', s, tokens) /\ handshake' = (s = "Open" /\ handshake)
        /\ idle' => s = "Open" /\ (pipeline' = <<>> \/ idle)
    BY DEF Fills
  <1>2. pipeline' # <<>> => IsStarted(stream')
    BY <1>1 DEF StartIfNeeded, IsStarted, StreamState
  <1>3. handshake' => stream' = "Open"
    BY <1>1 DEF StartIfNeeded, IsStarted
  <1>4. idle' => handshake' /\ pipeline' = <<>>
    BY <1>1
  <1> QED
    BY <1>2, <1>3, <1>4 DEF Streams

\* The live token answers among the worker's tasks.
Live(ts) == {k \in DOMAIN ts : ts[k].kind = "token" /\ ts[k].live}

\* No token is live after the stream was closed.
LEMMA LiveForget ==
    ASSUME NEW ts \in Seq(Task)
    PROVE  Live(Forget(ts)) = {}
  <1>1. /\ Len(Forget(ts)) = Len(ts) /\ Forget(ts) \in Seq(Task)
        /\ \A k \in 1..Len(ts) : /\ Forget(ts)[k].kind = ts[k].kind
                                 /\ ts[k].kind = "token" => Forget(ts)[k].live = FALSE
    BY ForgetFacts
  <1>2. DOMAIN Forget(ts) = 1..Len(ts)
    BY <1>1
  <1> DEFINE F == Forget(ts)
  <1> HIDE DEF F
  <1>3. \A k \in DOMAIN F : ~(F[k].kind = "token" /\ F[k].live)
    <2> TAKE k \in DOMAIN F
    <2>1. k \in 1..Len(ts)
      BY <1>2 DEF F
    <2>2. F[k].kind = ts[k].kind /\ (ts[k].kind = "token" => F[k].live = FALSE)
      BY <1>1, <2>1 DEF F
    <2> QED
      BY <2>2
  <1> QED
    BY <1>3 DEF Live, F

\* The steps that close the stream and open a new one.
LEMMA Restarts ==
    ASSUME Base, RunAccount \/ ChangeNetwork \/ Relaunch
    PROVE  /\ current' \in Account
           /\ \E tokens \in SUBSET {"stale"} : Fills(QueueOf(batches[current']), 0, "Initial", tokens)
           /\ Live(tasks') = {}
           /\ handshake' = FALSE /\ idle' = FALSE
           /\ stream' = (IF pipeline' = <<>> THEN "Initial" ELSE "Starting")
           /\ "live" \in asked' <=> stream' = "Starting"
           /\ UNCHANGED <<app, batches, cache, bearer, toServer, toClient, server, applied, history>>
  <1>1. /\ current' \in Account /\ Live(tasks') = {}
        /\ \E tokens \in SUBSET {"stale"} : FillWritePipeline(<<>>, batches[current'], "Initial", tokens)
        /\ UNCHANGED <<app, batches, cache, bearer, toClient, server, applied, history>>
    <2>1. tasks \in Seq(Task) /\ current \in Account /\ auth \in Account
      BY DEF Base, Types
    <2>2. CASE RunAccount
      <3>1. /\ tasks # <<>> /\ Head(tasks).kind = "account" /\ current' = Head(tasks).account
            /\ tasks' = Forget(Tail(tasks))
            /\ FillWritePipeline(<<>>, batches[current'], "Initial", StaleTokens)
            /\ UNCHANGED <<app, batches, cache, bearer, toClient, server, applied, history>>
        BY <2>2 DEF RunAccount, RestartNetwork
      <3>2. Tail(tasks) \in Seq(Task) /\ Head(tasks) \in Task
        BY <2>1, <3>1
      <3>3. current' \in Account
        BY <3>1, <3>2 DEF Task
      <3> QED
        BY <3>1, <3>2, <3>3, LiveForget DEF StaleTokens
    <2>3. CASE ChangeNetwork
      <3>1. /\ tasks' = Forget(tasks)
            /\ FillWritePipeline(<<>>, batches[current], "Initial", StaleTokens)
            /\ UNCHANGED <<app, local, bearer, toClient, server, snapshot, applied, history>>
        BY <2>3 DEF ChangeNetwork, RestartNetwork
      <3> QED
        BY <2>1, <3>1, LiveForget DEF StaleTokens, local
    <2>4. CASE Relaunch
      <3>1. /\ tasks' = <<>> /\ current' = auth
            /\ FillWritePipeline(<<>>, batches[auth], "Initial", {})
            /\ UNCHANGED <<app, batches, cache, bearer, toClient, server, applied, history>>
        BY <2>4 DEF Relaunch
      <3>2. Live(<<>>) = {}
        BY DEF Live
      <3> QED
        BY <2>1, <3>1, <3>2
    <2> QED
      BY <2>2, <2>3, <2>4
  <1>2. PICK tokens \in SUBSET {"stale"} : FillWritePipeline(<<>>, batches[current'], "Initial", tokens)
    BY <1>1
  <1>3. Fills(QueueOf(batches[current']), 0, "Initial", tokens)
    BY <1>1, <1>2, RestartEffect
  <1>4. /\ handshake' = FALSE /\ idle' = FALSE /\ toServer' = toServer
        /\ StartIfNeeded(pipeline', "Initial", tokens)
    BY <1>3 DEF Fills
  <1>5. /\ stream' = (IF pipeline' = <<>> THEN "Initial" ELSE "Starting")
        /\ "live" \in asked' <=> stream' = "Starting"
    BY <1>4 DEF StartIfNeeded, IsStarted
  <1> QED
    BY <1>1, <1>3, <1>4, <1>5

\* Every step preserves the state of the stream.
LEMMA StreamsStep ==
    ASSUME Base, [Next]_vars
    PROVE  Streams'
  <1>0. Streams /\ Types
    BY DEF Base
  <1>1. CASE UNCHANGED remote
    BY <1>0, <1>1 DEF Streams, remote
  <1>2. ASSUME NEW age \in {"live", "stale"}, NEW ok \in BOOLEAN, AnswerToken(age, ok) PROVE Streams'
    BY <1>0, <1>2 DEF AnswerToken, Streams
  <1>3. CASE RunWrite
    <2> DEFINE Q == QueueOf(batches[current])
               b == [id |-> nextId, write |-> Head(tasks).write]
    <2>1. Fills(Append(Q, b), Fit(Len(Q)), stream, asked) /\ QueueOf(batches'[current]) = Append(Q, b)
      BY <1>3, RunWriteEffect
    <2>2. Q \in Seq(Batch) /\ Len(pipeline) = Fit(Len(Q)) /\ b \in Batch
      BY <1>3, PipelineFacts, RunWriteEffect
    <2>3. pipeline' # <<>>
      <3>1. Append(Q, b) \in Seq(Batch) /\ Append(Q, b) # <<>>
        BY <2>2
      <3>2. FrontOf(Append(Q, b)) # <<>>
        BY <3>1, FrontFacts
      <3> QED
        BY <2>1, <3>2 DEF Fills
    <2> HIDE DEF b, Q
    <2>4. ~idle'
      <3> SUFFICES ASSUME idle' PROVE FALSE
        OBVIOUS
      <3>1. idle /\ (handshake => Fit(Len(Append(Q, b))) = Fit(Len(Q)))
        BY <2>1, <2>3 DEF Fills
      <3>2. handshake /\ pipeline = <<>>
        BY <1>0, <3>1 DEF Streams
      <3>3. Len(pipeline') = 0 /\ pipeline' \in Seq(Batch)
        BY <2>1, <2>2, <3>1, <3>2 DEF Fills
      <3> QED
        BY <2>3, <3>3
    <2> QED
      BY <1>0, <2>1, <2>4, FillStreams DEF Types
  <1>4. CASE RunAccount \/ ChangeNetwork \/ Relaunch
    <2>1. /\ handshake' = FALSE /\ idle' = FALSE
          /\ stream' = (IF pipeline' = <<>> THEN "Initial" ELSE "Starting")
      BY <1>4, Restarts
    <2> QED
      BY <2>1 DEF Streams, IsStarted
  <1>5. ASSUME NEW ts, CloseOnError(ts) PROVE Streams'
    BY <1>5 DEF CloseOnError, StartIfNeeded, IsStarted, Streams
  <1>6. CASE RunToken
    <2>1. CASE ~Head(tasks).live
      BY <1>1, <1>6, <2>1 DEF RunToken
    <2>2. CASE Head(tasks).live /\ Head(tasks).ok
      BY <1>0, <1>6, <2>2 DEF RunToken, Streams, IsStarted
    <2>3. CASE Head(tasks).live /\ ~Head(tasks).ok
      BY <1>5, <1>6, <2>3 DEF RunToken
    <2> QED
      BY <2>1, <2>2, <2>3
  <1>7. CASE FinishHandshake
    BY <1>7 DEF FinishHandshake, Streams, IsStarted
  <1>8. CASE TakeResult
    <2> DEFINE Q == QueueOf(batches[current])
    <2>1. Fills(Tail(Q), Fit(Len(Q)) - 1, stream, asked) /\ handshake /\ pipeline # <<>>
      BY <1>8, TakeResultEffect, AnswerFacts DEF TakeResult
    <2>2. ~idle
      BY <1>0, <2>1 DEF Streams
    <2> HIDE DEF Q
    <2> QED
      BY <1>0, <2>1, <2>2, FillStreams DEF Types
  <1>9. CASE TakeRefusal
    <2> DEFINE Q == QueueOf(batches[current])
    <2>1. Fills(Tail(Q), Fit(Len(Q)) - 1, "Initial", StaleTokens)
      BY <1>9, TakeRefusalEffect
    <2> HIDE DEF Q
    <2> QED
      BY <2>1, FillStreams DEF StreamState
  <1>10. CASE BreakStream
    BY <1>5, <1>10 DEF BreakStream
  <1>11. CASE EndBackoff
    BY <1>0, <1>11 DEF EndBackoff, Streams, IsStarted
  <1>12. CASE StopIdle
    BY <1>0, <1>12 DEF StopIdle, Streams, IsStarted
  <1> QED
    BY <1>1, <1>2, <1>3, <1>4, <1>6, <1>7, <1>8, <1>9, <1>10, <1>11, <1>12
       DEF Next, Worker, Receive, Serve, MakeWrite, ChangeLogin, SendSnapshot, TakeSnapshot,
           AnswerHello, ApplyRequest, RefuseRequest, vars

-----------------------------------------------------------------------------
(* The tokens.                                                             *)

\* OneTokenAwaited without counting.
OneLive ==
    IF stream = "Starting"
    THEN \/ Live(tasks) = {} /\ "live" \in asked
         \/ (\E k : Live(tasks) = {k}) /\ "live" \notin asked
    ELSE Live(tasks) = {} /\ "live" \notin asked

\* OneTokenAwaited without cardinalities.
LEMMA OneLiveIs ==
    ASSUME tasks \in Seq(Task)
    PROVE  OneTokenAwaited <=> OneLive
  <1> DEFINE L == Live(tasks)
             A == asked \cap {"live"}
  <1>1. IsFiniteSet(L) /\ Cardinality(L) \in Nat
    <2>1. L \in SUBSET (1..Len(tasks)) /\ Len(tasks) \in Nat
      BY DEF Live
    <2>2. IsFiniteSet(1..Len(tasks))
      BY <2>1, FS_Interval
    <2> QED
      BY <2>1, <2>2, FS_Subset, FS_CardinalityType
  <1>2. (Cardinality(L) = 0 <=> L = {}) /\ (Cardinality(L) = 1 <=> \E k : L = {k})
    BY <1>1, FS_EmptySet, FS_Singleton
  <1>3. Cardinality(A) = IF "live" \in asked THEN 1 ELSE 0
    <2>1. CASE "live" \in asked
      <3>1. A = {"live"}
        BY <2>1
      <3> QED
        BY <2>1, <3>1, FS_Singleton
    <2>2. CASE "live" \notin asked
      <3>1. A = {}
        BY <2>2
      <3> QED
        BY <2>2, <3>1, FS_EmptySet
    <2> QED
      BY <2>1, <2>2
  <1>4. OneTokenAwaited <=>
            IF stream = "Starting" THEN Cardinality(L) + Cardinality(A) = 1
                                   ELSE L = {} /\ "live" \notin asked
    BY DEF OneTokenAwaited, Live
  <1> HIDE DEF L, A
  <1>5. Cardinality(L) + Cardinality(A) = 1 <=>
            \/ L = {} /\ "live" \in asked
            \/ (\E k : L = {k}) /\ "live" \notin asked
    <2>1. CASE "live" \in asked
      BY <1>1, <1>2, <1>3, <2>1
    <2>2. CASE "live" \notin asked
      <3>1. Cardinality(A) = 0
        BY <1>3, <2>2
      <3>2. Cardinality(L) + Cardinality(A) = 1 <=> Cardinality(L) = 1
        BY <1>1, <3>1
      <3> QED
        BY <1>2, <2>2, <3>2, Zenon
    <2> QED
      BY <2>1, <2>2
  <1> QED
    BY <1>4, <1>5 DEF OneLive, L

\* The live tokens when a task is queued ...
LEMMA LiveAppend ==
    ASSUME NEW ts \in Seq(Task), NEW t \in Task
    PROVE  Live(Append(ts, t)) =
               IF t.kind = "token" /\ t.live THEN Live(ts) \cup {Len(ts) + 1} ELSE Live(ts)
  <1> DEFINE A == Append(ts, t)
             n == Len(ts)
  <1>1. n \in Nat /\ DOMAIN A = 1..n + 1 /\ DOMAIN ts = 1..n /\ A[n + 1] = t
        /\ \A k \in 1..n : A[k] = ts[k]
    OBVIOUS
  <1> HIDE DEF A, n
  <1>2. \A k : k \in 1..n + 1 <=> k \in 1..n \/ k = n + 1
    BY <1>1
  <1>3. n + 1 \notin 1..n
    BY <1>1
  <1>4. ASSUME NEW k PROVE k \in Live(A) <=> k \in Live(ts) \/ (k = n + 1 /\ t.kind = "token" /\ t.live)
    BY <1>1, <1>2, <1>3 DEF Live
  <1>5. CASE t.kind = "token" /\ t.live
    <2>1. Live(A) = Live(ts) \cup {n + 1}
      BY <1>4, <1>5
    <2> QED
      BY <1>5, <2>1 DEF A, n
  <1>6. CASE ~(t.kind = "token" /\ t.live)
    <2>1. Live(A) = Live(ts)
      BY <1>4, <1>6
    <2> QED
      BY <1>6, <2>1 DEF A, n
  <1> QED
    BY <1>5, <1>6

\* ... and when one is taken off.
LEMMA LiveTail ==
    ASSUME NEW ts \in Seq(Task), ts # <<>>
    PROVE  /\ \A k : k \in Live(Tail(ts)) <=> (k \in Nat \ {0} /\ k + 1 \in Live(ts))
           /\ 1 \in Live(ts) <=> Head(ts).kind = "token" /\ Head(ts).live
           /\ Live(ts) \subseteq Nat \ {0}
  <1> DEFINE T == Tail(ts)
             n == Len(ts)
  <1>1. n \in Nat \ {0} /\ DOMAIN T = 1..n - 1 /\ DOMAIN ts = 1..n /\ Head(ts) = ts[1]
        /\ \A k \in 1..n - 1 : T[k] = ts[k + 1]
    OBVIOUS
  <1> HIDE DEF T, n
  <1>2. \A k : k \in 1..n - 1 <=> k \in Nat \ {0} /\ k + 1 \in 1..n
    BY <1>1
  <1>3. ASSUME NEW k PROVE k \in Live(T) <=> (k \in Nat \ {0} /\ k + 1 \in Live(ts))
    BY <1>1, <1>2, <1>3 DEF Live
  <1>4. 1 \in Live(ts) <=> Head(ts).kind = "token" /\ Head(ts).live
    BY <1>1 DEF Live
  <1>5. Live(ts) \subseteq Nat \ {0}
    BY <1>1 DEF Live
  <1> QED
    BY <1>3, <1>4, <1>5 DEF T

\* Taking a task leaves at most one live token, and none if it was that one.
LEMMA TailAlone ==
    ASSUME NEW ts \in Seq(Task), ts # <<>>
    PROVE  /\ Live(ts) = {} => Live(Tail(ts)) = {}
           /\ ~(Head(ts).kind = "token" /\ Head(ts).live) /\ (\E k : Live(ts) = {k})
                 => \E k : Live(Tail(ts)) = {k}
           /\ Head(ts).kind = "token" /\ Head(ts).live /\ (\E k : Live(ts) = {k})
                 => Live(Tail(ts)) = {}
  <1>1. /\ \A k : k \in Live(Tail(ts)) <=> (k \in Nat \ {0} /\ k + 1 \in Live(ts))
        /\ 1 \in Live(ts) <=> Head(ts).kind = "token" /\ Head(ts).live
        /\ Live(ts) \subseteq Nat \ {0}
    BY LiveTail
  <1>2. Live(ts) = {} => Live(Tail(ts)) = {}
    BY <1>1
  <1>3. ASSUME NEW k, Live(ts) = {k}, ~(Head(ts).kind = "token" /\ Head(ts).live)
        PROVE  Live(Tail(ts)) = {k - 1}
    <2>1. k \in Nat \ {0} /\ k # 1 /\ k - 1 \in Nat \ {0} /\ k - 1 + 1 = k
      BY <1>1, <1>3
    <2>2. \A j \in Nat \ {0} : j + 1 = k <=> j = k - 1
      BY <2>1
    <2> QED
      BY <1>1, <1>3, <2>1, <2>2
  <1>4. ASSUME NEW k, Live(ts) = {k}, Head(ts).kind = "token", Head(ts).live
        PROVE  Live(Tail(ts)) = {}
    <2>1. k = 1
      BY <1>1, <1>4
    <2>2. \A j \in Nat \ {0} : j + 1 # 1
      OBVIOUS
    <2> QED
      BY <1>1, <1>4, <2>1, <2>2
  <1> QED
    BY <1>2, <1>3, <1>4

\* Steps that start the stream, or leave it, without touching the tokens awaited.
LEMMA TokensFilled ==
    ASSUME Base, OneLive, NEW Q, NEW m, Fills(Q, m, stream, asked),
           Live(tasks') = Live(tasks) \/ (Live(tasks) = {} /\ Live(tasks') = {})
                \/ ((\E k : Live(tasks) = {k}) /\ (\E k : Live(tasks') = {k}))
    PROVE  OneLive'
  <1>1. StartIfNeeded(pipeline', stream, asked) /\ stream \in StreamState
    BY DEF Fills, Base, Types
  <1>2. CASE stream = "Starting"
    <2>1. stream' = "Starting" /\ asked' = asked
      BY <1>1, <1>2 DEF StartIfNeeded, IsStarted
    <2> QED
      BY <1>2, <2>1 DEF OneLive
  <1>3. CASE stream # "Starting"
    <2>1. Live(tasks) = {} /\ Live(tasks') = {} /\ "live" \notin asked
      BY <1>3 DEF OneLive
    <2>2. "live" \in asked' <=> stream' = "Starting"
      BY <1>1, <1>3, <2>1 DEF StartIfNeeded, IsStarted, StreamState
    <2> QED
      BY <2>1, <2>2 DEF OneLive
  <1> QED
    BY <1>2, <1>3

\* Every step preserves that exactly one token is awaited.
LEMMA TokensStep ==
    ASSUME Base, OneLive, [Next]_vars
    PROVE  OneLive'
  <1>0. /\ tasks \in Seq(Task) /\ auth \in Account /\ stream \in StreamState /\ Streams
        /\ asked \subseteq {"live", "stale"}
    BY DEF Base, Types
  <1>1. CASE Live(tasks') = Live(tasks) /\ UNCHANGED <<stream, asked>>
    BY <1>1 DEF OneLive
  <1>2. CASE MakeWrite
    <2> DEFINE t == [kind |-> "write", write |-> [by |-> auth, n |-> issued + 1]]
    <2>1. t \in Task /\ t.kind = "write"
      <3>1. issued + 1 \in 1..MaxWrites
        BY <1>2, WriteBoundAssumption DEF MakeWrite, Base, Types
      <3> QED
        BY <1>0, <3>1 DEF Task, Write
    <2>2. tasks' = Append(tasks, t) /\ UNCHANGED remote
      BY <1>2 DEF MakeWrite
    <2> HIDE DEF t
    <2>3. Live(tasks') = Live(tasks)
      BY <1>0, <2>1, <2>2, LiveAppend
    <2> QED
      BY <1>1, <2>2, <2>3 DEF remote
  <1>3. ASSUME NEW u \in Account, ChangeLogin(u) PROVE OneLive'
    <2> DEFINE t == [kind |-> "account", account |-> u]
    <2>1. t \in Task /\ t.kind = "account" /\ tasks' = Append(tasks, t) /\ UNCHANGED remote
      BY <1>3 DEF ChangeLogin, Task
    <2> HIDE DEF t
    <2>2. Live(tasks') = Live(tasks)
      BY <1>0, <2>1, LiveAppend
    <2> QED
      BY <1>1, <2>1, <2>2 DEF remote
  <1>4. ASSUME NEW age \in {"live", "stale"}, NEW ok \in BOOLEAN, AnswerToken(age, ok) PROVE OneLive'
    <2> DEFINE t == [kind |-> "token", live |-> age = "live", ok |-> ok, account |-> auth]
    <2>1. /\ age \in asked /\ asked' = asked \ {age} /\ stream' = stream
          /\ tasks' = Append(tasks, t)
      BY <1>4 DEF AnswerToken
    <2>2. t \in Task /\ t.kind = "token" /\ t.live = (age = "live")
      BY <1>0 DEF Task
    <2> HIDE DEF t
    <2>3. CASE age = "live"
      <3>1. Live(tasks') = Live(tasks) \cup {Len(tasks) + 1}
        BY <1>0, <2>1, <2>2, <2>3, LiveAppend
      <3>2. stream = "Starting" /\ Live(tasks) = {}
        BY <2>1, <2>3 DEF OneLive
      <3>3. Live(tasks') = {Len(tasks) + 1}
        BY <3>1, <3>2
      <3> QED
        BY <2>1, <2>3, <3>2, <3>3 DEF OneLive
    <2>4. CASE age = "stale"
      <3>1. Live(tasks') = Live(tasks)
        BY <1>0, <2>1, <2>2, <2>4, LiveAppend
      <3> QED
        BY <2>1, <2>4, <3>1 DEF OneLive
    <2> QED
      BY <2>3, <2>4
  <1>5. CASE RunWrite
    <2> DEFINE Q == QueueOf(batches[current])
               b == [id |-> nextId, write |-> Head(tasks).write]
    <2>1. Fills(Append(Q, b), Fit(Len(Q)), stream, asked)
      BY <1>5, RunWriteEffect
    <2> HIDE DEF Q, b
    <2>2. tasks # <<>> /\ Head(tasks).kind = "write" /\ tasks' = Tail(tasks)
      BY <1>5 DEF RunWrite
    <2>3. /\ Live(tasks) = {} => Live(tasks') = {}
          /\ (\E k : Live(tasks) = {k}) => \E k : Live(tasks') = {k}
      BY <1>0, <2>2, TailAlone
    <2>4. Live(tasks) = {} \/ \E k : Live(tasks) = {k}
      BY DEF OneLive
    <2> QED
      BY <2>1, <2>3, <2>4, TokensFilled
  <1>6. CASE RunAccount \/ ChangeNetwork \/ Relaunch
    <2>1. Live(tasks') = {} /\ ("live" \in asked' <=> stream' = "Starting")
      BY <1>6, Restarts
    <2> QED
      BY <2>1 DEF OneLive
  <1>7. ASSUME NEW ts \in Seq(Task), CloseOnError(ts) PROVE OneLive'
    <2>1. /\ tasks' = Forget(ts) /\ asked' = StaleTokens
          /\ stream' = (IF pipeline = <<>> THEN "Error" ELSE "Backoff")
      BY <1>7, CloseEffect
    <2>2. Live(tasks') = {}
      BY <2>1, LiveForget
    <2> QED
      BY <2>1, <2>2 DEF OneLive, StaleTokens
  <1>8. CASE RunToken
    <2>1. tasks # <<>> /\ Head(tasks).kind = "token" /\ Tail(tasks) \in Seq(Task)
      BY <1>0, <1>8 DEF RunToken
    <2>2. CASE ~Head(tasks).live
      <3>1. tasks' = Tail(tasks) /\ UNCHANGED remote
        BY <1>8, <2>2 DEF RunToken
      <3>2. /\ Live(tasks) = {} => Live(tasks') = {}
            /\ (\E k : Live(tasks) = {k}) => \E k : Live(tasks') = {k}
        BY <1>0, <2>1, <2>2, <3>1, TailAlone
      <3> QED
        BY <3>1, <3>2 DEF OneLive, remote
    <2>3. CASE Head(tasks).live /\ Head(tasks).ok
      <3>1. tasks' = Tail(tasks) /\ stream' = "Open" /\ asked' = asked
        BY <1>8, <2>3 DEF RunToken
      <3>2. 1 \in Live(tasks)
        BY <1>0, <2>1, <2>3, LiveTail
      <3>3. (\E k : Live(tasks) = {k}) /\ "live" \notin asked
        BY <3>2 DEF OneLive
      <3>4. Live(tasks') = {}
        BY <1>0, <2>1, <2>3, <3>1, <3>3, TailAlone
      <3> QED
        BY <3>1, <3>3, <3>4 DEF OneLive
    <2>4. CASE Head(tasks).live /\ ~Head(tasks).ok
      BY <1>7, <1>8, <2>1, <2>4 DEF RunToken
    <2> QED
      BY <2>2, <2>3, <2>4
  <1>9. CASE TakeResult
    <2> DEFINE Q == QueueOf(batches[current])
    <2>1. Fills(Tail(Q), Fit(Len(Q)) - 1, stream, asked) /\ tasks' = tasks
      BY <1>9, TakeResultEffect DEF TakeResult
    <2> HIDE DEF Q
    <2> QED
      BY <2>1, TokensFilled
  <1>10. CASE TakeRefusal
    <2> DEFINE Q == QueueOf(batches[current])
    <2>1. Fills(Tail(Q), Fit(Len(Q)) - 1, "Initial", StaleTokens) /\ tasks' = Forget(tasks)
      BY <1>10, TakeRefusalEffect DEF TakeRefusal
    <2> HIDE DEF Q
    <2>2. StartIfNeeded(pipeline', "Initial", StaleTokens)
      BY <2>1 DEF Fills
    <2>3. "live" \in asked' <=> stream' = "Starting"
      BY <2>2 DEF StartIfNeeded, IsStarted, StaleTokens
    <2>4. Live(tasks') = {}
      BY <1>0, <2>1, LiveForget
    <2> QED
      BY <2>3, <2>4 DEF OneLive
  <1>11. CASE BreakStream
    BY <1>0, <1>7, <1>11 DEF BreakStream
  <1>12. CASE EndBackoff
    BY <1>12 DEF EndBackoff, OneLive
  <1>13. CASE StopIdle
    BY <1>0, <1>13 DEF StopIdle, OneLive, Streams
  <1> QED
    BY <1>1, <1>2, <1>3, <1>4, <1>5, <1>6, <1>8, <1>9, <1>10, <1>11, <1>12, <1>13
       DEF Next, Worker, Receive, Serve, FinishHandshake, SendSnapshot, TakeSnapshot,
           AnswerHello, ApplyRequest, RefuseRequest, vars, remote

-----------------------------------------------------------------------------
(* The logins.                                                             *)

\* A queued task follows the logins before it ...
LEMMA FollowsAppend ==
    ASSUME NEW ts \in Seq(Task), NEW t \in Task, NEW c, NEW u
    PROVE  /\ \A k \in 1..Len(ts) + 1 : Follows(Append(ts, t), c, k, u) <=> Follows(ts, c, k, u)
           /\ t.kind = "account" => Follows(Append(ts, t), c, Len(ts) + 2, t.account)
           /\ t.kind # "account" /\ Follows(ts, c, Len(ts) + 1, u) =>
                 Follows(Append(ts, t), c, Len(ts) + 2, u)
  <1> DEFINE A == Append(ts, t)
             n == Len(ts)
  <1>1. /\ n \in Nat /\ DOMAIN ts = 1..n /\ DOMAIN A = 1..n + 1 /\ A[n + 1] = t
        /\ \A k \in 1..n : A[k] = ts[k]
    OBVIOUS
  <1> HIDE DEF A, n
  <1>2. ASSUME NEW k \in 1..n + 1
        PROVE  Follows(A, c, k, u) <=> Follows(ts, c, k, u)
    <2>1. \A j \in 1..n + 1 : j < k => j \in 1..n
      BY <1>1
    <2>2. \A j \in 1..n : j \in 1..n + 1
      BY <1>1
    <2>3. (\A j \in DOMAIN A : j < k => A[j].kind # "account") <=>
          (\A j \in DOMAIN ts : j < k => ts[j].kind # "account")
      BY <1>1, <2>1, <2>2
    <2>4. \A l \in 1..n : (\A i \in DOMAIN A : l < i /\ i < k => A[i].kind # "account") <=>
                          (\A i \in DOMAIN ts : l < i /\ i < k => ts[i].kind # "account")
      BY <1>1, <2>1, <2>2
    <2> QED
      BY <1>1, <2>1, <2>2, <2>3, <2>4 DEF Follows
  <1>3. ASSUME t.kind = "account" PROVE Follows(A, c, n + 2, t.account)
    <2>1. n + 1 \in DOMAIN A /\ n + 1 < n + 2
      BY <1>1
    <2>2. ASSUME NEW j \in DOMAIN A, j < n + 2,
                 \A i \in DOMAIN A : j < i /\ i < n + 2 => A[i].kind # "account"
          PROVE  j = n + 1
      BY <1>1, <1>3, <2>1, <2>2
    <2> QED
      BY <1>1, <1>3, <2>1, <2>2 DEF Follows
  <1>4. ASSUME t.kind # "account", Follows(ts, c, n + 1, u) PROVE Follows(A, c, n + 2, u)
    <2>1. \A j \in 1..n : j \in 1..n + 1 /\ j < n + 1 /\ j < n + 2
      BY <1>1
    <2>2. \A j \in 1..n + 1 : j \in 1..n \/ j = n + 1
      BY <1>1
    <2>3. ASSUME \A j \in DOMAIN A : j < n + 2 => A[j].kind # "account" PROVE u = c
      <3>1. \A j \in DOMAIN ts : j < n + 1 => ts[j].kind # "account"
        BY <1>1, <2>1, <2>3
      <3> QED
        BY <1>4, <3>1 DEF Follows
    <2>4. ASSUME NEW j \in DOMAIN A, j < n + 2, A[j].kind = "account",
                 \A i \in DOMAIN A : j < i /\ i < n + 2 => A[i].kind # "account"
          PROVE  u = A[j].account
      <3>1. j \in DOMAIN ts /\ A[j] = ts[j] /\ j < n + 1
        BY <1>1, <1>4, <2>1, <2>2, <2>4
      <3>2. \A i \in DOMAIN ts : j < i /\ i < n + 1 => ts[i].kind # "account"
        BY <1>1, <2>1, <2>4
      <3> QED
        BY <1>4, <2>4, <3>1, <3>2 DEF Follows
    <2> QED
      BY <2>3, <2>4 DEF Follows
  <1> QED
    BY <1>2, <1>3, <1>4 DEF A, n

\* ... also when the first of them is run ...
LEMMA FollowsTail ==
    ASSUME NEW ts \in Seq(Task), ts # <<>>, NEW c, NEW d, NEW u, NEW k \in Nat,
           d = IF Head(ts).kind = "account" THEN Head(ts).account ELSE c,
           Follows(ts, c, k + 1, u), k >= 1
    PROVE  Follows(Tail(ts), d, k, u)
  <1> DEFINE T == Tail(ts)
             n == Len(ts)
  <1>1. /\ n \in Nat \ {0} /\ DOMAIN ts = 1..n /\ DOMAIN T = 1..n - 1 /\ Head(ts) = ts[1]
        /\ \A i \in 1..n - 1 : T[i] = ts[i + 1]
    OBVIOUS
  <1> HIDE DEF T, n
  <1>2. /\ \A i \in 1..n - 1 : i + 1 \in 1..n
        /\ \A i \in 1..n : i = 1 \/ (i - 1 \in 1..n - 1 /\ (i - 1) + 1 = i)
    BY <1>1
  <1>3. ASSUME \A j \in DOMAIN T : j < k => T[j].kind # "account" PROVE u = d
    <2>1. \A j \in DOMAIN ts : j < k + 1 /\ j # 1 => ts[j].kind # "account"
      <3> SUFFICES ASSUME NEW j \in DOMAIN ts, j < k + 1, j # 1 PROVE ts[j].kind # "account"
        OBVIOUS
      <3>1. j - 1 \in DOMAIN T /\ j - 1 < k /\ T[j - 1] = ts[j]
        BY <1>1, <1>2
      <3> QED
        BY <1>3, <3>1
    <2>2. CASE ts[1].kind = "account"
      <3>1. 1 \in DOMAIN ts /\ 1 < k + 1
        BY <1>1
      <3>2. \A i \in DOMAIN ts : 1 < i /\ i < k + 1 => ts[i].kind # "account"
        BY <1>1, <2>1
      <3> QED
        BY <1>1, <2>2, <3>1, <3>2 DEF Follows
    <2>3. CASE ts[1].kind # "account"
      <3>1. \A j \in DOMAIN ts : j < k + 1 => ts[j].kind # "account"
        BY <2>1, <2>3
      <3> QED
        BY <1>1, <2>3, <3>1 DEF Follows
    <2> QED
      BY <2>2, <2>3
  <1>4. ASSUME NEW j \in DOMAIN T, j < k, T[j].kind = "account",
               \A i \in DOMAIN T : j < i /\ i < k => T[i].kind # "account"
        PROVE  u = T[j].account
    <2>1. j + 1 \in DOMAIN ts /\ j + 1 < k + 1 /\ T[j] = ts[j + 1]
      BY <1>1, <1>2, <1>4
    <2>2. ASSUME NEW i \in DOMAIN ts, j + 1 < i, i < k + 1 PROVE ts[i].kind # "account"
      <3>1. i - 1 \in DOMAIN T /\ T[i - 1] = ts[i] /\ j < i - 1 /\ i - 1 < k
        BY <1>1, <1>2, <2>2
      <3> QED
        BY <1>4, <3>1
    <2> QED
      BY <1>4, <2>1, <2>2 DEF Follows
  <1> QED
    BY <1>3, <1>4 DEF Follows, T

\* ... or the tokens become stale.
LEMMA FollowsAlike ==
    ASSUME NEW ts \in Seq(Task), NEW c, NEW k, NEW u
    PROVE  Follows(Forget(ts), c, k, u) <=> Follows(ts, c, k, u)
  <1> DEFINE F == Forget(ts)
  <1>1. F \in Seq(Task) /\ Len(F) = Len(ts)
    BY ForgetFacts
  <1>2. \A j \in 1..Len(ts) : F[j].kind = ts[j].kind /\ (ts[j].kind = "account" => F[j] = ts[j])
    BY ForgetFacts
  <1> HIDE DEF F
  <1>3. DOMAIN F = DOMAIN ts /\ DOMAIN ts = 1..Len(ts)
    BY <1>1
  <1>4. Follows(F, c, k, u) <=> Follows(ts, c, k, u)
    BY <1>2, <1>3 DEF Follows
  <1> QED
    BY <1>4 DEF F

\* A task of the present login is queued after it.
LEMMA QueuedAppend ==
    ASSUME NEW ts \in Seq(Task), NEW t \in Task, NEW c, NEW u, Queued(ts, c),
           Follows(ts, c, Len(ts) + 1, u),
           t.kind = "write" => t.write.by = u, t.kind = "token" => t.account = u
    PROVE  Queued(Append(ts, t), c)
  <1> DEFINE A == Append(ts, t)
             n == Len(ts)
  <1>1. /\ n \in Nat /\ DOMAIN ts = 1..n /\ DOMAIN A = 1..n + 1 /\ A[n + 1] = t
        /\ \A k \in 1..n : A[k] = ts[k]
    OBVIOUS
  <1>2. \A k \in 1..n + 1 : \A v : Follows(A, c, k, v) <=> Follows(ts, c, k, v)
    BY FollowsAppend
  <1>3. \A k \in 1..n + 1 : k \in 1..n \/ k = n + 1
    BY <1>1
  <1> HIDE DEF A, n
  <1>4. n + 1 \in 1..n + 1 /\ Follows(ts, c, n + 1, u)
    BY <1>1 DEF n
  <1>5. Queued(A, c)
    <2> SUFFICES ASSUME NEW k \in DOMAIN A
                 PROVE  /\ A[k].kind = "write" => Follows(A, c, k, A[k].write.by)
                        /\ A[k].kind = "token" => Follows(A, c, k, A[k].account)
      BY DEF Queued
    <2>1. CASE k = n + 1
      BY <1>1, <1>2, <1>4, <2>1
    <2>2. CASE k \in 1..n
      <3>1. A[k] = ts[k] /\ k \in DOMAIN ts /\ k \in 1..n + 1
        BY <1>1, <2>2
      <3> QED
        BY <1>2, <3>1 DEF Queued
    <2> QED
      BY <1>1, <1>3, <2>1, <2>2
  <1> QED
    BY <1>5 DEF A

\* Running a task leaves the others after their logins.
LEMMA QueuedTail ==
    ASSUME NEW ts \in Seq(Task), ts # <<>>, NEW c, NEW d, NEW u, Queued(ts, c),
           d = IF Head(ts).kind = "account" THEN Head(ts).account ELSE c,
           Follows(ts, c, Len(ts) + 1, u)
    PROVE  Queued(Tail(ts), d) /\ Follows(Tail(ts), d, Len(Tail(ts)) + 1, u)
  <1> DEFINE T == Tail(ts)
             n == Len(ts)
  <1>1. /\ n \in Nat \ {0} /\ DOMAIN ts = 1..n /\ DOMAIN T = 1..n - 1 /\ Len(T) = n - 1
        /\ \A i \in 1..n - 1 : T[i] = ts[i + 1]
    OBVIOUS
  <1>2. \A k \in Nat : \A v : k >= 1 /\ Follows(ts, c, k + 1, v) => Follows(T, d, k, v)
    BY FollowsTail
  <1> HIDE DEF T, n
  <1>3. Follows(T, d, Len(T) + 1, u)
    <2>1. Len(T) + 1 \in Nat /\ Len(T) + 1 >= 1 /\ (Len(T) + 1) + 1 = n + 1
      BY <1>1
    <2>2. Follows(ts, c, n + 1, u)
      BY DEF n
    <2> QED
      BY <1>2, <2>1, <2>2
  <1>4. Queued(T, d)
    <2> SUFFICES ASSUME NEW k \in DOMAIN T
                 PROVE  /\ T[k].kind = "write" => Follows(T, d, k, T[k].write.by)
                        /\ T[k].kind = "token" => Follows(T, d, k, T[k].account)
      BY DEF Queued
    <2>1. k \in Nat /\ k >= 1 /\ k + 1 \in DOMAIN ts /\ T[k] = ts[k + 1]
      BY <1>1
    <2> QED
      BY <1>2, <2>1 DEF Queued
  <1> QED
    BY <1>3, <1>4 DEF T

\* Stale tokens are still of their logins.
LEMMA QueuedForget ==
    ASSUME NEW ts \in Seq(Task), NEW c, Queued(ts, c)
    PROVE  Queued(Forget(ts), c)
  <1> DEFINE F == Forget(ts)
  <1>1. F \in Seq(Task) /\ Len(F) = Len(ts)
    BY ForgetFacts
  <1>2. \A j \in 1..Len(ts) : /\ F[j].kind = ts[j].kind
                              /\ ts[j].kind = "write" => F[j] = ts[j]
                              /\ ts[j].kind = "token" => F[j].account = ts[j].account
    BY ForgetFacts
  <1>3. \A k, u : Follows(F, c, k, u) <=> Follows(ts, c, k, u)
    BY FollowsAlike
  <1> HIDE DEF F
  <1>4. DOMAIN F = DOMAIN ts /\ DOMAIN ts = 1..Len(ts)
    BY <1>1
  <1>5. Queued(F, c)
    BY <1>2, <1>3, <1>4 DEF Queued
  <1> QED
    BY <1>5 DEF F

\* An append, when the task is of the account logged in.
LEMMA LoginsAppend ==
    ASSUME Base, Logins, NEW t \in Task, tasks' = Append(tasks, t), current' = current,
           \/ /\ t.kind # "account" /\ auth' = auth
              /\ t.kind = "write" => t.write.by = auth
              /\ t.kind = "token" => t.account = auth
           \/ t.kind = "account" /\ auth' = t.account
    PROVE  Logins'
  <1>1. tasks \in Seq(Task) /\ Len(tasks') = Len(tasks) + 1 /\ Len(tasks) \in Nat
    BY DEF Base, Types
  <1>2. Queued(tasks, current) /\ Follows(tasks, current, Len(tasks) + 1, auth)
    BY DEF Logins
  <1>3. Queued(tasks', current')
    <2>1. (t.kind = "write" => t.write.by = auth) /\ (t.kind = "token" => t.account = auth)
      OBVIOUS
    <2> QED
      BY <1>1, <1>2, <2>1, QueuedAppend
  <1>4. Follows(tasks', current', Len(tasks) + 2, auth')
    BY <1>1, <1>2, FollowsAppend
  <1>5. Len(tasks') + 1 = Len(tasks) + 2
    BY <1>1
  <1> QED
    BY <1>3, <1>4, <1>5, SMTT(30) DEF Logins, Queued, Follows

\* The worker takes a task.
LEMMA LoginsTail ==
    ASSUME Base, Logins, tasks # <<>>, auth' = auth,
           tasks' = Tail(tasks) \/ tasks' = Forget(Tail(tasks)),
           current' = IF Head(tasks).kind = "account" THEN Head(tasks).account ELSE current
    PROVE  Logins'
  <1> DEFINE T == Tail(tasks)
  <1>1. tasks \in Seq(Task) /\ T \in Seq(Task)
    BY DEF Base, Types
  <1>2. Queued(T, current') /\ Follows(T, current', Len(T) + 1, auth)
    BY <1>1, QueuedTail DEF Logins
  <1>3. Len(Forget(T)) = Len(T) /\ Queued(Forget(T), current')
        /\ Follows(Forget(T), current', Len(T) + 1, auth)
    BY <1>1, <1>2, ForgetFacts, QueuedForget, FollowsAlike
  <1>4. Queued(tasks', current') /\ Follows(tasks', current', Len(tasks') + 1, auth')
    BY <1>2, <1>3
  <1> QED
    BY <1>4 DEF Logins, Queued, Follows

\* Closing the stream leaves the logins in place.
LEMMA LoginsForget ==
    ASSUME Base, Logins, auth' = auth, current' = current, tasks' = Forget(tasks)
    PROVE  Logins'
  <1>1. tasks \in Seq(Task)
    BY DEF Base, Types
  <1>2. Len(tasks') = Len(tasks) /\ Queued(tasks', current) /\ Follows(tasks', current, Len(tasks) + 1, auth)
    BY <1>1, ForgetFacts, QueuedForget, FollowsAlike DEF Logins
  <1> QED
    BY <1>2 DEF Logins, Queued, Follows

\* Every step preserves that the tasks follow their logins.
LEMMA LoginsStep ==
    ASSUME Base, Logins, [Next]_vars
    PROVE  Logins'
  <1>0. tasks \in Seq(Task) /\ auth \in Account
    BY DEF Base, Types
  <1>1. CASE UNCHANGED <<tasks, auth, current>>
    BY <1>1 DEF Logins, Queued, Follows
  <1>2. CASE MakeWrite
    <2> DEFINE t == [kind |-> "write", write |-> [by |-> auth, n |-> issued + 1]]
    <2>1. issued + 1 \in 1..MaxWrites
      BY <1>2, WriteBoundAssumption DEF MakeWrite, Base, Types
    <2>2. t \in Task /\ t.kind = "write" /\ t.write.by = auth
      BY <1>0, <2>1 DEF Task, Write
    <2>3. tasks' = Append(tasks, t) /\ current' = current /\ auth' = auth
      BY <1>2 DEF MakeWrite, local
    <2> HIDE DEF t
    <2> QED
      BY <2>2, <2>3, LoginsAppend
  <1>3. ASSUME NEW u \in Account, ChangeLogin(u) PROVE Logins'
    <2> DEFINE t == [kind |-> "account", account |-> u]
    <2>1. t \in Task /\ t.kind = "account" /\ t.account = u
      BY DEF Task
    <2>2. tasks' = Append(tasks, t) /\ current' = current /\ auth' = u
      BY <1>3 DEF ChangeLogin, local
    <2> HIDE DEF t
    <2> QED
      BY <2>1, <2>2, LoginsAppend
  <1>4. ASSUME NEW age \in {"live", "stale"}, NEW ok \in BOOLEAN, AnswerToken(age, ok) PROVE Logins'
    <2> DEFINE t == [kind |-> "token", live |-> age = "live", ok |-> ok, account |-> auth]
    <2>1. t \in Task /\ t.kind = "token" /\ t.account = auth
      BY <1>0 DEF Task
    <2>2. tasks' = Append(tasks, t) /\ current' = current /\ auth' = auth
      BY <1>4 DEF AnswerToken, local, app
    <2> HIDE DEF t
    <2> QED
      BY <2>1, <2>2, LoginsAppend
  <1>5. CASE RunWrite
    <2>1. tasks # <<>> /\ Head(tasks).kind = "write" /\ tasks' = Tail(tasks)
          /\ current' = current /\ auth' = auth
      BY <1>5 DEF RunWrite, app
    <2> QED
      BY <2>1, LoginsTail
  <1>6. CASE RunAccount
    <2>1. tasks # <<>> /\ Head(tasks).kind = "account" /\ tasks' = Forget(Tail(tasks))
          /\ current' = Head(tasks).account /\ auth' = auth
      BY <1>6 DEF RunAccount, RestartNetwork, app
    <2> QED
      BY <2>1, LoginsTail
  <1>7. CASE RunToken
    <2>1. tasks # <<>> /\ Head(tasks).kind = "token"
          /\ (tasks' = Tail(tasks) \/ tasks' = Forget(Tail(tasks)))
          /\ current' = current /\ auth' = auth
      BY <1>7 DEF RunToken, CloseOnError, app, local
    <2> QED
      BY <2>1, LoginsTail
  <1>8. CASE TakeRefusal \/ BreakStream \/ ChangeNetwork
    <2>1. tasks' = Forget(tasks) /\ current' = current /\ auth' = auth
      BY <1>8 DEF TakeRefusal, BreakStream, ChangeNetwork, CloseOnError, RestartNetwork, app, local
    <2> QED
      BY <2>1, LoginsForget
  <1>9. CASE Relaunch
    <2>1. tasks' = <<>> /\ current' = auth /\ auth' = auth
      BY <1>9 DEF Relaunch, app
    <2>2. DOMAIN tasks' = {}
      BY <2>1
    <2> QED
      BY <2>1, <2>2 DEF Logins, Queued, Follows
  <1> QED
    BY <1>1, <1>2, <1>3, <1>4, <1>5, <1>6, <1>7, <1>8, <1>9
       DEF Next, Worker, Receive, Serve, FinishHandshake, TakeResult, EndBackoff, StopIdle,
           SendSnapshot, TakeSnapshot, AnswerHello, ApplyRequest, RefuseRequest, vars, app, local

\* The token at the head of the queue is of the current account.
LEMMA TokenIsOwn ==
    ASSUME Base, Logins, tasks # <<>>
    PROVE  /\ Head(tasks).kind = "token" => Head(tasks).account = current
           /\ Head(tasks).kind = "write" => Head(tasks).write.by = current
  <1>1. tasks \in Seq(Task) /\ 1 \in DOMAIN tasks /\ Head(tasks) = tasks[1]
    BY DEF Base, Types
  <1>2. \A u : Follows(tasks, current, 1, u) => u = current
    <2>1. \A j \in DOMAIN tasks : ~(j < 1)
      BY <1>1
    <2> QED
      BY <2>1 DEF Follows
  <1> QED
    BY <1>1, <1>2 DEF Logins, Queued

-----------------------------------------------------------------------------
(* The wire.                                                               *)

\* What is on the wire stays right when the queue grows behind it,
LEMMA TalksMore ==
    ASSUME NEW tc \in Seq(Reply), NEW ts \in Seq(Asked), NEW Q \in Seq(Batch), NEW R \in Seq(Batch),
           Talks(tc, ts, Q), Len(Q) <= Len(R), \A k \in 1..Len(Q) : R[k] = Q[k]
    PROVE  Talks(tc, ts, R)
  <1>1. ASSUME NEW k \in DOMAIN tc
        PROVE  /\ tc[k].kind # "hello" /\ k <= Len(R) /\ tc[k].write = R[k].write
               /\ tc[k].kind = "refusal" => k = Len(tc) /\ ts = <<>>
    <2>1. k \in 1..Len(Q) /\ tc[k].kind # "hello" /\ tc[k].write = Q[k].write
      BY DEF Talks
    <2> QED
      BY <2>1 DEF Talks
  <1>2. ASSUME NEW k \in DOMAIN ts
        PROVE  ts[k].kind # "hello" /\ Len(tc) + k <= Len(R) /\ ts[k].write = R[Len(tc) + k].write
    <2>1. Len(tc) + k \in 1..Len(Q) /\ ts[k].kind # "hello" /\ ts[k].write = Q[Len(tc) + k].write
      BY DEF Talks
    <2> QED
      BY <2>1
  <1> QED
    BY <1>1, <1>2 DEF Talks

\* when more of the queue is sent,
LEMMA TalksSent ==
    ASSUME NEW tc \in Seq(Reply), NEW ts \in Seq(Asked), NEW Q \in Seq(Batch), Talks(tc, ts, Q),
           \A k \in DOMAIN tc : tc[k].kind # "refusal",
           NEW d \in Nat, Len(tc) + Len(ts) + d <= Len(Q),
           NEW r \in Seq(Asked), Len(r) = Len(ts) + d,
           \A k \in 1..Len(ts) : r[k] = ts[k],
           \A k \in 1..d : r[Len(ts) + k] = Request(Q[Len(tc) + Len(ts) + k])
    PROVE  Talks(tc, r, Q)
  <1>1. Len(tc) \in Nat /\ Len(ts) \in Nat /\ Len(Q) \in Nat
    OBVIOUS
  <1>2. ASSUME NEW k \in DOMAIN r
        PROVE  r[k].kind # "hello" /\ Len(tc) + k <= Len(Q) /\ r[k].write = Q[Len(tc) + k].write
    <2>1. k \in 1..Len(ts) + d
      OBVIOUS
    <2>2. CASE k <= Len(ts)
      <3>1. k \in 1..Len(ts) /\ k \in DOMAIN ts /\ r[k] = ts[k]
        BY <1>1, <2>1, <2>2
      <3> QED
        BY <3>1 DEF Talks
    <2>3. CASE k > Len(ts)
      <3> DEFINE j == k - Len(ts)
      <3>1. j \in 1..d /\ Len(ts) + j = k /\ Len(tc) + Len(ts) + j = Len(tc) + k
        BY <1>1, <2>1, <2>3
      <3>2. r[k] = Request(Q[Len(tc) + k])
        <4>1. r[Len(ts) + j] = Request(Q[Len(tc) + Len(ts) + j])
          BY <3>1
        <4> QED
          BY <3>1, <4>1
      <3> QED
        BY <1>1, <2>1, <3>2 DEF Request
    <2> QED
      BY <1>1, <2>1, <2>2, <2>3
  <1> QED
    BY <1>2 DEF Talks

\* when the first answer is taken and the first batch dropped,
LEMMA TalksAnswered ==
    ASSUME NEW tc \in Seq(Reply), NEW ts \in Seq(Asked), NEW Q \in Seq(Batch), Talks(tc, ts, Q),
           tc # <<>>, Q # <<>>
    PROVE  Talks(Tail(tc), ts, Tail(Q))
  <1> DEFINE T == Tail(tc)
             R == Tail(Q)
  <1>1. /\ T \in Seq(Reply) /\ Len(T) = Len(tc) - 1 /\ Len(tc) \in Nat \ {0}
        /\ R \in Seq(Batch) /\ Len(R) = Len(Q) - 1 /\ Len(Q) \in Nat \ {0}
        /\ \A k \in 1..Len(T) : T[k] = tc[k + 1]
        /\ \A k \in 1..Len(R) : R[k] = Q[k + 1]
    OBVIOUS
  <1> HIDE DEF T, R
  <1>2. ASSUME NEW k \in DOMAIN T
        PROVE  /\ T[k].kind # "hello" /\ k <= Len(R) /\ T[k].write = R[k].write
               /\ T[k].kind = "refusal" => k = Len(T) /\ ts = <<>>
    <2>1. k \in 1..Len(T) /\ k + 1 \in DOMAIN tc /\ T[k] = tc[k + 1]
      BY <1>1, SMTT(30)
    <2>2. /\ tc[k + 1].kind # "hello" /\ k + 1 <= Len(Q) /\ tc[k + 1].write = Q[k + 1].write
          /\ tc[k + 1].kind = "refusal" => k + 1 = Len(tc) /\ ts = <<>>
      BY <2>1 DEF Talks
    <2>3. k \in 1..Len(R)
      BY <1>1, <2>1, <2>2
    <2>4. R[k] = Q[k + 1] /\ k <= Len(R)
      BY <1>1, <2>3
    <2> QED
      BY <1>1, <2>1, <2>2, <2>4
  <1>3. ASSUME NEW k \in DOMAIN ts
        PROVE  ts[k].kind # "hello" /\ Len(T) + k <= Len(R) /\ ts[k].write = R[Len(T) + k].write
    <2>1. ts[k].kind # "hello" /\ Len(tc) + k <= Len(Q) /\ ts[k].write = Q[Len(tc) + k].write
      BY DEF Talks
    <2>2. k \in Nat \ {0} /\ Len(T) \in Nat /\ Len(Q) \in Nat /\ Len(tc) \in Nat
      BY <1>1
    <2>3. Len(T) + k <= Len(R) /\ (Len(T) + k) + 1 = Len(tc) + k /\ Len(T) + k \in Nat \ {0}
      BY <1>1, <2>1, <2>2
    <2>4. Len(T) + k \in 1..Len(R)
      BY <1>1, <2>3
    <2>5. R[Len(T) + k] = Q[Len(tc) + k]
      BY <1>1, <2>3, <2>4
    <2> QED
      BY <2>1, <2>3, <2>5
  <1>4. Talks(T, ts, R)
    BY <1>2, <1>3 DEF Talks
  <1> QED
    BY <1>4 DEF T, R

\* and when the server answers.
LEMMA TalksReplied ==
    ASSUME NEW tc \in Seq(Reply), NEW ts \in Seq(Asked), NEW Q \in Seq(Batch), Talks(tc, ts, Q),
           \A k \in DOMAIN tc : tc[k].kind # "refusal", ts # <<>>,
           NEW r \in Reply, r.kind # "hello", r.write = ts[1].write
    PROVE  /\ r.kind # "refusal" => Talks(Append(tc, r), Tail(ts), Q)
           /\ Talks(Append(tc, r), <<>>, Q)
  <1> DEFINE A == Append(tc, r)
             T == Tail(ts)
  <1>1. /\ A \in Seq(Reply) /\ Len(A) = Len(tc) + 1 /\ Len(tc) \in Nat /\ A[Len(tc) + 1] = r
        /\ T \in Seq(Asked) /\ Len(T) = Len(ts) - 1 /\ Len(ts) \in Nat \ {0}
        /\ \A k \in 1..Len(tc) : A[k] = tc[k]
        /\ \A k \in 1..Len(T) : T[k] = ts[k + 1]
        /\ Len(Q) \in Nat
    OBVIOUS
  <1> HIDE DEF A, T
  <1>2. Len(tc) + 1 <= Len(Q) /\ r.write = Q[Len(tc) + 1].write
    <2>1. 1 \in DOMAIN ts
      BY <1>1
    <2> QED
      BY <2>1 DEF Talks
  <1>3. ASSUME NEW k \in DOMAIN A
        PROVE  /\ A[k].kind # "hello" /\ k <= Len(Q) /\ A[k].write = Q[k].write
               /\ A[k].kind = "refusal" => k = Len(A) /\ r.kind = "refusal"
    <2>1. CASE k = Len(tc) + 1
      BY <1>1, <1>2, <2>1
    <2>2. CASE k # Len(tc) + 1
      <3>1. k \in DOMAIN tc /\ A[k] = tc[k]
        BY <1>1, <2>2, SMTT(30)
      <3> QED
        BY <3>1 DEF Talks
    <2> QED
      BY <2>1, <2>2
  <1>4. ASSUME NEW k \in DOMAIN T
        PROVE  T[k].kind # "hello" /\ Len(A) + k <= Len(Q) /\ T[k].write = Q[Len(A) + k].write
    <2>1. k + 1 \in DOMAIN ts /\ T[k] = ts[k + 1] /\ Len(tc) + (k + 1) = Len(A) + k
      BY <1>1
    <2>2. /\ ts[k + 1].kind # "hello" /\ Len(tc) + (k + 1) <= Len(Q)
          /\ ts[k + 1].write = Q[Len(tc) + (k + 1)].write
      BY <2>1 DEF Talks
    <2> QED
      BY <2>1, <2>2
  <1>5. r.kind # "refusal" => Talks(A, T, Q)
    BY <1>3, <1>4 DEF Talks
  <1>6. Talks(A, <<>>, Q)
    <2>1. \A k \in DOMAIN <<>> : FALSE
      OBVIOUS
    <2> QED
      BY <1>3, <2>1 DEF Talks
  <1> QED
    BY <1>5, <1>6 DEF A, T

\* The wire is as it was, on the same stream or on one that is closed.
LEMMA WiresAlone ==
    ASSUME Base, Streams', UNCHANGED <<toServer, toClient, bearer>>,
           batches'[bearer] = batches[bearer],
           stream' = "Open" => stream = "Open" /\ UNCHANGED <<current, handshake, pipeline>>
    PROVE  Wires'
  <1>1. Greeting' \/ Talking'
    BY DEF Base, Wires, Greeting, Talking
  <1>2. CASE stream' = "Open"
    <2>1. Ended' <=> Ended
      BY DEF Ended
    <2> QED
      BY <1>1, <1>2, <2>1 DEF Base, Wires, Greeting, Talking
  <1>3. CASE stream' # "Open"
    <2>1. ~handshake'
      BY <1>3 DEF Streams
    <2> QED
      BY <1>1, <1>3, <2>1 DEF Wires
  <1> QED
    BY <1>2, <1>3

\* The pipeline does not shrink when the queue grows.
LEMMA FitGrows == \A n \in Nat : Fit(n) <= Fit(n + 1) /\ Fit(n) \in Nat /\ Fit(n + 1) \in Nat
  BY PendingAssumption DEF Fit

\* What is out on an open stream.
LEMMA WireFacts ==
    ASSUME Base
    PROVE  /\ toClient \in Seq(Reply) /\ toServer \in Seq(Asked)
           /\ Len(toClient) \in Nat /\ Len(toServer) \in Nat
           /\ bearer \in Account /\ current \in Account
           /\ QueueOf(batches[bearer]) \in Seq(Batch)
           /\ Ended <=> \E k \in DOMAIN toClient : toClient[k].kind = "refusal"
           /\ handshake => /\ Talking /\ bearer = current /\ stream = "Open"
                           /\ Len(toClient) + Len(toServer) <= Len(pipeline)
                           /\ ~Ended => Len(toClient) + Len(toServer) = Len(pipeline)
  <1>1. bearer \in Account /\ current \in Account /\ MutationQueue(batches[bearer])
        /\ toClient \in Seq(Reply) /\ toServer \in Seq(Asked)
    BY DEF Base, Types
  <1>2. QueueOf(batches[bearer]) \in Seq(Batch)
    BY <1>1, QueueLists DEF Lists
  <1>3. handshake => stream = "Open"
    BY DEF Base, Streams
  <1>4. handshake => /\ Talking /\ bearer = current
                     /\ Len(toClient) + Len(toServer) <= Len(pipeline)
                     /\ ~Ended => Len(toClient) + Len(toServer) = Len(pipeline)
    BY <1>3 DEF Base, Wires
  <1>5. Len(toClient) \in Nat /\ Len(toServer) \in Nat
    BY <1>1
  <1> QED
    BY <1>1, <1>2, <1>3, <1>4, <1>5 DEF Ended

\* A write that is run goes to the wire only behind what is there.
LEMMA WiresRunWrite ==
    ASSUME Base, RunWrite, Streams'
    PROVE  Wires'
  <1> DEFINE Q == QueueOf(batches[current])
             b == [id |-> nextId, write |-> Head(tasks).write]
             R == Append(Q, b)
             m == Fit(Len(Q))
             U == QueueOf(batches[bearer])
             V == QueueOf(batches'[bearer])
  <1>1. /\ b \in Batch /\ current' = current /\ QueueOf(batches'[current]) = R
        /\ \A u \in Account : u # current => batches'[u] = batches[u]
        /\ Fills(R, m, stream, asked)
    BY RunWriteEffect
  <1>2. bearer' = bearer /\ toClient' = toClient
    BY DEF RunWrite
  <1>3. Q \in Seq(Batch) /\ Len(pipeline) = m /\ Len(Q) \in Nat
    BY PipelineFacts
  <1>4. R \in Seq(Batch) /\ Len(R) = Len(Q) + 1 /\ \A k \in 1..Len(Q) : R[k] = Q[k]
    BY <1>1, <1>3
  <1>5. /\ toClient \in Seq(Reply) /\ toServer \in Seq(Asked)
        /\ Len(toClient) \in Nat /\ Len(toServer) \in Nat
        /\ bearer \in Account /\ U \in Seq(Batch)
    BY WireFacts
  <1>6. m \in Nat /\ Fit(Len(R)) \in Nat /\ m <= Fit(Len(R)) /\ Len(pipeline') = Fit(Len(R))
    BY <1>1, <1>3, <1>4, FitGrows DEF Fills
  <1>7. Ended' <=> Ended
    BY <1>2 DEF Ended
  <1> HIDE DEF b, R, m
  <1>8. /\ handshake' = (stream = "Open" /\ handshake)
        /\ ~(stream = "Open" /\ handshake) \/ Ended => toServer' = toServer
        /\ stream' = "Open" => stream = "Open"
    BY <1>1 DEF Fills, StartIfNeeded, IsStarted
  <1>9. stream = "Open" /\ handshake /\ ~Ended =>
            /\ toServer' \in Seq(Asked)
            /\ Len(toServer') = Len(toServer) + (Fit(Len(R)) - m)
            /\ \A k \in 1..Len(toServer) : toServer'[k] = toServer[k]
            /\ \A k \in 1..Fit(Len(R)) - m : toServer'[Len(toServer) + k] = Request(R[m + k])
    BY <1>1 DEF Fills
  <1>10. V \in Seq(Batch) /\ Len(U) <= Len(V) /\ \A k \in 1..Len(U) : V[k] = U[k]
    <2>1. CASE bearer = current
      BY <1>1, <1>3, <1>4, <2>1
    <2>2. CASE bearer # current
      BY <1>1, <1>5, <2>2
    <2> QED
      BY <2>1, <2>2
  <1>11. Talking <=> Talks(toClient, toServer, U)
    BY DEF Talking
  <1>12. Talking' <=> Talks(toClient, toServer', V)
    BY <1>2 DEF Talking
  <1> HIDE DEF Q, U, V
  <1>13. Talking => Talks(toClient, toServer, V)
    BY <1>5, <1>10, <1>11, TalksMore
  <1>14. CASE stream = "Open" /\ handshake /\ ~Ended
    <2>1. /\ Talking /\ bearer = current
          /\ Len(toClient) + Len(toServer) = m
          /\ \A k \in DOMAIN toClient : toClient[k].kind # "refusal"
      BY <1>3, <1>14, WireFacts
    <2>2. V = R
      BY <1>1, <2>1 DEF V
    <2> DEFINE d == Fit(Len(R)) - m
    <2>3. d \in Nat /\ Len(toServer') = Len(toServer) + d /\ toServer' \in Seq(Asked)
      BY <1>6, <1>9, <1>14
    <2>4. Len(toClient) + Len(toServer) + d <= Len(R)
      <3>1. Len(R) \in Nat /\ MaxPendingWrites \in Nat
        BY <1>3, <1>4, PendingAssumption
      <3>2. Fit(Len(R)) <= Len(R)
        BY <3>1 DEF Fit
      <3> HIDE DEF Q
      <3>3. Len(toClient) + Len(toServer) + d = Fit(Len(R))
        BY <1>5, <1>6, <2>1 DEF d
      <3> QED
        BY <3>2, <3>3
    <2>5. \A k \in 1..d : toServer'[Len(toServer) + k] = Request(R[Len(toClient) + Len(toServer) + k])
      BY <1>9, <1>14, <2>1
    <2>6. Talks(toClient, toServer, R)
      BY <1>13, <2>1, <2>2
    <2>7. \A k \in 1..Len(toServer) : toServer'[k] = toServer[k]
      BY <1>9, <1>14
    <2> HIDE DEF d
    <2>8. Talks(toClient, toServer', R)
      BY <1>4, <1>5, <2>1, <2>3, <2>4, <2>5, <2>6, <2>7, TalksSent
    <2>9. Talking'
      BY <1>12, <2>2, <2>8
    <2>10. Len(toClient) + Len(toServer') = Len(pipeline')
      BY <1>5, <1>6, <2>1, <2>3, SMTT(30) DEF d
    <2>11. Len(toClient') + Len(toServer') = Len(pipeline') /\ Len(pipeline') \in Nat
      BY <1>2, <1>6, <2>10
    <2>12. Len(toClient') + Len(toServer') <= Len(pipeline')
      BY <2>11
    <2> QED
      BY <1>1, <1>2, <1>8, <1>14, <2>1, <2>9, <2>11, <2>12 DEF Wires
  <1>15. CASE ~(stream = "Open" /\ handshake) \/ Ended
    <2>1. toServer' = toServer
      BY <1>8, <1>15
    <2>2. Talking => Talking'
      BY <1>12, <1>13, <2>1
    <2>3. Greeting => Greeting'
      BY <1>2, <2>1 DEF Greeting
    <2>4. handshake' => /\ Len(toClient') + Len(toServer') <= Len(pipeline')
                        /\ Ended'
      <3> SUFFICES ASSUME handshake' PROVE Len(toClient') + Len(toServer') <= Len(pipeline') /\ Ended'
        OBVIOUS
      <3>1. handshake /\ stream = "Open" /\ Ended
        BY <1>8, <1>15
      <3>2. Len(toClient) + Len(toServer) <= m
        BY <1>3, <3>1, WireFacts
      <3>3. Len(toClient) + Len(toServer) <= Len(pipeline')
        BY <1>5, <1>6, <3>2
      <3> QED
        BY <1>2, <1>7, <2>1, <3>1, <3>3
    <2>5. handshake' => handshake /\ stream = "Open" /\ Talking
      BY <1>8, WireFacts
    <2>6. stream' = "Open" /\ ~handshake' => stream = "Open" /\ ~handshake
      BY <1>8
    <2> QED
      BY <1>1, <1>2, <1>8, <2>2, <2>3, <2>4, <2>5, <2>6 DEF Base, Wires
  <1> QED
    BY <1>14, <1>15

\* A success leaves the wire with the rest of the pipeline.
LEMMA WiresTakeResult ==
    ASSUME Base, TakeResult, Streams'
    PROVE  Wires'
  <1> DEFINE Q == QueueOf(batches[current])
             R == Tail(Q)
             m == Fit(Len(Q)) - 1
             tc == Tail(toClient)
             d == Fit(Len(R)) - m
  <1>1. /\ Drops(Q) /\ Fills(R, m, stream, asked)
        /\ stream = "Open" /\ toClient # <<>> /\ toClient' = tc
        /\ toClient[1].kind = "result"
    BY TakeResultEffect
  <1>2. bearer' = bearer
    BY DEF TakeResult
  <1>3. handshake /\ Talking /\ bearer = current /\ Q # <<>>
    BY <1>1, AnswerFacts DEF TakeResult
  <1>4. Q \in Seq(Batch) /\ Len(pipeline) = Fit(Len(Q)) /\ Len(Q) \in Nat
    BY PipelineFacts
  <1>5. /\ toClient \in Seq(Reply) /\ toServer \in Seq(Asked)
        /\ Len(toClient) \in Nat /\ Len(toServer) \in Nat
        /\ Len(toClient) + Len(toServer) <= Fit(Len(Q))
        /\ ~Ended => Len(toClient) + Len(toServer) = Fit(Len(Q))
    BY <1>3, <1>4, WireFacts
  <1>6. /\ tc \in Seq(Reply) /\ Len(tc) = Len(toClient) - 1 /\ Len(toClient) \in Nat \ {0}
        /\ R \in Seq(Batch) /\ Len(R) = Len(Q) - 1 /\ Len(Q) \in Nat \ {0}
        /\ \A k \in 1..Len(tc) : tc[k] = toClient[k + 1]
    BY <1>1, <1>3, <1>4, <1>5
  <1>7. /\ QueueOf(batches'[current]) = R /\ current' = current
    BY <1>1 DEF Drops
  <1>8. Talks(toClient, toServer, Q)
    BY <1>3 DEF Talking
  <1> HIDE DEF Q, R, tc
  <1>9. Talks(tc, toServer, R)
    BY <1>1, <1>3, <1>4, <1>5, <1>8, TalksAnswered DEF R, tc
  <1>10. Talking' <=> Talks(tc, toServer', R)
    BY <1>1, <1>2, <1>3, <1>7 DEF Talking
  <1>11. /\ handshake' = handshake
         /\ Ended => toServer' = toServer
         /\ stream' = "Open"
         /\ Len(pipeline') = Fit(Len(R))
         /\ ~Ended =>
              /\ toServer' \in Seq(Asked)
              /\ Len(toServer') = Len(toServer) + d
              /\ \A k \in 1..Len(toServer) : toServer'[k] = toServer[k]
              /\ \A k \in 1..d : toServer'[Len(toServer) + k] = Request(R[m + k])
    BY <1>1, <1>3 DEF Fills, StartIfNeeded, IsStarted
  <1>12. Ended' <=> Ended
    <2>1. ASSUME NEW k \in DOMAIN toClient, toClient[k].kind = "refusal"
          PROVE  \E j \in DOMAIN tc : tc[j].kind = "refusal"
      <3>1. k \in 1..Len(toClient) /\ k # 1
        BY <1>1, <2>1
      <3>2. k - 1 \in 1..Len(tc) /\ (k - 1) + 1 = k
        BY <1>6, <3>1
      <3>3. tc[k - 1] = toClient[k] /\ k - 1 \in DOMAIN tc
        BY <1>6, <3>2
      <3> QED
        BY <2>1, <3>3
    <2>2. ASSUME NEW j \in DOMAIN tc, tc[j].kind = "refusal"
          PROVE  \E k \in DOMAIN toClient : toClient[k].kind = "refusal"
      <3>1. j \in 1..Len(tc) /\ j + 1 \in DOMAIN toClient
        BY <1>5, <1>6
      <3> QED
        BY <1>6, <2>2, <3>1
    <2> QED
      BY <1>1, <2>1, <2>2 DEF Ended
  <1>13. MaxPendingWrites \in Nat \ {0}
    BY PendingAssumption
  <1>14. /\ m \in Nat /\ d \in Nat /\ Fit(Len(R)) \in Nat /\ Fit(Len(R)) <= Len(R)
         /\ m + d = Fit(Len(R)) /\ Fit(Len(Q)) = m + 1
    <2>1. Len(R) \in Nat /\ Len(Q) \in Nat \ {0} /\ Len(R) = Len(Q) - 1
      BY <1>6
    <2>2. /\ Fit(Len(Q)) \in Nat \ {0} /\ Fit(Len(R)) \in Nat /\ Fit(Len(R)) <= Len(R)
          /\ Fit(Len(Q)) - 1 <= Fit(Len(R))
      BY <2>1, <1>13 DEF Fit
    <2> QED
      BY <2>2
  <1>15. Len(tc) \in Nat /\ Len(tc) + Len(toServer) <= m /\ (~Ended => Len(tc) + Len(toServer) = m)
    <2> HIDE DEF m
    <2> QED
      BY <1>5, <1>6, <1>14
  <1> HIDE DEF m, d
  <1>16. CASE Ended
    <2>1. Talking' /\ Len(toServer') = Len(toServer)
      BY <1>9, <1>10, <1>11, <1>16
    <2>2. Len(toClient') + Len(toServer') <= Len(pipeline')
      BY <1>1, <1>5, <1>11, <1>14, <1>15, <2>1
    <2> QED
      BY <1>2, <1>3, <1>7, <1>11, <1>12, <1>16, <2>1, <2>2 DEF Wires
  <1>17. CASE ~Ended
    <2>1. \A k \in DOMAIN tc : tc[k].kind # "refusal"
      BY <1>1, <1>12, <1>17 DEF Ended
    <2>2. \A k \in 1..d : toServer'[Len(toServer) + k] = Request(R[Len(tc) + Len(toServer) + k])
      BY <1>11, <1>15, <1>17
    <2>3. Len(tc) + Len(toServer) + d <= Len(R)
      BY <1>5, <1>6, <1>14, <1>15, <1>17
    <2>4. Talks(tc, toServer', R)
      BY <1>5, <1>6, <1>9, <1>11, <1>14, <1>17, <2>1, <2>2, <2>3, TalksSent
    <2>5. Talking'
      BY <1>10, <2>4
    <2>6. Len(toServer') = Len(toServer) + d
      BY <1>11, <1>17
    <2>7. Len(tc) + Len(toServer') = Fit(Len(R))
      BY <1>5, <1>14, <1>15, <1>17, <2>6, SMTT(30)
    <2>8. Len(toClient') + Len(toServer') = Len(pipeline') /\ Len(pipeline') \in Nat
      BY <1>1, <1>11, <1>14, <2>7
    <2>9. Len(toClient') + Len(toServer') <= Len(pipeline')
      BY <2>8
    <2> QED
      BY <1>2, <1>3, <1>7, <1>11, <2>5, <2>8, <2>9 DEF Wires
  <1> QED
    BY <1>16, <1>17

\* A refusal leaves a wire that the next stream resets.
LEMMA WiresTakeRefusal ==
    ASSUME Base, TakeRefusal, Streams'
    PROVE  Wires'
  <1> DEFINE Q == QueueOf(batches[current])
  <1>1. /\ Fills(Tail(Q), Fit(Len(Q)) - 1, "Initial", StaleTokens)
        /\ stream = "Open" /\ toClient # <<>> /\ toClient' = Tail(toClient)
        /\ toClient[1].kind = "refusal"
    BY TakeRefusalEffect
  <1>2. bearer' = bearer
    BY DEF TakeRefusal
  <1>3. Talking
    BY <1>1, AnswerFacts DEF TakeRefusal
  <1>4. toClient \in Seq(Reply) /\ Len(toClient) \in Nat
    BY WireFacts
  <1>5. 1 \in DOMAIN toClient
    BY <1>1, <1>4
  <1>6. Len(toClient) = 1 /\ toServer = <<>>
    BY <1>1, <1>3, <1>5 DEF Talking, Talks
  <1>7. toClient' = <<>>
    BY <1>1, <1>4, <1>6
  <1>8. toServer' = <<>> /\ stream' # "Open" /\ ~handshake'
    BY <1>1, <1>6 DEF Fills, StartIfNeeded, IsStarted
  <1>9. \A k \in DOMAIN <<>> : FALSE
    OBVIOUS
  <1>10. Talking'
    BY <1>7, <1>8, <1>9 DEF Talking, Talks
  <1> QED
    BY <1>8, <1>10 DEF Wires

\* After the handshake the whole pipeline is on the wire.
LEMMA WiresFinishHandshake ==
    ASSUME Base, FinishHandshake
    PROVE  Wires'
  <1> DEFINE Q == QueueOf(batches[current])
             R == Requests(pipeline)
  <1>1. /\ stream = "Open" /\ toClient # <<>> /\ Head(toClient).kind = "hello"
        /\ handshake' = TRUE /\ toClient' = Tail(toClient) /\ Send(R)
        /\ UNCHANGED <<local, pipeline, stream, bearer>>
    BY DEF FinishHandshake
  <1>2. toClient \in Seq(Reply) /\ 1 \in DOMAIN toClient /\ Head(toClient) = toClient[1]
    BY <1>1, WireFacts
  <1>3. ~Talking
    BY <1>1, <1>2 DEF Talking, Talks
  <1>4. Greeting /\ bearer = current
    BY <1>1, <1>3 DEF Base, Wires
  <1>5. toClient = <<Hello>> /\ toServer = <<>>
    BY <1>1, <1>4 DEF Greeting
  <1>6. toClient' = <<>> /\ ~Ended
    BY <1>1, <1>5 DEF Ended, Hello
  <1>7. /\ pipeline \in Seq(Batch) /\ Q \in Seq(Batch) /\ Len(Q) \in Nat
        /\ Len(pipeline) = Fit(Len(Q)) /\ Fit(Len(Q)) \in 0..Len(Q)
        /\ \A k \in 1..Fit(Len(Q)) : pipeline[k] = Q[k]
    BY PipelineFacts DEF Base, Types
  <1> HIDE DEF Q
  <1>8. /\ R \in Seq(Asked) /\ Len(R) = Fit(Len(Q))
        /\ \A k \in 1..Fit(Len(Q)) : R[k] = Request(Q[k])
    BY <1>7, RequestsOf
  <1> HIDE DEF R
  <1>9. toServer' = R
    BY <1>1, <1>5, <1>6, <1>8 DEF Send
  <1>10. Talks(<<>>, R, Q)
    <2>1. \A k \in DOMAIN <<>> : FALSE
      OBVIOUS
    <2>2. \A k \in DOMAIN R : R[k].kind # "hello" /\ k <= Len(Q) /\ R[k].write = Q[k].write
      <3> TAKE k \in DOMAIN R
      <3>1. k \in 1..Fit(Len(Q)) /\ Fit(Len(Q)) <= Len(Q) /\ Fit(Len(Q)) \in Nat
        BY <1>7, <1>8
      <3>2. R[k] = Request(Q[k])
        BY <1>8, <3>1
      <3> QED
        BY <1>7, <3>1, <3>2 DEF Request
    <2>3. Len(<<>>) = 0 /\ \A k \in DOMAIN R : 0 + k = k
      <3>1. DOMAIN R \subseteq Nat
        BY <1>8
      <3> QED
        BY <3>1
    <2> QED
      BY <2>1, <2>2, <2>3 DEF Talks
  <1>11. Talking' /\ bearer' = current'
    BY <1>1, <1>4, <1>6, <1>9, <1>10 DEF Talking, local, Q
  <1>12. Len(toClient') + Len(toServer') = Len(pipeline') /\ Len(pipeline') \in Nat
    <2>1. Len(toClient') = 0 /\ Len(toServer') = Fit(Len(Q)) /\ Len(pipeline') = Fit(Len(Q))
      BY <1>1, <1>6, <1>7, <1>8, <1>9
    <2> QED
      BY <1>7, <2>1
  <1>13. Len(toClient') + Len(toServer') <= Len(pipeline')
    BY <1>12
  <1> QED
    BY <1>1, <1>11, <1>12, <1>13 DEF Wires

\* The server answers in order.
LEMMA WiresServe ==
    ASSUME Base, Serve
    PROVE  Wires'
  <1>1. /\ UNCHANGED <<local, pipeline, stream, bearer, handshake>>
        /\ toServer # <<>> /\ Head(toServer).kind \in {"hello", "write"} /\ ~Ended
    BY DEF Serve, AnswerHello, ApplyRequest, RefuseRequest, Asks, remote
  <1>2. /\ toClient \in Seq(Reply) /\ toServer \in Seq(Asked)
        /\ Len(toClient) \in Nat /\ Len(toServer) \in Nat
        /\ QueueOf(batches[bearer]) \in Seq(Batch)
    BY WireFacts
  <1>3. 1 \in DOMAIN toServer /\ Head(toServer) = toServer[1] /\ toServer[1] \in Asked
    BY <1>1, <1>2
  <1>4. Head(toServer).kind = "hello" => Greeting /\ ~Talking /\ toServer = <<Hello>> /\ toClient = <<>>
    <2>1. Head(toServer).kind = "hello" => ~Talking
      BY <1>3 DEF Talking, Talks
    <2> QED
      BY <1>1, <2>1 DEF Base, Wires, Greeting
  <1>5. Head(toServer).kind = "write" => ~Greeting
    BY <1>1 DEF Greeting, Hello
  <1>6. CASE AnswerHello
    <2>1. /\ Head(toServer).kind = "hello" /\ toServer' = Tail(toServer)
          /\ toClient' = Append(toClient, Hello)
      BY <1>6 DEF AnswerHello, Asks
    <2>2. toServer' = <<>> /\ toClient' = <<Hello>>
      <3>1. Hello \in Reply /\ Hello \in Asked
        BY DEF Hello, Reply, Asked
      <3> HIDE DEF Hello
      <3>2. Tail(<<Hello>>) = <<>> /\ Append(<<>>, Hello) = <<Hello>>
        BY <3>1
      <3> QED
        BY <1>4, <2>1, <3>2
    <2>3. Greeting'
      BY <2>2 DEF Greeting
    <2>4. ~handshake
      BY <1>4, <2>1, WireFacts
    <2> QED
      BY <1>1, <2>3, <2>4 DEF Base, Wires, local
  <1>7. CASE ApplyRequest \/ RefuseRequest
    <2> DEFINE v == server[Head(toServer).write.by].version + 1
               r == IF ApplyRequest THEN [kind |-> "result", version |-> v, write |-> Head(toServer).write]
                    ELSE [kind |-> "refusal", write |-> Head(toServer).write]
    <2>1. Head(toServer).kind = "write" /\ Talking
      BY <1>5, <1>7 DEF ApplyRequest, RefuseRequest, Asks, Base, Wires
    <2>2. toServer[1].write \in Write
      BY <1>3, <2>1 DEF Asked
    <2>3. v \in Nat \ {0}
      <3>1. server \in [Account -> Document]
        BY DEF Base, Types
      <3>2. server[Head(toServer).write.by] \in Document
        BY <1>3, <2>2, <3>1 DEF Write
      <3>3. server[Head(toServer).write.by].version \in Nat
        BY <3>2 DEF Document
      <3> QED
        BY <3>3
    <2> HIDE DEF v
    <2>4. r \in Reply /\ r.kind # "hello" /\ r.write = toServer[1].write
      BY <1>3, <2>2, <2>3 DEF Reply
    <2>5. toClient' = Append(toClient, r)
      BY <1>7 DEF ApplyRequest, RefuseRequest, v
    <2>6. \/ r.kind # "refusal" /\ toServer' = Tail(toServer)
          \/ r.kind = "refusal" /\ toServer' = <<>>
      BY <1>7 DEF ApplyRequest, RefuseRequest
    <2>7. Talks(toClient, toServer, QueueOf(batches[bearer]))
      BY <2>1 DEF Talking
    <2>8. \A k \in DOMAIN toClient : toClient[k].kind # "refusal"
      BY <1>1 DEF Ended
    <2> HIDE DEF r
    <2>9. Talks(toClient', toServer', QueueOf(batches[bearer]))
      BY <1>1, <1>2, <2>4, <2>5, <2>6, <2>7, <2>8, TalksReplied
    <2>10. Talking'
      BY <1>1, <2>9 DEF Talking, local
    <2>11. /\ Len(toClient') = Len(toClient) + 1
           /\ Len(toServer) \in Nat \ {0}
           /\ r.kind # "refusal" => Len(toServer') = Len(toServer) - 1
           /\ r.kind = "refusal" => Len(toServer') = 0 /\ toClient'[Len(toClient) + 1].kind = "refusal"
           /\ Len(toClient) + 1 \in DOMAIN toClient'
      BY <1>1, <1>2, <2>4, <2>5, <2>6
    <2>12. r.kind = "refusal" => Ended'
      BY <2>11 DEF Ended
    <2>13. handshake => Len(toClient) + Len(toServer) = Len(pipeline)
      BY <1>1, WireFacts
    <2>14. handshake => /\ Len(toClient') + Len(toServer') <= Len(pipeline)
                        /\ r.kind # "refusal" => Len(toClient') + Len(toServer') = Len(pipeline)
      BY <1>2, <2>11, <2>13
    <2>15. stream = "Open" => bearer = current /\ handshake
      BY <1>5, <2>1 DEF Base, Wires
    <2> QED
      BY <1>1, <2>10, <2>12, <2>14, <2>15 DEF Wires, local
  <1> QED
    BY <1>6, <1>7 DEF Serve

\* A new stream starts with an empty wire and a handshake.
LEMMA WiresRunToken ==
    ASSUME Base, Logins, OneLive, RunToken, Streams'
    PROVE  Wires'
  <1>1. tasks # <<>> /\ Head(tasks).kind = "token" /\ tasks \in Seq(Task)
        /\ UNCHANGED local
    BY DEF RunToken, Base, Types
  <1>2. CASE ~Head(tasks).live
    <2>1. UNCHANGED <<remote, toServer, toClient>>
      BY <1>2 DEF RunToken
    <2> QED
      BY <1>1, <2>1, WiresAlone DEF remote, local
  <1>3. CASE Head(tasks).live /\ Head(tasks).ok
    <2>1. /\ stream' = "Open" /\ bearer' = Head(tasks).account
          /\ toServer' = <<Hello>> /\ toClient' = <<>> /\ handshake' = handshake
      BY <1>3 DEF RunToken
    <2>2. bearer' = current'
      BY <1>1, <2>1, TokenIsOwn DEF local
    <2>3. 1 \in Live(tasks)
      BY <1>1, <1>3, LiveTail
    <2>4. stream = "Starting"
      BY <2>3 DEF OneLive
    <2>5. ~handshake
      BY <2>4 DEF Base, Streams
    <2> QED
      BY <2>1, <2>2, <2>5 DEF Wires, Greeting
  <1>4. CASE Head(tasks).live /\ ~Head(tasks).ok
    <2>1. stream' # "Open" /\ UNCHANGED <<toServer, toClient, bearer>>
      BY <1>4 DEF RunToken, CloseOnError, StartIfNeeded, IsStarted
    <2> QED
      BY <1>1, <2>1, WiresAlone DEF local
  <1> QED
    BY <1>2, <1>3, <1>4

\* What is on the wire stays for the front of the queue of the account that opened the stream.
LEMMA WiresStep ==
    ASSUME Base, Logins, OneLive, [Next]_vars
    PROVE  Wires'
  <1>0. Streams'
    BY StreamsStep
  <1>1. CASE UNCHANGED <<toServer, toClient, bearer, batches, stream, current, handshake, pipeline>>
    BY <1>0, <1>1, WiresAlone
  <1>2. CASE RunWrite
    BY <1>0, <1>2, WiresRunWrite
  <1>3. CASE RunAccount \/ ChangeNetwork \/ Relaunch
    <2>1. /\ stream' = (IF pipeline' = <<>> THEN "Initial" ELSE "Starting")
          /\ UNCHANGED <<toServer, toClient, bearer, batches>>
      BY <1>3, Restarts
    <2>2. stream' # "Open"
      BY <2>1
    <2> QED
      BY <1>0, <2>1, <2>2, WiresAlone
  <1>4. CASE RunToken
    BY <1>0, <1>4, WiresRunToken
  <1>5. CASE BreakStream
    <2>1. stream' # "Open" /\ UNCHANGED <<toServer, toClient, bearer, local>>
      BY <1>5 DEF BreakStream, CloseOnError, StartIfNeeded, IsStarted
    <2> QED
      BY <1>0, <2>1, WiresAlone DEF local
  <1>6. CASE EndBackoff \/ StopIdle
    <2>1. stream' # "Open" /\ UNCHANGED <<toServer, toClient, bearer, local>>
      BY <1>6 DEF EndBackoff, StopIdle, wire
    <2> QED
      BY <1>0, <2>1, WiresAlone DEF local
  <1>7. CASE FinishHandshake
    BY <1>7, WiresFinishHandshake
  <1>8. CASE TakeResult
    BY <1>0, <1>8, WiresTakeResult
  <1>9. CASE TakeRefusal
    BY <1>0, <1>9, WiresTakeRefusal
  <1>10. CASE Serve
    BY <1>10, WiresServe
  <1>11. CASE MakeWrite \/ (\E u \in Account : ChangeLogin(u)) \/ SendSnapshot \/ TakeSnapshot
    <2>1. UNCHANGED <<toServer, toClient, bearer, batches, stream, current, handshake, pipeline>>
      BY <1>11 DEF MakeWrite, ChangeLogin, SendSnapshot, TakeSnapshot, local, remote, wire
    <2> QED
      BY <1>1, <2>1
  <1>12. ASSUME NEW age \in {"live", "stale"}, NEW ok \in BOOLEAN, AnswerToken(age, ok) PROVE Wires'
    <2>1. UNCHANGED <<toServer, toClient, bearer, batches, stream, current, handshake, pipeline>>
      BY <1>12 DEF AnswerToken, local, wire
    <2> QED
      BY <1>1, <2>1
  <1>13. CASE UNCHANGED vars
    <2>1. UNCHANGED <<toServer, toClient, bearer, batches, stream, current, handshake, pipeline>>
      BY <1>13 DEF vars, local, remote, wire
    <2> QED
      BY <1>1, <2>1
  <1> QED
    BY <1>2, <1>3, <1>4, <1>5, <1>6, <1>7, <1>8, <1>9, <1>10, <1>11, <1>12, <1>13
       DEF Next, Worker, Receive

-----------------------------------------------------------------------------
(* Together.                                                               *)

Inv == Base /\ Logins /\ OneLive

\* The control part of the invariant holds at the start,
LEMMA InitInv == Init => Inv
  <1> SUFFICES ASSUME Init PROVE Inv
    OBVIOUS
  <1>1. DOMAIN tasks = {}
    BY DEF Init
  <1>2. Logins
    BY <1>1 DEF Init, Logins, Queued, Follows
  <1>3. OneLive
    BY <1>1 DEF Init, OneLive, Live
  <1> QED
    BY <1>2, <1>3, InitBase DEF Inv

\* and after every step.
LEMMA InvStep == Inv /\ [Next]_vars => Inv'
  <1> SUFFICES ASSUME Inv, [Next]_vars PROVE Inv'
    OBVIOUS
  <1>1. Base /\ Logins /\ OneLive
    BY DEF Inv
  <1>2. Local' /\ Streams' /\ Wires'
    BY <1>1, LocalStep, StreamsStep, WiresStep
  <1>3. Logins' /\ OneLive'
    BY <1>1, LoginsStep, TokensStep
  <1> QED
    BY <1>2, <1>3 DEF Inv, Base, Local



-----------------------------------------------------------------------------
(* What the layers so far give.                                            *)

\* A batch is listed when it is stored.
LEMMA RangeOfQueue ==
    ASSUME NEW q, MutationQueue(q), NEW b
    PROVE  b \in Range(QueueOf(q)) <=>
               b \in Batch /\ b.id \in DOMAIN q /\ q[b.id] = b.write
  <1> DEFINE Q == QueueOf(q)
  <1>1. Lists(Q, q)
    BY QueueLists
  <1>2. Range(Q) = {Q[k] : k \in 1..Len(Q)} /\ Q \in Seq(Batch)
    BY <1>1 DEF Lists, Range
  <1> HIDE DEF Q
  <1>3. ASSUME b \in Range(Q) PROVE b \in Batch /\ b.id \in DOMAIN q /\ q[b.id] = b.write
    <2>1. PICK k \in 1..Len(Q) : b = Q[k]
      BY <1>2, <1>3
    <2>2. Q[k] \in Batch
      BY <1>2
    <2> QED
      BY <1>1, <2>1, <2>2 DEF Lists
  <1>4. ASSUME b \in Batch, b.id \in DOMAIN q, q[b.id] = b.write PROVE b \in Range(Q)
    <2>1. PICK k \in 1..Len(Q) : Q[k].id = b.id
      BY <1>1, <1>4 DEF Lists
    <2>2. Q[k] \in Batch /\ Q[k].write = q[Q[k].id]
      BY <1>1, <1>2 DEF Lists
    <2>3. Q[k] = b
      BY <1>4, <2>1, <2>2 DEF Batch
    <2> QED
      BY <1>2, <2>3
  <1> QED
    BY <1>3, <1>4 DEF Q

\* The type invariant,
LEMMA TypeOKHolds == Inv => TypeOK
  <1> SUFFICES ASSUME Inv PROVE TypeOK
    OBVIOUS
  <1>0. Types /\ Persisted
    BY DEF Inv, Base
  <1>1. Range(tasks) \subseteq Task /\ Range(pipeline) \subseteq Batch
    BY <1>0 DEF Types, Range
  <1>2. \A u \in Account : Range(QueueOf(batches[u])) \subseteq Batch
    <2> TAKE u \in Account
    <2>1. MutationQueue(batches[u])
      BY <1>0 DEF Types
    <2> QED
      BY <2>1, RangeOfQueue
  <1>3. callbacks \in [Account -> SUBSET (UNION {Range(QueueOf(batches[u])) : u \in Account})]
    <2>1. ASSUME NEW u \in Account, NEW c \in callbacks[u]
          PROVE  c \in UNION {Range(QueueOf(batches[v])) : v \in Account}
      <3>1. c \in Batch /\ MutationQueue(batches[u])
        BY <1>0 DEF Types
      <3>2. c.id \in DOMAIN batches[u] /\ batches[u][c.id] = c.write
        BY <1>0 DEF Persisted
      <3>3. c \in Range(QueueOf(batches[u]))
        BY <3>1, <3>2, RangeOfQueue
      <3> QED
        BY <3>3
    <2> QED
      BY <1>0, <2>1 DEF Types
  <1>4. DOMAIN batches = Account
    BY <1>0 DEF Types
  <1> QED
    BY <1>0, <1>1, <1>2, <1>3, <1>4 DEF Types, TypeOK, Task

\* the order of the pipeline,
LEMMA PipelineInOrderHolds == Inv => PipelineInOrder
  <1> SUFFICES ASSUME Inv PROVE PipelineInOrder
    OBVIOUS
  <1> DEFINE Q == QueueOf(batches[current])
  <1>1. Base
    BY DEF Inv
  <1>2. Q \in Seq(Batch) /\ pipeline = SubSeq(Q, 1, Fit(Len(Q))) /\ Len(pipeline) = Fit(Len(Q))
        /\ Fit(Len(Q)) \in 0..Len(Q) /\ Fit(Len(Q)) <= MaxPendingWrites
    BY <1>1, PipelineFacts
  <1> HIDE DEF Q
  <1>3. IsPrefix(pipeline, Q)
    BY <1>2 DEF IsPrefix
  <1> QED
    BY <1>2, <1>3 DEF PipelineInOrder, Q

\* that no batch is left without a stream,
LEMMA NeverStrandedHolds == Inv => NeverStranded
  <1> SUFFICES ASSUME Inv PROVE NeverStranded
    OBVIOUS
  <1>1. Base /\ Streams
    BY DEF Inv, Base
  <1>2. MutationQueue(batches[current]) /\ (pipeline = <<>> <=> QueueOf(batches[current]) = <<>>)
    BY <1>1, PipelineFacts
  <1>3. batches[current] = <<>> <=> QueueOf(batches[current]) = <<>>
    BY <1>2, QueueEmpty
  <1> QED
    BY <1>1, <1>2, <1>3 DEF NeverStranded, Streams

\* that one token is awaited,
LEMMA OneTokenHolds == Inv => OneTokenAwaited
  BY OneLiveIs DEF Inv, Base, Types

\* and that answers are for the first of the pipeline, all follow.
LEMMA AnswersMatchHolds == Inv => AnswersMatchPipeline
  <1> SUFFICES ASSUME Inv, stream = "Open", handshake PROVE AnswersMatchPipeline
    BY DEF AnswersMatchPipeline
  <1> DEFINE Q == QueueOf(batches[current])
             W == toClient \o toServer
             n == Len(toClient) + Len(toServer)
             out == [k \in DOMAIN W |-> W[k].write]
             due == [k \in DOMAIN pipeline |-> pipeline[k].write]
  <1>1. Base
    BY DEF Inv
  <1>2. /\ toClient \in Seq(Reply) /\ toServer \in Seq(Asked)
        /\ Len(toClient) \in Nat /\ Len(toServer) \in Nat
        /\ Talking /\ bearer = current
        /\ n <= Len(pipeline) /\ (~Ended => n = Len(pipeline))
    BY <1>1, WireFacts
  <1>3. Q \in Seq(Batch) /\ Len(pipeline) = Fit(Len(Q))
        /\ \A k \in 1..Fit(Len(Q)) : pipeline[k] = Q[k]
    BY <1>1, PipelineFacts
  <1>4. pipeline \in Seq(Batch)
    BY <1>1 DEF Base, Types
  <1>5. Talks(toClient, toServer, Q)
    BY <1>2 DEF Talking
  <1>6. /\ DOMAIN W = 1..n
        /\ \A k \in 1..Len(toClient) : W[k] = toClient[k]
        /\ \A k \in 1..Len(toServer) : W[Len(toClient) + k] = toServer[k]
    <2>1. toClient \in Seq(Asked \cup Reply) /\ toServer \in Seq(Asked \cup Reply)
      BY <1>2
    <2>2. W \in Seq(Asked \cup Reply) /\ Len(W) = n
          /\ (\A k \in 1..Len(toClient) : W[k] = toClient[k])
          /\ \A k \in 1..Len(toServer) : W[Len(toClient) + k] = toServer[k]
      BY <2>1, Joined
    <2> QED
      BY <2>2
  <1> HIDE DEF Q, W
  <1>7. \A k \in 1..n : W[k].write = Q[k].write
    <2> TAKE k \in 1..n
    <2>1. CASE k <= Len(toClient)
      <3>1. k \in 1..Len(toClient) /\ k \in DOMAIN toClient
        BY <1>2, <2>1
      <3> QED
        BY <1>5, <1>6, <3>1 DEF Talks
    <2>2. CASE k > Len(toClient)
      <3> DEFINE j == k - Len(toClient)
      <3>1. j \in 1..Len(toServer) /\ Len(toClient) + j = k
        BY <1>2, <2>2
      <3> HIDE DEF j
      <3>2. j \in DOMAIN toServer
        BY <1>2, <3>1
      <3>3. W[Len(toClient) + j] = toServer[j]
        BY <1>6, <3>1
      <3>4. toServer[j].write = Q[Len(toClient) + j].write
        BY <1>5, <3>2 DEF Talks
      <3> QED
        BY <3>1, <3>3, <3>4
    <2> QED
      BY <1>2, <2>1, <2>2
  <1>8. n \in Nat /\ Len(pipeline) \in Nat /\ n <= Len(pipeline)
    BY <1>2, <1>4
  <1> HIDE DEF n
  <1>9. \A k \in 1..n : W[k].write = pipeline[k].write
    <2> TAKE k \in 1..n
    <2>1. k \in 1..Fit(Len(Q))
      BY <1>3, <1>8
    <2> QED
      BY <1>3, <1>7, <2>1
  <1>10. DOMAIN pipeline = 1..Len(pipeline)
    BY <1>4
  <1>11. ~Ended => out = due
    BY <1>2, <1>6, <1>9, <1>10 DEF n
  <1>12. IsPrefix(out, due)
    <2>1. \A k \in 1..n : W[k].write \in {W[i].write : i \in 1..n}
      OBVIOUS
    <2>2. out = [k \in 1..n |-> W[k].write] /\ due = [k \in 1..Len(pipeline) |-> pipeline[k].write]
      BY <1>6, <1>10
    <2>3. \A k \in 1..Len(pipeline) : pipeline[k].write \in Write
      <3> TAKE k \in 1..Len(pipeline)
      <3>1. pipeline[k] \in Batch
        BY <1>4
      <3> QED
        BY <3>1 DEF Batch
    <2>4. due \in Seq(Write) /\ Len(due) = Len(pipeline)
      BY <1>8, <2>2, <2>3
    <2>5. out \in Seq(Write) /\ Len(out) = n
      <3>1. \A k \in 1..n : W[k].write \in Write
        BY <1>8, <1>9, <2>3
      <3> QED
        BY <1>8, <2>2, <3>1
    <2>6. \A k \in 1..n : out[k] = due[k]
      BY <1>8, <1>9, <2>2
    <2> HIDE DEF out, due
    <2>7. out = SubSeq(due, 1, Len(out))
      BY <1>8, <2>4, <2>5, <2>6
    <2> QED
      BY <1>8, <2>4, <2>5, <2>7 DEF IsPrefix
  <1> HIDE DEF out, due
  <1>13. IF Ended THEN IsPrefix(out, due) ELSE out = due
    BY <1>11, <1>12
  <1> QED
    BY <1>13 DEF AnswersMatchPipeline, out, due, W

-----------------------------------------------------------------------------
(* The numbers of the writes.                                              *)

\* A later tap is queued behind the earlier ones;
LEMMA TappedAppend ==
    ASSUME NEW ts \in Seq(Task), NEW t \in Task, Ordered(ts),
           t.kind = "write" => \A w \in Tapped(ts) : w.n < t.write.n
    PROVE  /\ Ordered(Append(ts, t))
           /\ \A w \in Tapped(Append(ts, t)) : w \in Tapped(ts) \/ (t.kind = "write" /\ w = t.write)
  <1> DEFINE A == Append(ts, t)
             n == Len(ts)
  <1>1. /\ DOMAIN A = 1..n + 1 /\ DOMAIN ts = 1..n /\ n \in Nat /\ A[n + 1] = t
        /\ \A k \in 1..n : A[k] = ts[k]
    OBVIOUS
  <1> HIDE DEF A, n
  <1>2. ASSUME NEW j \in DOMAIN A, NEW k \in DOMAIN A, j < k, A[j].kind = "write", A[k].kind = "write"
        PROVE  A[j].write.n < A[k].write.n
    <2>1. j \in DOMAIN ts /\ A[j] = ts[j]
      BY <1>1, <1>2
    <2>2. CASE k = n + 1
      <3>1. ts[j].write \in Tapped(ts)
        BY <1>2, <2>1 DEF Tapped
      <3> QED
        BY <1>1, <1>2, <2>1, <2>2, <3>1
    <2>3. CASE k # n + 1
      <3>1. k \in DOMAIN ts /\ A[k] = ts[k]
        BY <1>1, <2>3
      <3> QED
        BY <1>2, <2>1, <3>1 DEF Ordered
    <2> QED
      BY <2>2, <2>3
  <1>3. ASSUME NEW k \in DOMAIN A, A[k].kind = "write"
        PROVE  A[k].write \in Tapped(ts) \/ (t.kind = "write" /\ A[k].write = t.write)
    <2>1. CASE k = n + 1
      BY <1>1, <1>3, <2>1
    <2>2. CASE k # n + 1
      <3>1. k \in DOMAIN ts /\ A[k] = ts[k]
        BY <1>1, <2>2
      <3> QED
        BY <1>3, <3>1 DEF Tapped
    <2> QED
      BY <2>1, <2>2
  <1> QED
    BY <1>2, <1>3 DEF Ordered, Tapped, A

\* the first queued is the oldest;
LEMMA TappedTail ==
    ASSUME NEW ts \in Seq(Task), ts # <<>>, Ordered(ts)
    PROVE  /\ Ordered(Tail(ts)) /\ Tapped(Tail(ts)) \subseteq Tapped(ts)
           /\ Head(ts).kind = "write" =>
                 Head(ts).write \in Tapped(ts) /\ \A w \in Tapped(Tail(ts)) : Head(ts).write.n < w.n
  <1> DEFINE T == Tail(ts)
  <1>1. /\ DOMAIN T \subseteq Nat \ {0} /\ 1 \in DOMAIN ts /\ Head(ts) = ts[1]
        /\ \A k \in DOMAIN T : k + 1 \in DOMAIN ts /\ T[k] = ts[k + 1]
    OBVIOUS
  <1> HIDE DEF T
  <1>2. Ordered(T)
    BY <1>1 DEF Ordered
  <1>3. ASSUME NEW w \in Tapped(T)
        PROVE  w \in Tapped(ts) /\ (Head(ts).kind = "write" => Head(ts).write.n < w.n)
    <2>1. PICK k \in DOMAIN T : T[k].kind = "write" /\ w = T[k].write
      BY <1>3 DEF Tapped
    <2>2. k + 1 \in DOMAIN ts /\ ts[k + 1].kind = "write" /\ w = ts[k + 1].write /\ 1 < k + 1
      BY <1>1, <2>1
    <2> QED
      BY <1>1, <2>2 DEF Tapped, Ordered
  <1>4. Head(ts).kind = "write" => Head(ts).write \in Tapped(ts)
    BY <1>1 DEF Tapped
  <1> QED
    BY <1>2, <1>3, <1>4 DEF T

\* closing the stream leaves them;
LEMMA TappedForget ==
    ASSUME NEW ts \in Seq(Task), Ordered(ts)
    PROVE  Ordered(Forget(ts)) /\ Tapped(Forget(ts)) \subseteq Tapped(ts)
  <1> DEFINE F == Forget(ts)
  <1>1. /\ DOMAIN F = DOMAIN ts
        /\ \A k \in DOMAIN ts : F[k].kind = ts[k].kind /\ (ts[k].kind # "token" => F[k] = ts[k])
    <2>1. /\ F \in Seq(Task) /\ Len(F) = Len(ts)
          /\ \A k \in 1..Len(ts) : F[k].kind = ts[k].kind /\ (ts[k].kind # "token" => F[k] = ts[k])
      BY ForgetFacts
    <2> HIDE DEF F
    <2>2. DOMAIN F = 1..Len(ts) /\ DOMAIN ts = 1..Len(ts)
      BY <2>1
    <2> QED
      BY <2>1, <2>2
  <1> HIDE DEF F
  <1>2. Ordered(F)
    BY <1>1 DEF Ordered
  <1>3. \A w \in Tapped(F) : w \in Tapped(ts)
    BY <1>1 DEF Tapped
  <1> QED
    BY <1>2, <1>3 DEF F

\* and a relaunch leaves none.
LEMMA TappedEmpty == Ordered(<<>>) /\ Tapped(<<>>) = {}
  <1>1. DOMAIN <<>> = {}
    OBVIOUS
  <1> QED
    BY <1>1 DEF Ordered, Tapped

\* What waits to be persisted is a write.
LEMMA TappedWrites ==
    ASSUME Base
    PROVE  Tapped(tasks) \subseteq Write
  <1>1. tasks \in Seq(Task)
    BY DEF Base, Types
  <1>2. \A k \in DOMAIN tasks : tasks[k].kind = "write" => tasks[k].write \in Write
    <2> TAKE k \in DOMAIN tasks
    <2>1. tasks[k] \in Task
      BY <1>1
    <2> QED
      BY <2>1 DEF Task
  <1> QED
    BY <1>2 DEF Tapped

\* A step that leaves the queues and the histories alone.
LEMMA NumbersAlone ==
    ASSUME Numbers, UNCHANGED <<batches, told, applied, refused, issued>>,
           Acknowledged', Ordered(tasks'), Tapped(tasks') \subseteq Tapped(tasks)
    PROVE  Numbers'
  <1>1. \A w : Above(w) => Above(w)'
    BY DEF Above, Touched
  <1>2. QueueNumbers' /\ TouchedNumbers'
    BY DEF Numbers, QueueNumbers, TouchedNumbers, Touched, IsQueued
  <1>3. Ordered(tasks)' /\ \A w \in Tapped(tasks)' : Above(w)'
    BY <1>1 DEF Numbers, Ordered, Tapped
  <1> QED
    BY <1>2, <1>3 DEF Numbers

-----------------------------------------------------------------------------
(* How the numbers change.                                                 *)

\* A tap gets a number above all others.
LEMMA NumbersMakeWrite ==
    ASSUME Base, Numbers, MakeWrite
    PROVE  Numbers'
  <1>1. /\ tasks' = Append(tasks, [kind |-> "write", write |-> [by |-> auth, n |-> issued + 1]])
        /\ issued' = issued + 1 /\ issued + 1 \in 1..MaxWrites
        /\ UNCHANGED <<batches, told, applied, refused, toClient>>
    BY WriteBoundAssumption DEF MakeWrite, local, wire, history, Base, Types
  <1>2. tasks \in Seq(Task) /\ auth \in Account /\ issued \in Nat
    BY DEF Base, Types
  <1>3. PICK w \in Write : w = [by |-> auth, n |-> issued + 1]
    BY <1>1, <1>2 DEF Write
  <1>16. PICK t \in Task : t = [kind |-> "write", write |-> w]
    BY DEF Task
  <1>17. t.kind = "write" /\ t.write = w /\ w.n = issued + 1 /\ tasks' = Append(tasks, t)
    BY <1>1, <1>3, <1>16
  <1>4. \A v \in Write : v.n \in Nat
    BY DEF Write
  <1>5. \A v \in Tapped(tasks) : v \in Write /\ v.n < issued + 1
    <2> TAKE v \in Tapped(tasks)
    <2>1. v \in Write /\ v.n <= issued
      BY TappedWrites DEF Numbers, Above
    <2> QED
      BY <1>2, <1>4, <2>1
  <1>6. Ordered(tasks') /\ \A v \in Tapped(tasks') : v \in Tapped(tasks) \/ v = w
    BY <1>2, <1>5, <1>17, TappedAppend DEF Numbers
  <1>7. \A v \in Tapped(tasks) : Above(v)'
    <2> TAKE v \in Tapped(tasks)
    <2>1. Above(v) /\ v.n <= issued + 1
      BY <1>2, <1>4, <1>5 DEF Numbers
    <2> QED
      BY <1>1, <2>1 DEF Above, Touched
  <1>8. \A u \in Account : \A i \in DOMAIN batches[u] :
            batches[u][i] \in Write /\ batches[u][i].n < issued + 1 /\ batches[u][i].n <= issued + 1
    <2> TAKE u \in Account
    <2> TAKE i \in DOMAIN batches[u]
    <2>1. batches[u][i] \in Write
      BY DEF Base, Types, MutationQueue
    <2>2. batches[u][i].n <= issued
      BY DEF Numbers, QueueNumbers
    <2> QED
      BY <1>2, <1>4, <2>1, <2>2
  <1>9. \A v \in Write : Touched(v) => v.n < issued + 1 /\ v.n <= issued + 1
    <2> TAKE v \in Write
    <2>1. Touched(v) => v.n <= issued
      BY DEF Numbers, TouchedNumbers
    <2> QED
      BY <1>2, <1>4, <2>1
  <1>10. Above(w)'
    BY <1>1, <1>2, <1>8, <1>9, <1>17 DEF Above, Touched
  <1>11. QueueNumbers'
    BY <1>1, <1>8 DEF Numbers, QueueNumbers
  <1>12. TouchedNumbers'
    BY <1>1, <1>9 DEF Numbers, TouchedNumbers, Touched, IsQueued
  <1>13. Acknowledged'
    BY <1>1 DEF Numbers, Acknowledged
  <1>14. \A v \in Tapped(tasks') : Above(v)'
    BY <1>6, <1>7, <1>10
  <1>15. \A v \in Tapped(tasks)' : Above(v)'
    BY <1>14 DEF Tapped
  <1> QED
    BY <1>6, <1>11, <1>12, <1>13, <1>15 DEF Numbers, Ordered

\* Other tasks bring no numbers.
LEMMA NumbersAppend ==
    ASSUME Base, Numbers, NEW t \in Task, t.kind # "write", tasks' = Append(tasks, t),
           UNCHANGED <<batches, told, applied, refused, issued, toClient>>
    PROVE  Numbers'
  <1>1. tasks \in Seq(Task) /\ Ordered(tasks)
    BY DEF Base, Types, Numbers
  <1>2. Ordered(tasks') /\ Tapped(tasks') \subseteq Tapped(tasks)
    BY <1>1, TappedAppend
  <1>3. Acknowledged'
    BY DEF Numbers, Acknowledged
  <1> QED
    BY <1>2, <1>3, NumbersAlone

\* The worker persists the write at the head of its queue.
LEMMA NumbersRunWrite ==
    ASSUME Base, Logins, Numbers, RunWrite
    PROVE  Numbers'
  <1> DEFINE Q == QueueOf(batches[current])
             b == [id |-> nextId, write |-> Head(tasks).write]
             w == b.write
  <1>1. /\ b \in Batch /\ current' = current
        /\ batches' = [batches EXCEPT ![current] = With(batches[current], nextId, w)]
        /\ \A u \in Account : u # current => batches'[u] = batches[u]
    BY RunWriteEffect
  <1>2. /\ tasks # <<>> /\ Head(tasks).kind = "write" /\ tasks' = Tail(tasks)
        /\ UNCHANGED <<told, applied, refused, issued, toClient>>
    BY DEF RunWrite, app, history
  <1>3. /\ tasks \in Seq(Task) /\ current \in Account /\ nextId \in Nat \ {0} /\ issued \in Nat
        /\ batches = [u \in Account |-> batches[u]] /\ Ordered(tasks)
    BY DEF Base, Types, Numbers
  <1>4. w = Head(tasks).write /\ w.by = current
    BY <1>2, TokenIsOwn
  <1>5. /\ Ordered(tasks') /\ Tapped(tasks') \subseteq Tapped(tasks)
        /\ w \in Tapped(tasks) /\ \A v \in Tapped(tasks') : w.n < v.n
    BY <1>2, <1>3, <1>4, TappedTail
  <1>6. w \in Write
    BY <1>5, TappedWrites
  <1>7. /\ DOMAIN batches'[current] = DOMAIN batches[current] \cup {nextId}
        /\ batches'[current][nextId] = w
        /\ \A i \in DOMAIN batches[current] : i < nextId /\ batches'[current][i] = batches[current][i]
    <2>1. batches'[current] = With(batches[current], nextId, w)
      BY <1>1, <1>3
    <2>2. \A i \in DOMAIN batches[current] : i < nextId /\ i \in Nat
      BY <1>3 DEF Base, Persisted, Types, MutationQueue
    <2> QED
      BY <1>3, <2>1, <2>2 DEF With
  <1>8. Above(w) /\ \A v \in Tapped(tasks') : Above(v)
    BY <1>5 DEF Numbers
  <1> HIDE DEF b, w
  <1>9. \A v \in Tapped(tasks') : Above(v)'
    <2> TAKE v \in Tapped(tasks')
    <2>1. \A u \in Account : \A i \in DOMAIN batches'[u] : batches'[u][i].n < v.n
      BY <1>1, <1>5, <1>7, <1>8 DEF Above
    <2> QED
      BY <1>2, <1>8, <2>1 DEF Above, Touched
  <1>10. QueueNumbers'
    <2> SUFFICES ASSUME NEW u \in Account, NEW i \in DOMAIN batches'[u]
                 PROVE  /\ batches'[u][i].by = u /\ batches'[u][i].n <= issued
                        /\ \A j \in DOMAIN batches'[u] : i < j => batches'[u][i].n < batches'[u][j].n
      BY <1>2 DEF QueueNumbers
    <2>1. CASE u # current
      BY <1>1, <2>1 DEF Numbers, QueueNumbers
    <2>2. CASE u = current /\ i = nextId
      <3>1. \A j \in DOMAIN batches'[u] : ~(i < j)
        <4>1. \A j \in DOMAIN batches[current] : j \in Nat
          BY <1>3 DEF Base, Types, MutationQueue
        <4> QED
          BY <1>3, <1>7, <2>2, <4>1
      <3> QED
        BY <1>4, <1>7, <1>8, <2>2, <3>1 DEF Above
    <2>3. CASE u = current /\ i # nextId
      <3>1. i \in DOMAIN batches[current]
        BY <1>7, <2>3
      <3>2. ASSUME NEW j \in DOMAIN batches'[u], i < j PROVE batches'[u][i].n < batches'[u][j].n
        <4>1. CASE j = nextId
          BY <1>7, <1>8, <2>3, <3>1, <4>1 DEF Above
        <4>2. CASE j # nextId
          BY <1>7, <2>3, <3>1, <3>2, <4>2 DEF Numbers, QueueNumbers
        <4> QED
          BY <4>1, <4>2
      <3> QED
        BY <1>7, <2>3, <3>1, <3>2 DEF Numbers, QueueNumbers
    <2> QED
      BY <2>1, <2>2, <2>3
  <1>11. TouchedNumbers'
    <2> SUFFICES ASSUME NEW v \in Write, Touched(v)
                 PROVE  /\ v.n <= issued
                        /\ \/ told[v] = "nothing" /\ v \notin refused /\ IsQueued(v)'
                           \/ \A i \in DOMAIN batches'[v.by] : v.n < batches'[v.by][i].n
      BY <1>2 DEF TouchedNumbers, Touched
    <2>1. v.by \in Account /\ v.n < w.n /\ v.n <= issued
      BY <1>8 DEF Above, Write, Numbers, TouchedNumbers
    <2>2. CASE told[v] = "nothing" /\ v \notin refused /\ IsQueued(v)
      <3>1. IsQueued(v)'
        BY <1>1, <1>7, <2>1, <2>2 DEF IsQueued
      <3> QED
        BY <2>1, <2>2, <3>1
    <2>3. CASE \A i \in DOMAIN batches[v.by] : v.n < batches[v.by][i].n
      <3>1. \A i \in DOMAIN batches'[v.by] : v.n < batches'[v.by][i].n
        BY <1>1, <1>7, <2>1, <2>3
      <3> QED
        BY <2>1, <3>1
    <2> QED
      BY <2>2, <2>3 DEF Numbers, TouchedNumbers
  <1>12. Acknowledged'
    BY <1>2 DEF Numbers, Acknowledged
  <1>13. \A v \in Tapped(tasks)' : Above(v)'
    BY <1>9 DEF Tapped
  <1> QED
    BY <1>5, <1>10, <1>11, <1>12, <1>13 DEF Numbers, Ordered

\* The callback of the batch that leaves is the one of its write.
LEMMA NotifiesFirst ==
    ASSUME Base, NEW Q, Q = QueueOf(batches[current]), Drops(Q),
           NEW outcome \in {"ok", "refused"}, NotifyUser(Q[1].id, outcome)
    PROVE  \A w \in Write : told'[w] # told[w] => told'[w] = outcome /\ w = Q[1].write
  <1>1. /\ \A w \in Write : told'[w] # told[w] =>
               told'[w] = outcome /\ \E c \in callbacks[current] : c.id = Q[1].id /\ c.write = w
    BY NotifyEffect
  <1>2. \A c \in callbacks[current] : c.id \in DOMAIN batches[current] /\ batches[current][c.id] = c.write
    BY DEF Base, Persisted, Types
  <1>3. batches[current][Q[1].id] = Q[1].write
    BY DEF Drops
  <1> QED
    BY <1>1, <1>2, <1>3

\* The batch that leaves is older than the others of its account.
LEMMA FirstIsOldest ==
    ASSUME Base, Numbers, NEW Q, Q = QueueOf(batches[current]), Drops(Q)
    PROVE  /\ Q[1].write \in Write /\ Q[1].write.by = current /\ Q[1].write.n <= issued
           /\ IsQueued(Q[1].write)
           /\ \A i \in DOMAIN batches'[current] : Q[1].write.n < batches[current][i].n
  <1>1. /\ Q[1] \in Batch /\ Q[1].id \in DOMAIN batches[current]
        /\ batches[current][Q[1].id] = Q[1].write
        /\ DOMAIN batches'[current] = DOMAIN batches[current] \ {Q[1].id}
    BY DEF Drops
  <1>2. current \in Account /\ MutationQueue(batches[current])
    BY DEF Base, Types
  <1>3. Q[1].write \in Write /\ Q[1].write.by = current /\ Q[1].write.n <= issued
    BY <1>1, <1>2 DEF Batch, Numbers, QueueNumbers
  <1>4. Lists(Q, batches[current])
    BY <1>2, QueueLists
  <1>5. ASSUME NEW i \in DOMAIN batches'[current]
        PROVE  Q[1].write.n < batches[current][i].n
    <2>1. i \in DOMAIN batches[current] /\ i # Q[1].id
      BY <1>1
    <2>2. PICK k \in 1..Len(Q) : Q[k].id = i
      BY <1>4, <2>1 DEF Lists
    <2>3. k # 1 /\ Len(Q) \in Nat
      BY <1>4, <2>1, <2>2 DEF Lists
    <2>4. 1 \in 1..Len(Q) /\ 1 < k
      BY <2>2, <2>3
    <2>5. Q[1].id < i
      BY <1>4, <2>2, <2>4 DEF Lists
    <2> QED
      BY <1>1, <1>2, <2>1, <2>5 DEF Numbers, QueueNumbers
  <1> QED
    BY <1>1, <1>3, <1>5 DEF IsQueued

\* The first batch is answered.
LEMMA NumbersDrop ==
    ASSUME Base, Numbers, NEW Q, Q = QueueOf(batches[current]), Drops(Q),
           NEW outcome \in {"ok", "refused"}, NotifyUser(Q[1].id, outcome),
           issued' = issued, applied' = applied,
           \A w \in refused' : w \in refused \/ w = Q[1].write, refused \subseteq refused',
           Q[1].write \in applied \/ Q[1].write \in refused',
           tasks' = tasks \/ tasks' = Forget(tasks), toClient # <<>>, toClient' = Tail(toClient)
    PROVE  Numbers'
  <1>0. /\ tasks \in Seq(Task) /\ current \in Account /\ toClient \in Seq(Reply)
        /\ \A v \in Write : v.n \in Nat /\ v.by \in Account
    BY DEF Base, Types, Write
  <1>1. \A w \in Write : told'[w] # told[w] => w = Q[1].write
    BY NotifiesFirst
  <1>2. /\ Q[1].write \in Write /\ Q[1].write.by = current /\ Q[1].write.n <= issued
        /\ IsQueued(Q[1].write)
        /\ \A i \in DOMAIN batches'[current] : Q[1].write.n < batches[current][i].n
    BY FirstIsOldest
  <1>3. /\ DOMAIN batches'[current] = DOMAIN batches[current] \ {Q[1].id}
        /\ \A i \in DOMAIN batches'[current] : batches'[current][i] = batches[current][i]
        /\ \A u \in Account : u # current => batches'[u] = batches[u]
        /\ Q[1].id \in DOMAIN batches[current] /\ batches[current][Q[1].id] = Q[1].write
    BY DEF Drops
  <1> DEFINE first == Q[1].write
  <1>4. /\ first \in Write /\ first.by = current /\ first.n <= issued
        /\ \A i \in DOMAIN batches'[current] : first.n < batches'[current][i].n
        /\ \A u \in Account : \A i \in DOMAIN batches'[u] :
              i \in DOMAIN batches[u] /\ batches'[u][i] = batches[u][i]
        /\ \A u \in Account : \A i \in DOMAIN batches[u] :
              batches[u][i] # first => i \in DOMAIN batches'[u]
        /\ Q[1].id \in DOMAIN batches[current] /\ batches[current][Q[1].id] = first
    BY <1>2, <1>3
  <1>5. \A w \in Write : /\ w # first => told'[w] = told[w] /\ (w \in refused' <=> w \in refused)
                         /\ w # first /\ Touched(w)' => Touched(w)
    BY <1>1 DEF Touched
  <1> HIDE DEF first
  <1>6. Ordered(tasks') /\ Tapped(tasks') \subseteq Tapped(tasks)
    BY <1>0, TappedForget DEF Numbers
  <1>7. \A w \in Tapped(tasks') : Above(w)'
    <2> TAKE w \in Tapped(tasks')
    <2>1. Above(w)
      BY <1>6 DEF Numbers
    <2>2. first.n < w.n
      BY <1>0, <1>4, <2>1 DEF Above
    <2>3. \A u \in Account : \A i \in DOMAIN batches'[u] : batches'[u][i].n < w.n
      BY <1>4, <2>1 DEF Above
    <2>4. \A v \in Write : Touched(v)' => v.n < w.n
      BY <1>5, <2>1, <2>2 DEF Above
    <2> QED
      BY <2>1, <2>3, <2>4 DEF Above
  <1>8. QueueNumbers'
    BY <1>4 DEF Numbers, QueueNumbers
  <1>9. TouchedNumbers'
    <2> SUFFICES ASSUME NEW v \in Write, Touched(v)'
                 PROVE  /\ v.n <= issued
                        /\ \/ told'[v] = "nothing" /\ v \notin refused' /\ IsQueued(v)'
                           \/ \A i \in DOMAIN batches'[v.by] : v.n < batches'[v.by][i].n
      BY DEF TouchedNumbers
    <2>1. CASE v = first
      BY <1>4, <2>1
    <2>2. CASE v # first
      <3>1. /\ v.n <= issued
            /\ \/ told[v] = "nothing" /\ v \notin refused /\ IsQueued(v)
               \/ \A i \in DOMAIN batches[v.by] : v.n < batches[v.by][i].n
        BY <1>5, <2>2 DEF Numbers, TouchedNumbers
      <3>2. CASE told[v] = "nothing" /\ v \notin refused /\ IsQueued(v)
        <4>1. IsQueued(v)'
          BY <1>0, <1>4, <2>2, <3>2 DEF IsQueued
        <4> QED
          BY <1>5, <2>2, <3>1, <3>2, <4>1
      <3>3. CASE \A i \in DOMAIN batches[v.by] : v.n < batches[v.by][i].n
        BY <1>0, <1>4, <3>1, <3>3
      <3> QED
        BY <3>1, <3>2, <3>3
    <2> QED
      BY <2>1, <2>2
  <1>10. Acknowledged'
    <2>1. \A k \in DOMAIN toClient' : k + 1 \in DOMAIN toClient /\ toClient'[k] = toClient[k + 1]
      BY <1>0
    <2> QED
      BY <2>1 DEF Numbers, Acknowledged
  <1>11. \A w \in Tapped(tasks)' : Above(w)'
    BY <1>7 DEF Tapped
  <1> QED
    BY <1>6, <1>8, <1>9, <1>10, <1>11 DEF Numbers, Ordered

\* The request at the head of the wire is for a batch still queued.
LEMMA RequestIsQueued ==
    ASSUME Base, Numbers, toServer # <<>>, Head(toServer).kind = "write"
    PROVE  /\ Head(toServer).write \in Write /\ Head(toServer).write.by = bearer
           /\ IsQueued(Head(toServer).write)
           /\ Head(toServer).write.n <= issued
           /\ Len(toClient) + 1 \in 1..Len(QueueOf(batches[bearer]))
           /\ Head(toServer).write = QueueOf(batches[bearer])[Len(toClient) + 1].write
  <1> DEFINE Q == QueueOf(batches[bearer])
             w == Head(toServer).write
  <1>1. /\ toClient \in Seq(Reply) /\ toServer \in Seq(Asked)
        /\ Len(toClient) \in Nat /\ Len(toServer) \in Nat /\ bearer \in Account
    BY WireFacts
  <1>2. 1 \in DOMAIN toServer /\ Head(toServer) = toServer[1] /\ Head(toServer) \in Asked
    BY <1>1
  <1>3. Talking
    BY DEF Base, Wires, Greeting, Hello
  <1>4. Len(toClient) + 1 <= Len(Q) /\ w = Q[Len(toClient) + 1].write
    BY <1>2, <1>3 DEF Talking, Talks
  <1>5. MutationQueue(batches[bearer])
    BY <1>1 DEF Base, Types
  <1>6. Lists(Q, batches[bearer])
    BY <1>5, QueueLists
  <1>7. Len(Q) \in Nat
    BY <1>6 DEF Lists
  <1> HIDE DEF Q
  <1>8. Len(toClient) + 1 \in 1..Len(Q)
    BY <1>1, <1>4, <1>7
  <1>9. Q[Len(toClient) + 1].id \in DOMAIN batches[bearer]
        /\ batches[bearer][Q[Len(toClient) + 1].id] = w
    BY <1>4, <1>6, <1>8 DEF Lists
  <1>10. w \in Write
    BY <1>2 DEF Asked
  <1>11. w.by = bearer /\ w.n <= issued
    BY <1>1, <1>9 DEF Numbers, QueueNumbers
  <1> QED
    BY <1>4, <1>8, <1>9, <1>10, <1>11 DEF IsQueued, Q

\* The server applies a write that is still queued.
LEMMA NumbersApply ==
    ASSUME Base, Numbers, ApplyRequest
    PROVE  Numbers'
  <1> DEFINE w == Head(toServer).write
  <1>1. toServer # <<>> /\ Head(toServer).kind = "write"
    BY DEF ApplyRequest, Asks
  <1>2. /\ applied' = applied \cup {w}
        /\ toClient' = Append(toClient, [kind |-> "result", version |-> server[w.by].version + 1, write |-> w])
        /\ UNCHANGED <<batches, tasks, told, refused, issued>>
    BY DEF ApplyRequest, app, local, history
  <1>3. w \in Write /\ w.by = bearer /\ IsQueued(w) /\ w.n <= issued
    BY <1>1, RequestIsQueued
  <1>4. toClient \in Seq(Reply) /\ bearer \in Account
    BY DEF Base, Types
  <1> HIDE DEF w
  <1>5. \A v \in Write : Touched(v)' => Touched(v) \/ v = w
    BY <1>2 DEF Touched
  <1>6. \A v \in Tapped(tasks) : Above(v)'
    <2> TAKE v \in Tapped(tasks)
    <2>1. Above(v)
      BY DEF Numbers
    <2>2. w.n < v.n
      BY <1>3, <1>4, <2>1 DEF Above, IsQueued
    <2> QED
      BY <1>2, <1>5, <2>1, <2>2 DEF Above
  <1>7. QueueNumbers'
    BY <1>2 DEF Numbers, QueueNumbers
  <1>8. TouchedNumbers'
    <2> SUFFICES ASSUME NEW v \in Write, Touched(v)'
                 PROVE  /\ v.n <= issued
                        /\ \/ told[v] = "nothing" /\ v \notin refused /\ IsQueued(v)
                           \/ \A i \in DOMAIN batches[v.by] : v.n < batches[v.by][i].n
      BY <1>2 DEF TouchedNumbers, IsQueued
    <2>1. CASE Touched(v)
      BY <2>1 DEF Numbers, TouchedNumbers
    <2>2. CASE v = w /\ ~Touched(v)
      BY <1>3, <2>2 DEF Touched
    <2> QED
      BY <1>5, <2>1, <2>2
  <1>9. Acknowledged'
    <2> DEFINE r == [kind |-> "result", version |-> server[w.by].version + 1, write |-> w]
    <2>1. toClient' = Append(toClient, r) /\ r.write = w
      BY <1>2
    <2> HIDE DEF r
    <2>2. \A k \in DOMAIN toClient' : toClient'[k] = r \/ (k \in DOMAIN toClient /\ toClient'[k] = toClient[k])
      BY <1>4, <2>1
    <2> QED
      BY <1>2, <2>1, <2>2 DEF Numbers, Acknowledged
  <1>10. Ordered(tasks)' /\ \A v \in Tapped(tasks)' : Above(v)'
    BY <1>2, <1>6 DEF Numbers, Ordered, Tapped
  <1> QED
    BY <1>7, <1>8, <1>9, <1>10 DEF Numbers

\* Every step preserves the order of the numbers.
LEMMA NumbersStep ==
    ASSUME Inv, Numbers, [Next]_vars
    PROVE  Numbers'
  <1>0. /\ Base /\ Logins /\ tasks \in Seq(Task) /\ toClient \in Seq(Reply)
        /\ Ordered(tasks) /\ Acknowledged
    BY DEF Inv, Base, Types, Numbers
  <1>a. toClient' = toClient /\ applied' = applied => Acknowledged'
    BY <1>0 DEF Acknowledged
  <1>b. toClient' = <<>> => Acknowledged'
    <2>1. DOMAIN <<>> = {}
      OBVIOUS
    <2> QED
      BY <2>1 DEF Acknowledged
  <1>c. tasks # <<>> =>
          /\ Ordered(Tail(tasks)) /\ Tapped(Tail(tasks)) \subseteq Tapped(tasks)
          /\ Ordered(Forget(Tail(tasks))) /\ Tapped(Forget(Tail(tasks))) \subseteq Tapped(tasks)
    <2> SUFFICES ASSUME tasks # <<>>
                 PROVE  /\ Ordered(Tail(tasks)) /\ Tapped(Tail(tasks)) \subseteq Tapped(tasks)
                        /\ Ordered(Forget(Tail(tasks)))
                        /\ Tapped(Forget(Tail(tasks))) \subseteq Tapped(tasks)
      OBVIOUS
    <2>1. Ordered(Tail(tasks)) /\ Tapped(Tail(tasks)) \subseteq Tapped(tasks)
      BY <1>0, TappedTail
    <2>2. Tail(tasks) \in Seq(Task)
      BY <1>0
    <2> QED
      BY <2>1, <2>2, TappedForget
  <1>1. CASE UNCHANGED <<tasks, batches, told, applied, refused, issued, toClient>>
    BY <1>0, <1>1, <1>a, NumbersAlone
  <1>2. CASE MakeWrite
    BY <1>0, <1>2, NumbersMakeWrite
  <1>3. ASSUME NEW u \in Account, ChangeLogin(u) PROVE Numbers'
    <2> DEFINE t == [kind |-> "account", account |-> u]
    <2>1. t \in Task /\ t.kind # "write"
      BY DEF Task
    <2>2. tasks' = Append(tasks, t) /\ UNCHANGED <<batches, told, applied, refused, issued, toClient>>
      BY <1>3 DEF ChangeLogin, local, wire, history
    <2> HIDE DEF t
    <2> QED
      BY <1>0, <2>1, <2>2, NumbersAppend
  <1>4. ASSUME NEW age \in {"live", "stale"}, NEW ok \in BOOLEAN, AnswerToken(age, ok) PROVE Numbers'
    <2> DEFINE t == [kind |-> "token", live |-> age = "live", ok |-> ok, account |-> auth]
    <2>1. t \in Task /\ t.kind # "write"
      BY <1>0 DEF Task, Base, Types
    <2>2. tasks' = Append(tasks, t) /\ UNCHANGED <<batches, told, applied, refused, issued, toClient>>
      BY <1>4 DEF AnswerToken, app, local, wire, history
    <2> HIDE DEF t
    <2> QED
      BY <1>0, <2>1, <2>2, NumbersAppend
  <1>5. CASE RunWrite
    BY <1>0, <1>5, NumbersRunWrite
  <1>6. CASE RunAccount
    <2>1. /\ tasks # <<>> /\ tasks' = Forget(Tail(tasks))
          /\ UNCHANGED <<batches, told, applied, refused, issued, toClient>>
      BY <1>6 DEF RunAccount, RestartNetwork, app, history
    <2> QED
      BY <2>1, <1>a, <1>c, NumbersAlone
  <1>7. CASE RunToken
    <2>1. /\ tasks # <<>>
          /\ tasks' = Tail(tasks) \/ tasks' = Forget(Tail(tasks))
          /\ UNCHANGED <<batches, told, applied, refused, issued>>
          /\ toClient' = toClient \/ toClient' = <<>>
      BY <1>7 DEF RunToken, CloseOnError, app, local, history
    <2>2. Ordered(tasks') /\ Tapped(tasks') \subseteq Tapped(tasks)
      BY <2>1, <1>c
    <2>3. Acknowledged'
      BY <2>1, <1>a, <1>b
    <2> QED
      BY <2>1, <2>2, <2>3, NumbersAlone
  <1>8. CASE FinishHandshake
    <2>1. /\ toClient # <<>> /\ toClient' = Tail(toClient)
          /\ UNCHANGED <<tasks, batches, told, applied, refused, issued>>
      BY <1>8 DEF FinishHandshake, app, local, history
    <2>2. \A k \in DOMAIN toClient' : k + 1 \in DOMAIN toClient /\ toClient'[k] = toClient[k + 1]
      BY <1>0, <2>1
    <2>3. Acknowledged'
      BY <1>0, <2>1, <2>2 DEF Acknowledged
    <2> QED
      BY <1>0, <2>1, <2>3, NumbersAlone
  <1>9. CASE TakeResult
    <2> DEFINE Q == QueueOf(batches[current])
    <2>1. /\ Drops(Q) /\ NotifyUser(Q[1].id, "ok")
          /\ toClient # <<>> /\ toClient[1].kind = "result"
          /\ toClient[1].write = Q[1].write /\ toClient' = Tail(toClient)
      BY <1>0, <1>9, TakeResultEffect
    <2>2. UNCHANGED <<tasks, issued, applied, refused>>
      BY <1>9 DEF TakeResult, app
    <2>3. 1 \in DOMAIN toClient
      BY <1>0, <2>1
    <2>4. Q[1].write \in applied
      BY <1>0, <2>1, <2>3 DEF Acknowledged
    <2> HIDE DEF Q
    <2>5. Q = QueueOf(batches[current])
      BY DEF Q
    <2> QED
      BY <1>0, <2>1, <2>2, <2>4, <2>5, NumbersDrop
  <1>10. CASE TakeRefusal
    <2> DEFINE Q == QueueOf(batches[current])
    <2>1. /\ Drops(Q) /\ NotifyUser(Q[1].id, "refused")
          /\ refused' = refused \cup {Q[1].write}
          /\ toClient # <<>> /\ toClient' = Tail(toClient)
      BY <1>0, <1>10, TakeRefusalEffect
    <2>2. UNCHANGED <<issued, applied>> /\ tasks' = Forget(tasks)
      BY <1>10 DEF TakeRefusal, app
    <2> HIDE DEF Q
    <2>5. Q = QueueOf(batches[current])
      BY DEF Q
    <2> QED
      BY <1>0, <2>1, <2>2, <2>5, NumbersDrop
  <1>11. CASE BreakStream \/ ChangeNetwork
    <2>1. tasks' = Forget(tasks) /\ UNCHANGED <<batches, told, applied, refused, issued, toClient>>
      BY <1>11 DEF BreakStream, ChangeNetwork, CloseOnError, RestartNetwork, app, local, history
    <2>2. Ordered(tasks') /\ Tapped(tasks') \subseteq Tapped(tasks)
      BY <1>0, <2>1, TappedForget
    <2> QED
      BY <2>1, <2>2, <1>a, NumbersAlone
  <1>12. CASE Relaunch
    <2>1. tasks' = <<>> /\ UNCHANGED <<batches, told, applied, refused, issued, toClient>>
      BY <1>12 DEF Relaunch, app, history
    <2>2. Ordered(tasks') /\ Tapped(tasks') \subseteq Tapped(tasks)
      BY <2>1, TappedEmpty
    <2> QED
      BY <2>1, <2>2, <1>a, NumbersAlone
  <1>13. CASE ApplyRequest
    BY <1>0, <1>13, NumbersApply
  <1>14. CASE AnswerHello \/ RefuseRequest
    <2> DEFINE r == IF AnswerHello THEN Hello ELSE [kind |-> "refusal", write |-> Head(toServer).write]
    <2>1. /\ toClient' = Append(toClient, r) /\ r.kind # "result"
          /\ UNCHANGED <<tasks, batches, told, applied, refused, issued>>
      BY <1>14 DEF AnswerHello, RefuseRequest, Hello, app, local, history
    <2> HIDE DEF r
    <2>2. \A k \in DOMAIN toClient' : toClient'[k] = r \/ (k \in DOMAIN toClient /\ toClient'[k] = toClient[k])
      BY <1>0, <2>1
    <2>3. Acknowledged'
      BY <1>0, <2>1, <2>2 DEF Acknowledged
    <2> QED
      BY <1>0, <2>1, <2>3, NumbersAlone
  <1>15. CASE EndBackoff \/ StopIdle \/ SendSnapshot \/ TakeSnapshot \/ UNCHANGED vars
    <2>1. UNCHANGED <<tasks, batches, told, applied, refused, issued, toClient>>
      BY <1>15 DEF EndBackoff, StopIdle, SendSnapshot, TakeSnapshot, vars, app, local, wire, history
    <2> QED
      BY <1>1, <2>1
  <1> QED
    BY <1>2, <1>3, <1>4, <1>5, <1>6, <1>7, <1>8, <1>9, <1>10, <1>11, <1>12, <1>13, <1>14, <1>15
       DEF Next, Worker, Receive, Serve

\* There are no numbers at the start.
LEMMA InitNumbers == Init => Numbers
  <1> SUFFICES ASSUME Init PROVE Numbers
    OBVIOUS
  <1>1. /\ tasks = <<>> /\ toClient = <<>> /\ applied = {} /\ refused = {}
        /\ \A u \in Account : batches[u] = <<>>
        /\ \A w \in Write : told[w] = "nothing"
    BY DEF Init
  <1>2. DOMAIN <<>> = {}
    OBVIOUS
  <1>3. \A w \in Write : ~Touched(w)
    BY <1>1 DEF Touched
  <1> QED
    BY <1>1, <1>2, <1>3, TappedEmpty DEF Numbers, QueueNumbers, TouchedNumbers, Acknowledged

\* Each callback is called once, and with success only for a write applied.
LEMMA CallbacksStep ==
    ASSUME Base, Numbers, [Next]_vars
    PROVE  \A w \in Write : told'[w] # told[w] =>
               told[w] = "nothing" /\ (told'[w] = "ok" => w \in applied)
  <1> DEFINE Q == QueueOf(batches[current])
  <1>1. CASE told' = told
    BY <1>1
  <1>2. ASSUME NEW outcome \in {"ok", "refused"}, Drops(Q), NotifyUser(Q[1].id, outcome),
               outcome = "ok" => Q[1].write \in applied
        PROVE  \A w \in Write : told'[w] # told[w] =>
                   told[w] = "nothing" /\ (told'[w] = "ok" => w \in applied)
    <2>1. \A w \in Write : told'[w] # told[w] => told'[w] = outcome /\ w = Q[1].write
      BY <1>2, NotifiesFirst
    <2>2. Q[1].write \in Write /\ Q[1].write.by = current /\ IsQueued(Q[1].write)
      BY <1>2, FirstIsOldest
    <2>3. Q[1].write.n \in Nat
      BY <2>2 DEF Write
    <2>4. told[Q[1].write] = "nothing"
      BY <2>2, <2>3 DEF Numbers, TouchedNumbers, IsQueued, Touched
    <2> QED
      BY <1>2, <2>1, <2>4
  <1>3. CASE TakeResult
    <2>1. /\ Drops(Q) /\ NotifyUser(Q[1].id, "ok")
          /\ toClient # <<>> /\ toClient[1].kind = "result" /\ toClient[1].write = Q[1].write
      BY <1>3, TakeResultEffect
    <2>2. toClient \in Seq(Reply)
      BY DEF Base, Types
    <2>3. Q[1].write \in applied
      BY <2>1, <2>2 DEF Numbers, Acknowledged
    <2> QED
      BY <1>2, <2>1, <2>3
  <1>4. CASE TakeRefusal
    <2>1. Drops(Q) /\ NotifyUser(Q[1].id, "refused")
      BY <1>4, TakeRefusalEffect
    <2> QED
      BY <1>2, <2>1
  <1> QED
    BY <1>1, <1>3, <1>4
       DEF Next, MakeWrite, ChangeLogin, AnswerToken, Worker, RunWrite, RunAccount, RunToken,
           Receive, FinishHandshake, BreakStream, EndBackoff, StopIdle, ChangeNetwork, Relaunch,
           SendSnapshot, TakeSnapshot, Serve, AnswerHello, ApplyRequest, RefuseRequest, vars, history

\* The writes of an account are sent under its own token.
LEMMA SentAsOwnerHolds == Inv /\ Numbers => SentAsOwner
  <1> SUFFICES ASSUME Inv, Numbers PROVE SentAsOwner
    OBVIOUS
  <1>1. stream = "Open" => bearer = current
    BY DEF Inv, Base, Wires
  <1>2. ASSUME NEW u \in Account, NEW b \in Range(QueueOf(batches[u])) PROVE b.write.by = u
    <2>1. MutationQueue(batches[u])
      BY DEF Inv, Base, Types
    <2>2. b.id \in DOMAIN batches[u] /\ batches[u][b.id] = b.write
      BY <2>1, RangeOfQueue
    <2> QED
      BY <2>2 DEF Numbers, QueueNumbers
  <1> QED
    BY <1>1, <1>2 DEF SentAsOwner

-----------------------------------------------------------------------------
(* The documents.                                                          *)

\* Taking an answer leaves the others in order.
LEMMA ResultsTail ==
    ASSUME NEW tc \in Seq(Reply), tc # <<>>, NEW s, NEW d
    PROVE  /\ Results(tc, s) => Results(Tail(tc), s)
           /\ Ahead(d, tc) => Ahead(d, Tail(tc))
  <1> DEFINE T == Tail(tc)
  <1>1. /\ DOMAIN T = 1..Len(tc) - 1 /\ DOMAIN tc = 1..Len(tc) /\ Len(tc) \in Nat
        /\ \A k \in 1..Len(tc) - 1 : T[k] = tc[k + 1]
    OBVIOUS
  <1> HIDE DEF T
  <1>2. \A k \in DOMAIN T : k \in Nat /\ k + 1 \in DOMAIN tc /\ T[k] = tc[k + 1]
    BY <1>1
  <1>3. \A j \in DOMAIN tc : j # 1 => j - 1 \in DOMAIN T /\ T[j - 1] = tc[j] /\ j \in Nat
    <2> TAKE j \in DOMAIN tc
    <2> HAVE j # 1
    <2>1. j - 1 \in 1..Len(tc) - 1 /\ (j - 1) + 1 = j /\ j \in Nat
      BY <1>1
    <2>2. T[j - 1] = tc[(j - 1) + 1]
      BY <1>1, <2>1
    <2> QED
      BY <1>1, <2>1, <2>2
  <1>4. ASSUME Results(tc, s), NEW k \in DOMAIN T, T[k].kind = "result"
        PROVE  /\ T[k].version <= s.version
               /\ \A j \in DOMAIN T : k < j /\ T[j].kind = "result" => T[k].version < T[j].version
               /\ (\A j \in DOMAIN T : k < j => T[j].kind # "result") =>
                     s = [version |-> T[k].version, n |-> T[k].write.n]
    <2>1. /\ k + 1 \in DOMAIN tc /\ T[k] = tc[k + 1] /\ k \in Nat
      BY <1>2
    <2>2. /\ T[k].version <= s.version
          /\ \A j \in DOMAIN tc : k + 1 < j /\ tc[j].kind = "result" => T[k].version < tc[j].version
          /\ (\A j \in DOMAIN tc : k + 1 < j => tc[j].kind # "result") =>
                s = [version |-> T[k].version, n |-> T[k].write.n]
      BY <1>4, <2>1 DEF Results
    <2>3. \A j \in DOMAIN T : k < j /\ T[j].kind = "result" => T[k].version < T[j].version
      <3> TAKE j \in DOMAIN T
      <3>1. j + 1 \in DOMAIN tc /\ T[j] = tc[j + 1] /\ j \in Nat
        BY <1>2
      <3>2. k < j => k + 1 < j + 1
        BY <2>1, <3>1
      <3> QED
        BY <2>2, <3>1, <3>2
    <2>4. ASSUME \A j \in DOMAIN T : k < j => T[j].kind # "result"
          PROVE  \A j \in DOMAIN tc : k + 1 < j => tc[j].kind # "result"
      <3> TAKE j \in DOMAIN tc
      <3> HAVE k + 1 < j
      <3>1. j \in Nat
        BY <1>1
      <3>2. j # 1 /\ k < j - 1
        BY <2>1, <3>1
      <3>3. j - 1 \in DOMAIN T /\ T[j - 1] = tc[j]
        BY <1>3, <3>2
      <3> QED
        BY <2>4, <3>2, <3>3
    <2> QED
      BY <2>2, <2>3, <2>4
  <1>5. Results(tc, s) => Results(T, s)
    BY <1>4 DEF Results
  <1>6. Ahead(d, tc) => Ahead(d, T)
    BY <1>2 DEF Ahead
  <1> QED
    BY <1>5, <1>6 DEF T

\* The answers after another one is added.
LEMMA Appended ==
    ASSUME NEW tc \in Seq(Reply), NEW r \in Reply
    PROVE  /\ DOMAIN Append(tc, r) = DOMAIN tc \cup {Len(tc) + 1} /\ Len(tc) \in Nat
           /\ Append(tc, r)[Len(tc) + 1] = r
           /\ \A k \in DOMAIN tc : k < Len(tc) + 1 /\ Append(tc, r)[k] = tc[k] /\ k \in Nat
  <1> DEFINE A == Append(tc, r)
  <1>1. /\ DOMAIN A = 1..Len(tc) + 1 /\ DOMAIN tc = 1..Len(tc) /\ Len(tc) \in Nat
        /\ A[Len(tc) + 1] = r /\ \A k \in 1..Len(tc) : A[k] = tc[k]
    OBVIOUS
  <1> HIDE DEF A
  <1>2. 1..Len(tc) + 1 = (1..Len(tc)) \cup {Len(tc) + 1} /\ \A k \in 1..Len(tc) : k < Len(tc) + 1 /\ k \in Nat
    BY <1>1
  <1> QED
    BY <1>1, <1>2 DEF A

\* A handshake or a refusal is no success.
LEMMA ResultsOther ==
    ASSUME NEW tc \in Seq(Reply), NEW r \in Reply, r.kind # "result", NEW s, NEW d
    PROVE  /\ Results(tc, s) => Results(Append(tc, r), s)
           /\ Ahead(d, tc) => Ahead(d, Append(tc, r))
  <1> DEFINE A == Append(tc, r)
  <1>1. /\ DOMAIN A = DOMAIN tc \cup {Len(tc) + 1} /\ A[Len(tc) + 1] = r
        /\ \A k \in DOMAIN tc : A[k] = tc[k]
    BY Appended
  <1> HIDE DEF A
  <1>2. Results(tc, s) => Results(A, s)
    BY <1>1 DEF Results
  <1>3. Ahead(d, tc) => Ahead(d, A)
    BY <1>1 DEF Ahead
  <1> QED
    BY <1>2, <1>3 DEF A

\* A success is of the version the server has just written.
LEMMA ResultsGrow ==
    ASSUME NEW tc \in Seq(Reply), NEW s \in Document, NEW v \in Nat, v = s.version + 1,
           NEW r \in Reply, r.kind = "result", r.version = v,
           NEW t, t = [version |-> v, n |-> r.write.n]
    PROVE  /\ Results(tc, s) => Results(Append(tc, r), t)
           /\ \A d \in Document \cup {NoSnapshot} :
                 d.version <= s.version /\ Ahead(d, tc) => Ahead(d, Append(tc, r))
  <1> DEFINE A == Append(tc, r)
  <1>1. /\ DOMAIN A = DOMAIN tc \cup {Len(tc) + 1} /\ A[Len(tc) + 1] = r /\ Len(tc) \in Nat
        /\ \A k \in DOMAIN tc : k < Len(tc) + 1 /\ A[k] = tc[k] /\ k \in Nat
    BY Appended
  <1>2. \A k \in DOMAIN tc : tc[k].kind = "result" => tc[k].version \in Nat
    <2> TAKE k \in DOMAIN tc
    <2>1. tc[k] \in Reply
      OBVIOUS
    <2> QED
      BY <2>1 DEF Reply
  <1>3. s.version \in Nat
    BY DEF Document
  <1> HIDE DEF A
  <1>4. ASSUME Results(tc, s), NEW k \in DOMAIN A, A[k].kind = "result"
        PROVE  /\ A[k].version <= t.version
               /\ \A j \in DOMAIN A : k < j /\ A[j].kind = "result" => A[k].version < A[j].version
               /\ (\A j \in DOMAIN A : k < j => A[j].kind # "result") =>
                     t = [version |-> A[k].version, n |-> A[k].write.n]
    <2>1. CASE k = Len(tc) + 1
      <3>1. A[k] = r /\ A[k].version = v /\ t.version = v
        BY <1>1, <2>1
      <3>2. \A j \in DOMAIN A : ~(k < j)
        BY <1>1, <2>1
      <3> QED
        BY <3>1, <3>2
    <2>2. CASE k # Len(tc) + 1
      <3>1. k \in DOMAIN tc /\ A[k] = tc[k]
        BY <1>1, <2>2
      <3>2. tc[k].version \in Nat /\ tc[k].version <= s.version
        BY <1>2, <1>4, <3>1 DEF Results
      <3>3. tc[k].version < v
        BY <1>3, <3>2
      <3>4. \A j \in DOMAIN A : k < j /\ A[j].kind = "result" => A[k].version < A[j].version
        <4> TAKE j \in DOMAIN A
        <4>1. CASE j = Len(tc) + 1
          BY <1>1, <3>1, <3>3, <4>1
        <4>2. CASE j # Len(tc) + 1
          BY <1>1, <1>4, <3>1, <4>2 DEF Results
        <4> QED
          BY <4>1, <4>2
      <3>5. k < Len(tc) + 1 /\ Len(tc) + 1 \in DOMAIN A /\ A[Len(tc) + 1].kind = "result"
        BY <1>1, <3>1
      <3>6. A[k].version <= t.version
        BY <3>1, <3>2, <3>3
      <3> QED
        BY <3>4, <3>5, <3>6
    <2> QED
      BY <2>1, <2>2
  <1>5. ASSUME NEW d \in Document \cup {NoSnapshot}, d.version <= s.version, Ahead(d, tc)
        PROVE  Ahead(d, A)
    <2>1. d.version \in Int
      BY DEF Document, NoSnapshot
    <2>2. ~(d.version >= v)
      BY <1>3, <1>5, <2>1
    <2> QED
      BY <1>1, <1>5, <2>2 DEF Ahead
  <1>6. Results(tc, s) => Results(A, t)
    BY <1>4 DEF Results
  <1> QED
    BY <1>5, <1>6 DEF A

\* The numbers grow along a queue.
LEMMA QueueIsOrdered ==
    ASSUME Base, Numbers, NEW u \in Account
    PROVE  /\ QueueOf(batches[u]) \in Seq(Batch)
           /\ \A j, k \in 1..Len(QueueOf(batches[u])) :
                 j <= k => QueueOf(batches[u])[j].write.n <= QueueOf(batches[u])[k].write.n
  <1> DEFINE Q == QueueOf(batches[u])
  <1>1. Lists(Q, batches[u])
    <2>1. MutationQueue(batches[u])
      BY DEF Base, Types
    <2> QED
      BY <2>1, QueueLists
  <1>2. Q \in Seq(Batch)
    BY <1>1 DEF Lists
  <1> HIDE DEF Q
  <1>3. ASSUME NEW j \in 1..Len(Q), NEW k \in 1..Len(Q), j <= k
        PROVE  Q[j].write.n <= Q[k].write.n
    <2>1. Q[j] \in Batch /\ Q[k] \in Batch
      BY <1>2
    <2>2. Q[j].write.n \in Nat /\ Q[k].write.n \in Nat
      BY <2>1 DEF Batch, Write
    <2>3. CASE j < k
      <3>1. /\ Q[j].id \in DOMAIN batches[u] /\ batches[u][Q[j].id] = Q[j].write
            /\ Q[k].id \in DOMAIN batches[u] /\ batches[u][Q[k].id] = Q[k].write
            /\ Q[j].id < Q[k].id
        BY <1>1, <2>3 DEF Lists
      <3>2. Q[j].write.n < Q[k].write.n
        BY <3>1 DEF Numbers, QueueNumbers
      <3> QED
        BY <2>2, <3>2
    <2>4. CASE j = k
      BY <2>2, <2>4
    <2> QED
      BY <1>3, <2>3, <2>4
  <1> QED
    BY <1>2, <1>3 DEF Q

\* The server holds the write of the last success on the wire, which is not
\* older than those of the others.
LEMMA ServerHoldsLast ==
    ASSUME Base, Numbers, Results(toClient, server[bearer]),
           NEW k \in DOMAIN toClient, toClient[k].kind = "result"
    PROVE  toClient[k].write.n <= server[bearer].n /\ toClient[k].write \in Write
  <1> DEFINE Q == QueueOf(batches[bearer])
             L == Len(toClient)
             last == IF toClient[L].kind = "refusal" THEN L - 1 ELSE L
  <1>1. toClient \in Seq(Reply) /\ L \in Nat /\ bearer \in Account /\ DOMAIN toClient = 1..L
    BY WireFacts
  <1>2. Talking
    BY <1>1 DEF Base, Wires, Greeting, Hello
  <1>3. \A j \in DOMAIN toClient :
            /\ toClient[j] \in Reply /\ toClient[j].kind # "hello" /\ j <= Len(Q)
            /\ toClient[j].write = Q[j].write
            /\ toClient[j].kind = "refusal" => j = L
    BY <1>1, <1>2 DEF Talking, Talks
  <1>4. /\ Q \in Seq(Batch)
        /\ \A i, j \in 1..Len(Q) : i <= j => Q[i].write.n <= Q[j].write.n
    BY <1>1, QueueIsOrdered
  <1>5. Len(Q) \in Nat
    BY <1>4
  <1> HIDE DEF Q, L
  <1>6. last \in 1..L /\ k <= last /\ \A j \in 1..L : last < j => toClient[j].kind = "refusal"
    BY <1>1
  <1>7. toClient[last].kind # "refusal"
    <2>1. last # L => toClient[last].kind # "refusal"
      BY <1>1, <1>3, <1>6
    <2> QED
      BY <1>1, <2>1
  <1> HIDE DEF last
  <1>8. toClient[last].kind = "result"
    <2>1. toClient[last] \in Reply /\ toClient[last].kind # "hello"
      BY <1>1, <1>3, <1>6
    <2> QED
      BY <1>7, <2>1 DEF Reply
  <1>9. server[bearer] = [version |-> toClient[last].version, n |-> toClient[last].write.n]
    <2>1. \A j \in DOMAIN toClient : last < j => toClient[j].kind # "result"
      BY <1>1, <1>6
    <2>2. last \in DOMAIN toClient
      BY <1>1, <1>6
    <2> QED
      BY <1>8, <2>1, <2>2 DEF Results
  <1>10. k \in 1..Len(Q) /\ last \in 1..Len(Q)
    BY <1>1, <1>3, <1>5, <1>6
  <1>11. toClient[k].write.n <= toClient[last].write.n
    <2>1. toClient[k].write = Q[k].write /\ toClient[last].write = Q[last].write
      BY <1>1, <1>3, <1>6
    <2> QED
      BY <1>4, <1>6, <1>10, <2>1
  <1>12. toClient[k].write \in Write
    <2>1. Q[k] \in Batch
      BY <1>4, <1>10
    <2> QED
      BY <1>3, <2>1 DEF Batch
  <1> QED
    BY <1>9, <1>11, <1>12

\* No answer to a read is older than any.
LEMMA NoSnapshotIsOld ==
    ASSUME Base
    PROVE  /\ \A u \in Account : Behind(NoSnapshot, u)
           /\ \A u \in Account : ~(NoSnapshot.version > cache[u].version)
           /\ Ahead(NoSnapshot, toClient)
  <1>1. NoSnapshot.version = -1
    BY DEF NoSnapshot
  <1>2. \A u \in Account : server[u].version \in Nat /\ cache[u].version \in Nat
    BY DEF Base, Types, Document
  <1>3. \A k \in DOMAIN toClient : toClient[k].kind = "result" => toClient[k].version \in Nat
    <2> TAKE k \in DOMAIN toClient
    <2>1. toClient[k] \in Reply
      BY DEF Base, Types
    <2> QED
      BY <2>1 DEF Reply
  <1> HIDE DEF NoSnapshot
  <1>4. \A u \in Account : Behind(NoSnapshot, u)
    BY <1>1, <1>2 DEF Behind
  <1>5. \A u \in Account : ~(NoSnapshot.version > cache[u].version)
    BY <1>1, <1>2
  <1>6. Ahead(NoSnapshot, toClient)
    BY <1>1, <1>3 DEF Ahead
  <1> QED
    BY <1>4, <1>5, <1>6

\* Nothing about the documents changes, but the wire may lose answers and the
\* queues may grow.
LEMMA ValuesAlone ==
    ASSUME Values, UNCHANGED <<cache, server, current, bearer, applied, refused>>,
           snapshot' = snapshot,
           \A u \in Account : \A i \in DOMAIN batches[u] :
               i \in DOMAIN batches'[u] /\ batches'[u][i] = batches[u][i],
           Results(toClient', server[bearer]),
           \A d : Ahead(d, toClient) => Ahead(d, toClient')
    PROVE  Values'
  <1>1. Results(toClient, server[bearer])'
    BY DEF Results
  <1>2. Copies'
    BY DEF Values, Copies, Behind, Ahead
  <1>3. \A w \in Write : Settled(w)' => Settled(w)
    BY DEF Settled, IsQueued, Write
  <1>4. Seen'
    BY <1>3 DEF Values, Seen
  <1>5. Drained'
    <2>1. \A u \in Account : DOMAIN batches[u] # {} => DOMAIN batches'[u] # {}
      OBVIOUS
    <2> QED
      BY <2>1 DEF Values, Drained
  <1> QED
    BY <1>1, <1>2, <1>4, <1>5 DEF Values

\* A write known to the server or a callback, and not queued, is older than the queue.
LEMMA SettledIsOld ==
    ASSUME Numbers, NEW w \in Write, w \in applied, ~IsQueued(w)
    PROVE  \A i \in DOMAIN batches[w.by] : w.n < batches[w.by][i].n
  BY DEF Numbers, TouchedNumbers, Touched

\* A write the server applies is newer than all it, the cache and the reads hold.
LEMMA ValuesApply ==
    ASSUME Base, Numbers, Values, ApplyRequest
    PROVE  Values'
  <1> DEFINE w == Head(toServer).write
             v == server[w.by].version + 1
             r == [kind |-> "result", version |-> v, write |-> w]
             t == [version |-> v, n |-> w.n]
  <1>1. toServer # <<>> /\ Head(toServer).kind = "write"
    BY DEF ApplyRequest, Asks
  <1>2. /\ applied' = applied \cup {w} /\ server' = [server EXCEPT ![w.by] = t]
        /\ toClient' = Append(toClient, r)
        /\ UNCHANGED <<batches, cache, snapshot, current, bearer, refused>>
    BY DEF ApplyRequest, local, remote, history
  <1>3. w \in Write /\ w.by = bearer /\ IsQueued(w)
    BY <1>1, RequestIsQueued
  <1>4. /\ toClient \in Seq(Reply) /\ bearer \in Account /\ current \in Account
        /\ server \in [Account -> Document] /\ cache \in [Account -> Document]
        /\ snapshot \in Document \cup {NoSnapshot}
    BY DEF Base, Types
  <1>5. server[bearer] \in Document /\ v \in Nat \ {0} /\ v = server[bearer].version + 1
        /\ server[bearer].version \in Nat
    <2>1. server[bearer] \in Document
      BY <1>4
    <2> QED
      BY <1>3, <2>1 DEF Document
  <1>6. r \in Reply /\ r.kind = "result" /\ r.version = v /\ r.write = w /\ t = [version |-> v, n |-> r.write.n]
    BY <1>3, <1>5 DEF Reply
  <1>7. server'[bearer] = t /\ t.version = v /\ t.n = w.n
        /\ \A u \in Account : u # bearer => server'[u] = server[u]
    BY <1>2, <1>3, <1>4
  <1> HIDE DEF r, t, v, w
  <1>8. /\ Results(toClient, server[bearer]) => Results(toClient', t)
        /\ \A d \in Document \cup {NoSnapshot} :
              d.version <= server[bearer].version /\ Ahead(d, toClient) => Ahead(d, toClient')
    BY <1>2, <1>4, <1>5, <1>6, ResultsGrow
  <1>9. ASSUME NEW d \in Document \cup {NoSnapshot}, NEW u \in Account, Behind(d, u)
        PROVE  Behind(d, u)'
    <2>1. d.version \in Int
      BY DEF Document, NoSnapshot
    <2>2. CASE u = bearer
      <3>1. d.version < v
        BY <1>5, <1>9, <2>1, <2>2 DEF Behind
      <3> QED
        BY <1>5, <1>7, <2>1, <2>2, <3>1 DEF Behind
    <2>3. CASE u # bearer
      BY <1>7, <1>9, <2>3 DEF Behind
    <2> QED
      BY <2>2, <2>3
  <1>10. cache[bearer] \in Document /\ Behind(cache[bearer], bearer) /\ Behind(snapshot, current)
    BY <1>4 DEF Values, Copies
  <1>11. Copies'
    <2>1. \A u \in Account : cache[u] \in Document /\ Behind(cache[u], u)
      BY <1>4 DEF Values, Copies
    <2>2. \A u \in Account : Behind(cache[u], u)'
      <3> TAKE u \in Account
      <3>1. PICK d \in Document : d = cache[u]
        BY <2>1
      <3>2. Behind(d, u)'
        BY <1>9, <2>1, <3>1
      <3> QED
        BY <1>2, <3>1, <3>2 DEF Behind
    <2>3. Behind(snapshot, current)'
      <3>1. PICK d \in Document \cup {NoSnapshot} : d = snapshot
        BY <1>4
      <3>2. PICK u \in Account : u = current
        BY <1>4
      <3>3. Behind(d, u)'
        BY <1>9, <1>10, <3>1, <3>2
      <3> QED
        BY <1>2, <3>1, <3>2, <3>3 DEF Behind
    <2>4. Ahead(cache[bearer], toClient')
      <3>1. cache[bearer].version <= server[bearer].version /\ Ahead(cache[bearer], toClient)
        BY <1>10 DEF Values, Copies, Behind
      <3> QED
        BY <1>8, <1>10, <3>1
    <2>5. bearer = current => Ahead(snapshot, toClient')
      <3> HAVE bearer = current
      <3>1. snapshot.version <= server[bearer].version /\ Ahead(snapshot, toClient)
        BY <1>10 DEF Values, Copies, Behind
      <3> QED
        BY <1>4, <1>8, <3>1
    <2>6. Ahead(cache[bearer], toClient)' /\ (bearer' = current' => Ahead(snapshot, toClient)')
      BY <1>2, <2>4, <2>5 DEF Ahead
    <2> QED
      BY <2>2, <2>3, <2>6 DEF Copies
  <1>12. Seen'
    <2> SUFFICES ASSUME NEW z \in Write, Settled(z)'
                 PROVE  /\ z.n <= server'[z.by].n
                        /\ z.n <= cache[z.by].n
                        /\ current = z.by /\ snapshot.version > cache[z.by].version => z.n <= snapshot.n
      BY <1>2 DEF Seen
    <2>1. z \in applied' /\ z \notin refused /\ ~IsQueued(z)
      BY <1>2 DEF Settled, IsQueued
    <2>2. Settled(z) /\ z \in applied
      BY <1>2, <1>3, <2>1 DEF Settled
    <2>3. /\ z.n <= server[z.by].n /\ z.n <= cache[z.by].n
          /\ current = z.by /\ snapshot.version > cache[z.by].version => z.n <= snapshot.n
      BY <2>2 DEF Values, Seen
    <2>4. z.n <= server'[z.by].n
      <3>1. CASE z.by = bearer
        <4>1. z.n < w.n
          BY <1>3, <2>1, <2>2, <3>1, SettledIsOld DEF IsQueued
        <4>2. z.n \in Nat /\ w.n \in Nat
          BY <1>3 DEF Write
        <4> QED
          BY <1>7, <3>1, <4>1, <4>2
      <3>2. CASE z.by # bearer
        BY <1>7, <2>3, <3>2 DEF Write
      <3> QED
        BY <3>1, <3>2
    <2> QED
      BY <2>3, <2>4
  <1>13. Drained'
    <2> SUFFICES ASSUME NEW u \in Account
                 PROVE  \/ DOMAIN batches[u] # {} \/ (\E z \in refused : z.by = u)
                        \/ (\A z \in applied' : z.by # u) \/ cache[u] = server'[u]
      BY <1>2 DEF Drained
    <2>1. CASE u = bearer
      BY <1>3, <2>1 DEF IsQueued
    <2>2. CASE u # bearer
      BY <1>2, <1>3, <1>7, <2>2 DEF Values, Drained
    <2> QED
      BY <2>1, <2>2
  <1>14. Results(toClient, server[bearer])'
    BY <1>2, <1>7, <1>8 DEF Values, Results
  <1> QED
    BY <1>11, <1>12, <1>13, <1>14 DEF Values

\* An answer to a read is taken only if it is newer.
LEMMA ValuesTakeSnapshot ==
    ASSUME Base, Values, TakeSnapshot
    PROVE  Values'
  <1> DEFINE new == Newer(cache[current], snapshot)
  <1>1. /\ snapshot # NoSnapshot /\ snapshot' = NoSnapshot
        /\ cache' = [cache EXCEPT ![current] = new]
        /\ UNCHANGED <<batches, toClient, server, current, bearer, applied, refused>>
    BY DEF TakeSnapshot, remote, history
  <1>2. /\ current \in Account /\ bearer \in Account /\ cache \in [Account -> Document]
        /\ server \in [Account -> Document] /\ snapshot \in Document
    BY <1>1 DEF Base, Types
  <1>3. cache'[current] = new /\ \A u \in Account : u # current => cache'[u] = cache[u]
    BY <1>1, <1>2
  <1>4. new = cache[current] \/ (new = snapshot /\ snapshot.version > cache[current].version)
    BY DEF Newer
  <1>5. Behind(cache[current], current) /\ Behind(snapshot, current)
    BY <1>2 DEF Values, Copies
  <1>6. /\ cache[current].version \in Nat /\ snapshot.version \in Nat /\ server[current].version \in Nat
    <2>1. cache[current] \in Document /\ server[current] \in Document
      BY <1>2
    <2> QED
      BY <1>2, <2>1 DEF Document
  <1>7. /\ new.version >= cache[current].version
        /\ new = cache[current] => ~(snapshot.version > cache[current].version) \/ new = snapshot
    BY <1>6 DEF Newer
  <1> HIDE DEF new
  <1>8. \A u \in Account : Behind(NoSnapshot, u) /\ Ahead(NoSnapshot, toClient)
    BY NoSnapshotIsOld
  <1>9. Copies'
    <2>1. \A u \in Account : Behind(cache[u], u)'
      <3> TAKE u \in Account
      <3>1. CASE u = current
        BY <1>1, <1>3, <1>4, <1>5, <3>1 DEF Behind
      <3>2. CASE u # current
        BY <1>1, <1>3, <3>2 DEF Behind, Values, Copies
      <3> QED
        BY <3>1, <3>2
    <2>2. Behind(snapshot, current)'
      BY <1>1, <1>2, <1>8 DEF Behind
    <2>3. Ahead(cache'[bearer], toClient)
      BY <1>3, <1>2, <1>4 DEF Values, Copies
    <2>4. Ahead(cache[bearer], toClient)' /\ Ahead(snapshot, toClient)'
      BY <1>1, <1>2, <1>8, <2>3 DEF Ahead
    <2> QED
      BY <2>1, <2>2, <2>4 DEF Copies
  <1>10. Seen'
    <2> SUFFICES ASSUME NEW z \in Write, Settled(z)'
                 PROVE  /\ z.n <= server[z.by].n /\ z.n <= cache'[z.by].n
                        /\ ~(NoSnapshot.version > cache'[z.by].version)
      BY <1>1 DEF Seen
    <2>1. Settled(z)
      BY <1>1 DEF Settled, IsQueued
    <2>2. z.by \in Account
      BY DEF Write
    <2>3. /\ z.n <= server[z.by].n /\ z.n <= cache[z.by].n
          /\ current = z.by /\ snapshot.version > cache[z.by].version => z.n <= snapshot.n
      BY <2>1 DEF Values, Seen
    <2>4. z.n <= cache'[z.by].n
      BY <1>3, <1>4, <2>2, <2>3
    <2>5. ~(NoSnapshot.version > cache'[z.by].version)
      <3>1. cache'[z.by] \in Document
        BY <1>2, <1>3, <1>4, <2>2
      <3>2. cache'[z.by].version \in Nat
        BY <3>1 DEF Document
      <3> QED
        BY <3>2 DEF NoSnapshot
    <2> QED
      BY <2>3, <2>4, <2>5
  <1>11. Drained'
    <2> SUFFICES ASSUME NEW u \in Account
                 PROVE  \/ DOMAIN batches[u] # {} \/ (\E z \in refused : z.by = u)
                        \/ (\A z \in applied : z.by # u) \/ cache'[u] = server[u]
      BY <1>1 DEF Drained
    <2>1. CASE u = current /\ cache[u] = server[u]
      <3>1. ~(snapshot.version > cache[current].version)
        BY <1>5, <1>6, <2>1 DEF Behind
      <3> QED
        BY <1>3, <1>4, <2>1, <3>1
    <2>2. CASE ~(u = current /\ cache[u] = server[u])
      BY <1>3, <2>2 DEF Values, Drained
    <2> QED
      BY <2>1, <2>2
  <1>12. Results(toClient, server[bearer])'
    BY <1>1 DEF Values, Results
  <1> QED
    BY <1>9, <1>10, <1>11, <1>12 DEF Values

\* A success makes the cache as new as the write it settles.
LEMMA ValuesTakeResult ==
    ASSUME Base, Numbers, Values, TakeResult
    PROVE  Values'
  <1> DEFINE Q == QueueOf(batches[current])
             w == Q[1].write
             answer == [version |-> toClient[1].version, n |-> w.n]
             new == Newer(cache[current], answer)
  <1>1. /\ Drops(Q) /\ toClient # <<>> /\ toClient[1].kind = "result"
        /\ toClient[1].write = w /\ toClient' = Tail(toClient)
        /\ cache' = [cache EXCEPT ![current] = new]
    BY TakeResultEffect
  <1>2. UNCHANGED <<current, bearer, server, snapshot, applied, refused>>
    BY DEF TakeResult
  <1>3. bearer = current
    BY <1>1, AnswerFacts DEF TakeResult
  <1>4. /\ current \in Account /\ cache \in [Account -> Document] /\ server \in [Account -> Document]
        /\ toClient \in Seq(Reply) /\ snapshot \in Document \cup {NoSnapshot}
    BY DEF Base, Types
  <1>5. 1 \in DOMAIN toClient /\ toClient[1] \in Reply
    BY <1>1, <1>4
  <1>6. w \in Write /\ w.by = current
        /\ \A i \in DOMAIN batches'[current] : w.n < batches[current][i].n
    BY <1>1, FirstIsOldest
  <1>7. /\ DOMAIN batches'[current] = DOMAIN batches[current] \ {Q[1].id}
        /\ \A i \in DOMAIN batches'[current] : batches'[current][i] = batches[current][i]
        /\ \A u \in Account : u # current => batches'[u] = batches[u]
        /\ Q[1].id \in DOMAIN batches[current] /\ batches[current][Q[1].id] = w
        /\ QueueOf(batches'[current]) = Tail(Q) /\ MutationQueue(batches'[current])
    BY <1>1 DEF Drops
  <1>8. answer \in Document /\ answer.version = toClient[1].version /\ answer.n = w.n
        /\ answer.version \in Nat
    <2>1. toClient[1].version \in Nat
      BY <1>1, <1>5 DEF Reply
    <2> QED
      BY <1>6, <2>1 DEF Document, Write
  <1>9. cache'[current] = new /\ \A u \in Account : u # current => cache'[u] = cache[u]
    BY <1>1, <1>4
  <1>10. \/ new = cache[current] /\ ~(answer.version > cache[current].version)
         \/ new = answer /\ answer.version > cache[current].version
    BY DEF Newer
  <1>11. cache[current].version \in Nat /\ server[current].version \in Nat
         /\ (snapshot.version \in Int) /\ cache[current] \in Document
    <2>1. cache[current] \in Document /\ server[current] \in Document
      BY <1>4
    <2> QED
      BY <1>4, <2>1 DEF Document, NoSnapshot
  <1>12. /\ Results(toClient, server[current]) /\ Behind(cache[current], current)
         /\ Ahead(cache[current], toClient) /\ Ahead(snapshot, toClient)
    BY <1>3, <1>4 DEF Values, Copies
  <1>13. answer.version <= server[current].version /\ w.n <= server[current].n
    BY <1>1, <1>3, <1>5, <1>8, <1>12, ServerHoldsLast DEF Results
  <1>14. (\A j \in DOMAIN toClient : 1 < j => toClient[j].kind # "result") => server[current] = answer
    BY <1>1, <1>5, <1>12 DEF Results
  <1>15. \A j \in DOMAIN toClient : 1 < j /\ toClient[j].kind = "result" =>
             answer.version < toClient[j].version /\ toClient[j].version <= server[current].version
             /\ toClient[j].version \in Nat
    <2> TAKE j \in DOMAIN toClient
    <2> HAVE 1 < j /\ toClient[j].kind = "result"
    <2>1. toClient[j] \in Reply
      BY <1>4
    <2>2. toClient[j].version \in Nat
      BY <2>1 DEF Reply
    <2> QED
      BY <1>1, <1>5, <1>8, <1>12, <2>2 DEF Results
  <1>16. answer.version = server[current].version => answer = server[current]
    BY <1>8, <1>11, <1>14, <1>15
  <1>17. Behind(answer, current)
    BY <1>13, <1>16 DEF Behind
  <1>18. cache[current].version >= answer.version => cache[current].n >= w.n
    BY <1>1, <1>5, <1>8, <1>12 DEF Ahead
  <1>19. snapshot.version >= answer.version => snapshot.n >= w.n
    BY <1>1, <1>5, <1>8, <1>12 DEF Ahead
  <1>20. \A k \in DOMAIN toClient' : k + 1 \in DOMAIN toClient /\ 1 < k + 1 /\ toClient'[k] = toClient[k + 1]
    BY <1>1, <1>4
  <1>21. Ahead(answer, toClient')
    <2> SUFFICES ASSUME NEW k \in DOMAIN toClient', toClient'[k].kind = "result"
                 PROVE  ~(answer.version >= toClient'[k].version)
      BY DEF Ahead
    <2>1. k + 1 \in DOMAIN toClient /\ 1 < k + 1 /\ toClient'[k] = toClient[k + 1]
      BY <1>20
    <2>2. answer.version < toClient'[k].version /\ toClient'[k].version \in Nat
      BY <1>15, <2>1
    <2> QED
      BY <1>8, <2>2
  <1>22. /\ Results(toClient', server[current]) /\ Ahead(cache[current], toClient')
         /\ Ahead(snapshot, toClient')
    BY <1>1, <1>4, <1>12, ResultsTail
  <1>23. DOMAIN batches'[current] = {} => server[current] = answer
    <2> HAVE DOMAIN batches'[current] = {}
    <2>1. Tail(Q) = <<>>
      BY <1>7, QueueEmpty
    <2>2. Q \in Seq(Batch) /\ Q # <<>>
      BY <1>1, AnswerFacts, PipelineFacts DEF TakeResult
    <2> HIDE DEF Q
    <2>3. Len(Q) = 1
      <3>1. Len(Tail(Q)) = Len(Q) - 1 /\ Len(Q) \in Nat
        BY <2>2
      <3>2. Len(<<>>) = 0
        OBVIOUS
      <3>3. Len(Tail(Q)) = 0
        BY <2>1, <3>2, Zenon
      <3> QED
        BY <3>1, <3>3
    <2>4. Len(toClient) <= 1
      <3>1. Talking
        BY <1>1, AnswerFacts DEF TakeResult
      <3>2. Len(toClient) \in DOMAIN toClient
        BY <1>1, <1>4
      <3> QED
        BY <1>3, <2>3, <3>1, <3>2 DEF Talking, Talks, Q
    <2>5. \A j \in DOMAIN toClient : ~(1 < j)
      BY <1>4, <2>4
    <2> QED
      BY <1>14, <2>5
  <1> HIDE DEF answer, new, w, Q
  <1>24. new.version >= answer.version /\ new.version >= cache[current].version /\ new.version \in Nat
    BY <1>8, <1>10, <1>11
  <1>25. Copies'
    <2>1. \A u \in Account : Behind(cache[u], u)'
      <3> TAKE u \in Account
      <3>1. CASE u = current
        BY <1>2, <1>9, <1>10, <1>12, <1>17, <3>1 DEF Behind
      <3>2. CASE u # current
        BY <1>2, <1>9, <3>2 DEF Behind, Values, Copies
      <3> QED
        BY <3>1, <3>2
    <2>2. Behind(snapshot, current)'
      BY <1>2 DEF Behind, Values, Copies
    <2>3. Ahead(cache'[bearer], toClient')
      BY <1>3, <1>9, <1>10, <1>21, <1>22
    <2>4. Ahead(cache[bearer], toClient)' /\ Ahead(snapshot, toClient)'
      BY <1>2, <1>22, <2>3 DEF Ahead
    <2> QED
      BY <2>1, <2>2, <2>4 DEF Copies
  <1>26. Seen'
    <2> SUFFICES ASSUME NEW z \in Write, Settled(z)'
                 PROVE  /\ z.n <= server[z.by].n /\ z.n <= cache'[z.by].n
                        /\ current = z.by /\ snapshot.version > cache'[z.by].version => z.n <= snapshot.n
      BY <1>2 DEF Seen
    <2>0. z.by \in Account /\ z \in applied /\ z.n \in Nat /\ w.n \in Nat
      BY <1>2, <1>6 DEF Write, Settled
    <2>1. CASE z = w
      <3>1. z.by = current /\ z.n = w.n
        BY <1>6, <2>1
      <3>2. w.n <= new.n
        BY <1>8, <1>10, <1>11, <1>18, <2>0
      <3>3. snapshot.version > new.version => w.n <= snapshot.n
        <4> HAVE snapshot.version > new.version
        <4>1. snapshot.version >= answer.version
          BY <1>8, <1>11, <1>24
        <4>2. snapshot.n \in Nat
          BY <1>4 DEF Document, NoSnapshot
        <4> QED
          BY <1>19, <2>0, <4>1, <4>2
      <3> QED
        BY <1>9, <1>13, <3>1, <3>2, <3>3
    <2>2. CASE z # w
      <3>1. Settled(z)
        <4>1. IsQueued(z) => IsQueued(z)'
          BY <1>7, <2>0, <2>2 DEF IsQueued
        <4> QED
          BY <1>2, <4>1 DEF Settled
      <3>2. /\ z.n <= server[z.by].n /\ z.n <= cache[z.by].n
            /\ current = z.by /\ snapshot.version > cache[z.by].version => z.n <= snapshot.n
        BY <3>1 DEF Values, Seen
      <3>3. CASE z.by = current
        <4>1. z.n < w.n
          BY <1>7, <2>0, <3>1, <3>3, SettledIsOld DEF Settled
        <4>2. z.n <= new.n
          BY <1>8, <1>10, <2>0, <3>2, <3>3, <4>1
        <4>3. snapshot.version > new.version => z.n <= snapshot.n
          BY <1>11, <1>24, <3>2, <3>3
        <4> QED
          BY <1>9, <3>2, <3>3, <4>2, <4>3
      <3>4. CASE z.by # current
        BY <1>9, <2>0, <3>2, <3>4
      <3> QED
        BY <3>3, <3>4
    <2> QED
      BY <2>1, <2>2
  <1>27. Drained'
    <2> SUFFICES ASSUME NEW u \in Account
                 PROVE  \/ DOMAIN batches'[u] # {} \/ (\E z \in refused : z.by = u)
                        \/ (\A z \in applied : z.by # u) \/ cache'[u] = server[u]
      BY <1>2 DEF Drained
    <2>1. CASE u = current
      <3>1. CASE DOMAIN batches'[current] = {}
        <4>1. server[current] = answer
          BY <1>23, <3>1
        <4>2. new = answer
          BY <1>8, <1>10, <1>11, <1>12, <4>1 DEF Behind
        <4> QED
          BY <1>9, <2>1, <4>1, <4>2
      <3> QED
        BY <2>1, <3>1
    <2>2. CASE u # current
      BY <1>7, <1>9, <2>2 DEF Values, Drained
    <2> QED
      BY <2>1, <2>2
  <1>28. Results(toClient, server[bearer])'
    BY <1>2, <1>3, <1>22 DEF Results
  <1> QED
    BY <1>25, <1>26, <1>27, <1>28 DEF Values

\* A refusal settles nothing.
LEMMA ValuesTakeRefusal ==
    ASSUME Base, Numbers, Values, TakeRefusal
    PROVE  Values'
  <1> DEFINE Q == QueueOf(batches[current])
             w == Q[1].write
  <1>1. /\ Drops(Q) /\ refused' = refused \cup {w}
        /\ toClient # <<>> /\ toClient' = Tail(toClient)
    BY TakeRefusalEffect
  <1>2. UNCHANGED <<cache, server, snapshot, current, bearer, applied>>
    BY DEF TakeRefusal
  <1>3. w \in Write /\ w.by = current
    BY <1>1, FirstIsOldest
  <1>4. /\ \A i \in DOMAIN batches[current] :
               batches[current][i] # w => i \in DOMAIN batches'[current] /\ batches'[current][i] = batches[current][i]
        /\ \A u \in Account : u # current => batches'[u] = batches[u]
    BY <1>1 DEF Drops
  <1>5. toClient \in Seq(Reply)
    BY DEF Base, Types
  <1>6. Results(toClient', server[bearer]) /\ \A d : Ahead(d, toClient) => Ahead(d, toClient')
    BY <1>1, <1>5, ResultsTail DEF Values
  <1> HIDE DEF w, Q
  <1>7. \A z \in Write : Settled(z)' => Settled(z)
    <2> TAKE z \in Write
    <2> HAVE Settled(z)'
    <2>1. z \in applied /\ z \notin refused /\ z # w /\ ~IsQueued(z)'
      BY <1>1, <1>2 DEF Settled
    <2>2. z.by \in Account
      BY DEF Write
    <2>3. ~IsQueued(z)
      BY <1>4, <2>1, <2>2 DEF IsQueued
    <2> QED
      BY <2>1, <2>3 DEF Settled
  <1>8. Seen'
    BY <1>2, <1>7 DEF Values, Seen
  <1>9. Drained'
    BY <1>1, <1>2, <1>3, <1>4 DEF Values, Drained
  <1>10. Copies'
    BY <1>2, <1>6 DEF Values, Copies, Behind, Ahead
  <1>11. Results(toClient, server[bearer])'
    BY <1>2, <1>6 DEF Results
  <1> QED
    BY <1>8, <1>9, <1>10, <1>11 DEF Values

\* A read is answered with what the server holds.
LEMMA ValuesSendSnapshot ==
    ASSUME Base, Numbers, Values, SendSnapshot
    PROVE  Values'
  <1>1. /\ snapshot' = server[current]
        /\ UNCHANGED <<batches, cache, toClient, server, current, bearer, applied, refused>>
    BY DEF SendSnapshot, local, remote, history
  <1>2. bearer = current => Ahead(server[current], toClient)
    <2> HAVE bearer = current
    <2>1. \A k \in DOMAIN toClient : toClient[k].kind = "result" =>
              toClient[k].write.n <= server[bearer].n /\ toClient[k].write \in Write
      BY ServerHoldsLast DEF Values
    <2>2. server[bearer].n \in Nat
      BY DEF Base, Types, Document
    <2>3. \A k \in DOMAIN toClient : toClient[k].kind = "result" => server[bearer].n >= toClient[k].write.n
      BY <2>1, <2>2 DEF Write
    <2> QED
      BY <2>3 DEF Ahead
  <1>3. Copies'
    <2>1. Behind(snapshot, current)'
      <3>1. server[current].version \in Nat
        BY DEF Base, Types, Document
      <3> QED
        BY <1>1, <3>1 DEF Behind
    <2>2. bearer' = current' => Ahead(snapshot, toClient)'
      BY <1>1, <1>2 DEF Ahead
    <2>3. \A u \in Account : Behind(cache[u], u)'
      BY <1>1 DEF Values, Copies, Behind
    <2>4. Ahead(cache[bearer], toClient)'
      BY <1>1 DEF Values, Copies, Ahead
    <2> QED
      BY <2>1, <2>2, <2>3, <2>4 DEF Copies
  <1>4. \A z : Settled(z)' <=> Settled(z)
    BY <1>1 DEF Settled, IsQueued
  <1>5. Seen'
    BY <1>1, <1>4 DEF Values, Seen
  <1>6. Drained'
    BY <1>1 DEF Values, Drained
  <1>7. Results(toClient, server[bearer])'
    BY <1>1 DEF Values, Results
  <1> QED
    BY <1>3, <1>5, <1>6, <1>7 DEF Values

\* Another account, or the same after a restart: no read is out.
LEMMA ValuesRestart ==
    ASSUME Base, Values, RunAccount \/ Relaunch
    PROVE  Values'
  <1>1. /\ current' \in Account /\ UNCHANGED <<batches, cache, bearer, toClient, server, applied, refused>>
        /\ snapshot' = NoSnapshot
    BY Restarts DEF RunAccount, Relaunch, history
  <1>2. /\ \A u \in Account : Behind(NoSnapshot, u)
        /\ \A u \in Account : ~(NoSnapshot.version > cache[u].version)
        /\ Ahead(NoSnapshot, toClient)
    BY NoSnapshotIsOld
  <1>3. Copies'
    <2>1. \A u \in Account : Behind(cache[u], u)'
      BY <1>1 DEF Values, Copies, Behind
    <2>2. Behind(snapshot, current)'
      BY <1>1, <1>2 DEF Behind
    <2>3. Ahead(cache[bearer], toClient)' /\ Ahead(snapshot, toClient)'
      BY <1>1, <1>2 DEF Values, Copies, Ahead
    <2> QED
      BY <2>1, <2>2, <2>3 DEF Copies
  <1>4. \A z : Settled(z)' <=> Settled(z)
    BY <1>1 DEF Settled, IsQueued
  <1>5. \A z \in Write : z.by \in Account
    BY DEF Write
  <1>6. Seen'
    BY <1>1, <1>2, <1>4, <1>5 DEF Values, Seen
  <1>7. Drained'
    BY <1>1 DEF Values, Drained
  <1>8. Results(toClient, server[bearer])'
    BY <1>1 DEF Values, Results
  <1> QED
    BY <1>3, <1>6, <1>7, <1>8 DEF Values

\* A new stream has no answers.
LEMMA ValuesRunToken ==
    ASSUME Base, Values, RunToken
    PROVE  Values'
  <1>1. UNCHANGED <<batches, cache, server, snapshot, current, applied, refused>>
    BY DEF RunToken, local, history
  <1>2. CASE UNCHANGED <<toClient, bearer>>
    BY <1>1, <1>2, ValuesAlone DEF Values
  <1>3. CASE toClient' = <<>>
    <2>1. \A k \in DOMAIN <<>> : FALSE
      OBVIOUS
    <2>2. Results(toClient, server[bearer])' /\ Ahead(cache[bearer], toClient)' /\ Ahead(snapshot, toClient)'
      BY <1>3, <2>1 DEF Results, Ahead
    <2>3. (\A u \in Account : Behind(cache[u], u)') /\ Behind(snapshot, current)'
      BY <1>1 DEF Values, Copies, Behind
    <2>4. \A z : Settled(z)' <=> Settled(z)
      BY <1>1 DEF Settled, IsQueued
    <2>5. Seen' /\ Drained'
      BY <1>1, <2>4 DEF Values, Seen, Drained
    <2> QED
      BY <2>2, <2>3, <2>5 DEF Values, Copies
  <1> QED
    BY <1>2, <1>3 DEF RunToken, CloseOnError, remote

\* Every step preserves the relation of cache, reads and server.
LEMMA ValuesStep ==
    ASSUME Inv, Numbers, Values, [Next]_vars
    PROVE  Values'
  <1>0. Base /\ toClient \in Seq(Reply) /\ toServer \in Seq(Asked) /\ Results(toClient, server[bearer])
    BY DEF Inv, Base, Types, Values
  <1>1. CASE UNCHANGED <<batches, cache, server, snapshot, current, bearer, toClient, applied, refused>>
    BY <1>0, <1>1, ValuesAlone
  <1>2. CASE RunWrite
    <2> DEFINE q == With(batches[current], nextId, Head(tasks).write)
    <2>1. /\ UNCHANGED <<cache, server, snapshot, current, bearer, toClient, applied, refused>>
          /\ batches' = [batches EXCEPT ![current] = q]
      BY <1>2 DEF RunWrite, history
    <2>2. \A i \in DOMAIN batches[current] : i < nextId /\ i \in Nat /\ nextId \in Nat
      BY <1>0 DEF Base, Types, Persisted, MutationQueue
    <2>3. \A i \in DOMAIN batches[current] : i \in DOMAIN q /\ q[i] = batches[current][i]
      BY <2>2 DEF With
    <2> HIDE DEF q
    <2>4. \A u \in Account : \A i \in DOMAIN batches[u] :
              i \in DOMAIN batches'[u] /\ batches'[u][i] = batches[u][i]
      BY <1>0, <2>1, <2>3 DEF Base, Types
    <2> QED
      BY <1>0, <2>1, <2>4, ValuesAlone
  <1>3. CASE RunAccount \/ Relaunch
    BY <1>0, <1>3, ValuesRestart
  <1>4. CASE RunToken
    BY <1>0, <1>4, ValuesRunToken
  <1>5. CASE FinishHandshake
    <2>1. /\ toClient # <<>> /\ toClient' = Tail(toClient)
          /\ UNCHANGED <<batches, cache, server, snapshot, current, bearer, applied, refused>>
      BY <1>5 DEF FinishHandshake, local, history
    <2>2. Results(toClient', server[bearer]) /\ \A d : Ahead(d, toClient) => Ahead(d, toClient')
      BY <1>0, <2>1, ResultsTail
    <2> QED
      BY <2>1, <2>2, ValuesAlone
  <1>6. CASE TakeResult
    BY <1>0, <1>6, ValuesTakeResult
  <1>7. CASE TakeRefusal
    BY <1>0, <1>7, ValuesTakeRefusal
  <1>8. CASE SendSnapshot
    BY <1>0, <1>8, ValuesSendSnapshot
  <1>9. CASE TakeSnapshot
    BY <1>0, <1>9, ValuesTakeSnapshot
  <1>10. CASE ApplyRequest
    BY <1>0, <1>10, ValuesApply
  <1>11. CASE AnswerHello \/ RefuseRequest
    <2> DEFINE r == IF AnswerHello THEN Hello ELSE [kind |-> "refusal", write |-> Head(toServer).write]
    <2>1. /\ toClient' = Append(toClient, r)
          /\ UNCHANGED <<batches, cache, server, snapshot, current, bearer, applied, refused>>
      BY <1>11 DEF AnswerHello, RefuseRequest, Hello, local, remote, history
    <2>2. r \in Reply /\ r.kind # "result"
      <3>1. CASE AnswerHello
        BY <3>1 DEF Reply, Hello
      <3>2. CASE ~AnswerHello
        <4>1. toServer # <<>> /\ Head(toServer).kind = "write"
          BY <1>11, <3>2 DEF RefuseRequest, Asks
        <4>2. Head(toServer) \in Asked
          BY <1>0, <4>1
        <4>3. Head(toServer).write \in Write
          BY <4>1, <4>2 DEF Asked
        <4> QED
          BY <3>2, <4>3 DEF Reply
      <3> QED
        BY <3>1, <3>2
    <2> HIDE DEF r
    <2>3. Results(toClient', server[bearer]) /\ \A d : Ahead(d, toClient) => Ahead(d, toClient')
      BY <1>0, <2>1, <2>2, ResultsOther
    <2> QED
      BY <2>1, <2>3, ValuesAlone
  <1>12. CASE \/ MakeWrite \/ (\E u \in Account : ChangeLogin(u))
              \/ (\E age \in {"live", "stale"}, ok \in BOOLEAN : AnswerToken(age, ok))
              \/ BreakStream \/ EndBackoff \/ StopIdle \/ ChangeNetwork \/ UNCHANGED vars
    <2>1. UNCHANGED <<batches, cache, server, snapshot, current, bearer, toClient, applied, refused>>
      BY <1>12 DEF MakeWrite, ChangeLogin, AnswerToken, BreakStream, EndBackoff, StopIdle,
                   ChangeNetwork, vars, local, remote, wire, history
    <2> QED
      BY <1>1, <2>1
  <1> QED
    BY <1>2, <1>3, <1>4, <1>5, <1>6, <1>7, <1>8, <1>9, <1>10, <1>11, <1>12
       DEF Next, Worker, Receive, Serve

\* Nothing is stored at the start.
LEMMA InitValues == Init => Values
  <1> SUFFICES ASSUME Init PROVE Values
    OBVIOUS
  <1>1. /\ toClient = <<>> /\ applied = {} /\ snapshot = NoSnapshot /\ current \in Account
        /\ \A u \in Account : cache[u] = NoDocument /\ server[u] = NoDocument
    BY DEF Init
  <1>2. \A k \in DOMAIN <<>> : FALSE
    OBVIOUS
  <1>3. \A u \in Account : Behind(cache[u], u) /\ Behind(NoSnapshot, u)
    BY <1>1 DEF Behind, NoDocument, NoSnapshot
  <1>4. Results(toClient, server[bearer]) /\ \A d : Ahead(d, toClient)
    BY <1>1, <1>2 DEF Results, Ahead
  <1>5. Seen /\ Drained
    BY <1>1 DEF Seen, Drained, Settled
  <1> QED
    BY <1>1, <1>3, <1>4, <1>5 DEF Values, Copies

-----------------------------------------------------------------------------
(* The properties, and the theorems.                                       *)

\* The newest write of a queue.
LEMMA NewestIs ==
    ASSUME Base, NEW u \in Account
    PROVE  /\ Newest(u) \in Nat
           /\ \A i \in DOMAIN batches[u] : batches[u][i].n \in Nat /\ batches[u][i].n <= Newest(u)
  <1> DEFINE S == {0} \cup {b.write.n : b \in Range(QueueOf(batches[u]))}
  <1>1. MutationQueue(batches[u])
    BY DEF Base, Types
  <1>2. \A b \in Range(QueueOf(batches[u])) : b.write.n \in 1..MaxWrites
    <2> TAKE b \in Range(QueueOf(batches[u]))
    <2>1. b \in Batch
      BY <1>1, RangeOfQueue
    <2> QED
      BY <2>1 DEF Batch, Write
  <1>3. S \in SUBSET (0..MaxWrites) /\ 0 \in S
    <2>1. 0 \in 0..MaxWrites /\ \A n \in 1..MaxWrites : n \in 0..MaxWrites
      BY WriteBoundAssumption
    <2> QED
      BY <1>2, <2>1
  <1>4. IsFiniteSet(S)
    <2>1. IsFiniteSet(0..MaxWrites)
      BY WriteBoundAssumption, FS_Interval
    <2> QED
      BY <1>3, <2>1, FS_Subset
  <1>5. Newest(u) = Max(S)
    BY DEF Newest
  <1>6. ASSUME NEW i \in DOMAIN batches[u]
        PROVE  batches[u][i].n \in S
    <2> DEFINE b == [id |-> i, write |-> batches[u][i]]
    <2>1. b \in Batch /\ b.id = i /\ b.write = batches[u][i]
      BY <1>1 DEF MutationQueue, Batch
    <2> HIDE DEF b
    <2>2. b \in Range(QueueOf(batches[u]))
      BY <1>1, <2>1, RangeOfQueue
    <2> QED
      BY <2>1, <2>2
  <1> HIDE DEF S
  <1>7. S \in SUBSET Int
    BY <1>3, WriteBoundAssumption
  <1>8. Max(S) \in S /\ \A y \in S : Max(S) >= y
    BY <1>3, <1>4, <1>7, MaxOfFinite
  <1>9. S \subseteq Nat
    BY <1>3, WriteBoundAssumption
  <1> QED
    BY <1>5, <1>6, <1>8, <1>9

\* A read on the device returns the newest write not refused;
LEMMA ReadsHold == Inv /\ Numbers /\ Values => ReadYourWrites
  <1> SUFFICES ASSUME Inv, Numbers, Values, NEW u \in Account, NEW n \in Stored(u),
                      [by |-> u, n |-> n] \notin refused
               PROVE  View(u) >= n
    BY DEF ReadYourWrites
  <1>1. Base /\ MutationQueue(batches[u])
    BY DEF Inv, Base, Types
  <1>2. /\ Newest(u) \in Nat
        /\ \A i \in DOMAIN batches[u] : batches[u][i].n \in Nat /\ batches[u][i].n <= Newest(u)
    BY <1>1, NewestIs
  <1>3. batches[u] = <<>> <=> DOMAIN batches[u] = {}
    BY <1>1, QueueEmpty
  <1>4. CASE \E i \in DOMAIN batches[u] : batches[u][i].n = n
    BY <1>2, <1>3, <1>4 DEF View
  <1>5. CASE ~\E i \in DOMAIN batches[u] : batches[u][i].n = n
    <2>1. n \notin {b.write.n : b \in Range(QueueOf(batches[u]))}
      <3>1. \A b \in Range(QueueOf(batches[u])) : b.id \in DOMAIN batches[u] /\ batches[u][b.id] = b.write
        BY <1>1, RangeOfQueue
      <3> QED
        BY <1>5, <3>1
    <2>2. PICK w \in applied : w.by = u /\ w.n = n
      BY <2>1 DEF Stored
    <2>3. w \in Write /\ w = [by |-> u, n |-> n]
      BY <1>1, <2>2 DEF Base, Types, Write
    <2>4. ~IsQueued(w) /\ Settled(w)
      BY <1>5, <2>2, <2>3 DEF IsQueued, Settled
    <2>5. n <= cache[u].n /\ \A i \in DOMAIN batches[u] : n < batches[u][i].n
      BY <2>2, <2>3, <2>4, SettledIsOld DEF Values, Seen
    <2>6. n \in Nat /\ cache[u].n \in Nat
      <3>1. cache[u] \in Document
        BY <1>1 DEF Base, Types
      <3> QED
        BY <2>2, <2>3, <3>1 DEF Write, Document
    <2>7. CASE batches[u] = <<>>
      BY <2>5, <2>6, <2>7 DEF View
    <2>8. CASE batches[u] # <<>>
      <3>1. PICK i \in DOMAIN batches[u] : TRUE
        BY <1>3, <2>8
      <3>2. n < batches[u][i].n /\ batches[u][i].n \in Nat /\ batches[u][i].n <= Newest(u)
        BY <1>2, <2>5
      <3>3. Newest(u) >= n
        BY <1>2, <2>6, <3>2
      <3> QED
        BY <2>8, <3>3 DEF View
    <2> QED
      BY <2>7, <2>8
  <1> QED
    BY <1>4, <1>5

\* and the document ends with the last write.
LEMMA SettlesHold == Inv /\ Numbers /\ Values => SettlesOnLastWrite
  <1> SUFFICES ASSUME Inv, Numbers, Values, NEW u \in Account, batches[u] = <<>>,
                      \A w \in refused : w.by # u, NEW w \in applied, w.by = u
               PROVE  server[u].n >= w.n /\ cache[u] = server[u]
    BY DEF SettlesOnLastWrite
  <1>1. w \in Write /\ server[u].n \in Nat /\ w.n \in Nat
    <2>1. w \in Write /\ server[u] \in Document
      BY DEF Inv, Base, Types
    <2> QED
      BY <2>1 DEF Document, Write
  <1>2. DOMAIN batches[u] = {}
    OBVIOUS
  <1>3. Settled(w)
    BY <1>2 DEF Settled, IsQueued
  <1>4. w.n <= server[u].n
    BY <1>1, <1>3 DEF Values, Seen
  <1>5. cache[u] = server[u]
    BY <1>2 DEF Values, Drained
  <1> QED
    BY <1>1, <1>4, <1>5

Whole == Inv /\ Numbers /\ Values

\* The whole invariant is inductive,
LEMMA WholeStep == Whole /\ [Next]_vars => Whole'
  <1> SUFFICES ASSUME Inv, Numbers, Values, [Next]_vars PROVE Whole'
    BY DEF Whole
  <1>1. Inv'
    BY InvStep
  <1>2. Numbers' /\ Values'
    BY NumbersStep, ValuesStep
  <1> QED
    BY <1>1, <1>2 DEF Whole

\* and holds in every state.
LEMMA WholeHolds == Spec => []Whole
  <1>1. Init => Whole
    BY InitInv, InitNumbers, InitValues DEF Whole
  <1> QED
    BY <1>1, WholeStep, PTL DEF Spec

\* The variables of the client keep their types.
THEOREM FirestoreTypes == Spec => []TypeOK
  <1>1. Whole => TypeOK
    BY TypeOKHolds DEF Whole
  <1> QED
    BY <1>1, WholeHolds, PTL

\* RemoteStore: the pipeline holds the oldest batches of the current account,
\* none overtaken or left out.
THEOREM FirestorePipeline == Spec => []PipelineInOrder
  <1>1. Whole => PipelineInOrder
    BY PipelineInOrderHolds DEF Whole
  <1> QED
    BY <1>1, WholeHolds, PTL

\* OnWriteStreamClose: while there are batches there is a stream to send them.
THEOREM FirestoreNeverStranded == Spec => []NeverStranded
  <1>1. Whole => NeverStranded
    BY NeverStrandedHolds DEF Whole
  <1> QED
    BY <1>1, WholeHolds, PTL

\* ResumeStartWithCredentials: exactly one token can open the stream.
THEOREM FirestoreOneToken == Spec => []OneTokenAwaited
  <1>1. Whole => OneTokenAwaited
    BY OneTokenHolds DEF Whole, Inv
  <1> QED
    BY <1>1, WholeHolds, PTL

\* HandleCredentialChange: writes are sent under the token of their account.
THEOREM FirestoreOwner == Spec => []SentAsOwner
  <1>1. Whole => SentAsOwner
    BY SentAsOwnerHolds DEF Whole
  <1> QED
    BY <1>1, WholeHolds, PTL

\* OnWriteStreamMutationResult: an answer is for the first batch of the pipeline.
THEOREM FirestoreAnswers == Spec => []AnswersMatchPipeline
  <1>1. Whole => AnswersMatchPipeline
    BY AnswersMatchHolds DEF Whole
  <1> QED
    BY <1>1, WholeHolds, PTL

\* LocalDocumentsView: a read on the device returns its own writes.
THEOREM FirestoreReads == Spec => []ReadYourWrites
  <1>1. Whole => ReadYourWrites
    BY ReadsHold DEF Whole
  <1> QED
    BY <1>1, WholeHolds, PTL

\* ApplyBatchResult: once all is acknowledged the document, and the cached copy,
\* hold the last write.
THEOREM FirestoreSettles == Spec => []SettlesOnLastWrite
  <1>1. Whole => SettlesOnLastWrite
    BY SettlesHold DEF Whole
  <1> QED
    BY <1>1, WholeHolds, PTL

\* NotifyUser: each callback is called at most once, with success only after the server.
THEOREM FirestoreCallbacks == Spec => CallbacksTrue
  <1>1. Whole /\ [Next]_vars => [\A w \in Write : told'[w] # told[w] =>
                                   told[w] = "nothing" /\ (told'[w] = "ok" => w \in applied)]_vars
    <2> SUFFICES ASSUME Whole, [Next]_vars
                 PROVE  \A w \in Write : told'[w] # told[w] =>
                           told[w] = "nothing" /\ (told'[w] = "ok" => w \in applied)
      OBVIOUS
    <2>1. Base /\ Numbers
      BY DEF Whole, Inv
    <2> QED
      BY <2>1, CallbacksStep
  <1> QED
    BY <1>1, WholeHolds, PTL DEF Spec, CallbacksTrue

-----------------------------------------------------------------------------
(* The channel of an account.                                              *)

Mine(ts, u) == {k \in DOMAIN ts : ts[k].kind = "write" /\ ts[k].write.by = u}

Unsent(ts, u) == [k \in DOMAIN InOrder(Mine(ts, u)) |-> ts[InOrder(Mine(ts, u))[k]].write]

\* o lists the elements of S, of which there are m.
Enumerates(o, m, S) ==
    m \in Nat /\ o \in [1..m -> S] /\ Increasing(o) /\ \A i \in S : \E k \in 1..m : o[k] = i

\* The places of the writes of u among the tasks.
LEMMA MineInts ==
    ASSUME NEW ts \in Seq(Task), NEW u
    PROVE  /\ Mine(ts, u) \in SUBSET Int /\ IsFiniteSet(Mine(ts, u))
           /\ Mine(ts, u) \subseteq 1..Len(ts)
           /\ \A k \in Mine(ts, u) : ts[k].write \in Write
  <1>1. DOMAIN ts = 1..Len(ts) /\ Len(ts) \in Nat
    OBVIOUS
  <1>2. IsFiniteSet(1..Len(ts)) /\ Mine(ts, u) \subseteq 1..Len(ts)
    BY <1>1, FS_Interval DEF Mine
  <1>3. IsFiniteSet(Mine(ts, u))
    BY <1>2, FS_Subset
  <1>4. ASSUME NEW k \in Mine(ts, u) PROVE ts[k].write \in Write
    <2>1. k \in DOMAIN ts /\ ts[k].kind = "write"
      BY DEF Mine
    <2>2. ts[k] \in Task
      BY <2>1
    <2> QED
      BY <2>1, <2>2 DEF Task
  <1> QED
    BY <1>1, <1>2, <1>3, <1>4

\* Unsent lists the writes of u among the tasks, in order.
LEMMA UnsentIs ==
    ASSUME NEW ts \in Seq(Task), NEW u, NEW m, NEW o, Enumerates(o, m, Mine(ts, u))
    PROVE  /\ m \in Nat /\ Unsent(ts, u) = [k \in 1..m |-> ts[o[k]].write]
           /\ Unsent(ts, u) \in Seq(Write) /\ Len(Unsent(ts, u)) = m
  <1> DEFINE S == Mine(ts, u)
  <1>1. S \in SUBSET Int
    BY MineInts
  <1>2. m \in Nat /\ o \in [1..m -> S] /\ Increasing(o) /\ \A i \in S : \E k \in 1..m : o[k] = i
    BY DEF Enumerates
  <1>3. \A k \in S : ts[k].write \in Write
    BY MineInts
  <1> HIDE DEF S
  <1>4. InOrder(S) = o
    BY <1>1, <1>2, OrderIs
  <1>5. DOMAIN o = 1..m
    BY <1>2
  <1>6. Unsent(ts, u) = [k \in 1..m |-> ts[o[k]].write]
    BY <1>4, <1>5 DEF Unsent, S
  <1>7. \A k \in 1..m : ts[o[k]].write \in Write
    BY <1>2, <1>3
  <1> QED
    BY <1>2, <1>6, <1>7

\* They can be listed in order.
LEMMA MineListed ==
    ASSUME NEW ts \in Seq(Task), NEW u
    PROVE  \E m, o : Enumerates(o, m, Mine(ts, u))
  <1> DEFINE S == Mine(ts, u)
             m == Cardinality(S)
             o == InOrder(S)
  <1>1. S \in SUBSET Int /\ IsFiniteSet(S)
    BY MineInts
  <1> HIDE DEF S
  <1>2. /\ m \in Nat /\ o \in [1..m -> S] /\ Increasing(o)
        /\ \A i \in S : \E k \in 1..m : o[k] = i
    BY <1>1, OrderExists
  <1>3. Enumerates(o, m, S)
    BY <1>2 DEF Enumerates
  <1> QED
    BY <1>3 DEF S

\* Only the writes of u and their places count.
LEMMA UnsentSame ==
    ASSUME NEW ts \in Seq(Task), NEW rs \in Seq(Task), NEW u, Mine(rs, u) = Mine(ts, u),
           \A k \in Mine(ts, u) : rs[k].write = ts[k].write
    PROVE  Unsent(rs, u) = Unsent(ts, u)
  <1>1. PICK m, o : Enumerates(o, m, Mine(ts, u))
    BY MineListed
  <1>2. Enumerates(o, m, Mine(rs, u))
    BY <1>1
  <1>3. Unsent(ts, u) = [k \in 1..m |-> ts[o[k]].write]
    BY <1>1, UnsentIs
  <1>4. Unsent(rs, u) = [k \in 1..m |-> rs[o[k]].write]
    BY <1>2, UnsentIs
  <1>5. \A k \in 1..m : rs[o[k]].write = ts[o[k]].write
    BY <1>1 DEF Enumerates
  <1> QED
    BY <1>3, <1>4, <1>5

\* Stale tokens are not among them.
LEMMA UnsentForget ==
    ASSUME NEW ts \in Seq(Task), NEW u
    PROVE  Unsent(Forget(ts), u) = Unsent(ts, u)
  <1> DEFINE F == Forget(ts)
  <1>1. /\ F \in Seq(Task) /\ Len(F) = Len(ts)
        /\ \A k \in 1..Len(ts) : F[k].kind = ts[k].kind /\ (ts[k].kind # "token" => F[k] = ts[k])
    BY ForgetFacts
  <1> HIDE DEF F
  <1>2. DOMAIN F = 1..Len(ts) /\ DOMAIN ts = 1..Len(ts)
    BY <1>1
  <1>3. Mine(F, u) = Mine(ts, u) /\ \A k \in Mine(ts, u) : F[k].write = ts[k].write
    BY <1>1, <1>2 DEF Mine
  <1>4. Unsent(F, u) = Unsent(ts, u)
    BY <1>1, <1>3, UnsentSame
  <1> QED
    BY <1>4 DEF F

\* A write that is queued is the last unsent one of its account.
LEMMA UnsentAppend ==
    ASSUME NEW ts \in Seq(Task), NEW t \in Task, NEW u
    PROVE  Unsent(Append(ts, t), u) =
               IF t.kind = "write" /\ t.write.by = u THEN Append(Unsent(ts, u), t.write) ELSE Unsent(ts, u)
  <1> DEFINE A == Append(ts, t)
             n == Len(ts)
  <1>1. /\ A \in Seq(Task) /\ DOMAIN A = 1..n + 1 /\ DOMAIN ts = 1..n /\ n \in Nat /\ A[n + 1] = t
        /\ \A k \in 1..n : A[k] = ts[k]
    OBVIOUS
  <1> HIDE DEF A, n
  <1>2. CASE ~(t.kind = "write" /\ t.write.by = u)
    <2>1. Mine(A, u) = Mine(ts, u)
      <3>1. \A k : k \in Mine(A, u) <=> k \in Mine(ts, u)
        BY <1>1, <1>2 DEF Mine
      <3> QED
        BY <3>1
    <2>2. \A k \in Mine(ts, u) : A[k].write = ts[k].write
      BY <1>1 DEF Mine
    <2>3. Unsent(A, u) = Unsent(ts, u)
      BY <1>1, <2>1, <2>2, UnsentSame
    <2> QED
      BY <1>2, <2>3 DEF A
  <1>3. CASE t.kind = "write" /\ t.write.by = u
    <2>1. PICK m, o : Enumerates(o, m, Mine(ts, u))
      BY MineListed
    <2>0. m \in Nat /\ o \in [1..m -> Mine(ts, u)]
      BY <2>1 DEF Enumerates
    <2>2. Increasing(o) /\ \A i \in Mine(ts, u) : \E k \in 1..m : o[k] = i
      BY <2>1 DEF Enumerates
    <2>U. /\ Unsent(ts, u) = [k \in 1..m |-> ts[o[k]].write]
          /\ Unsent(ts, u) \in Seq(Write) /\ Len(Unsent(ts, u)) = m
      BY <2>1, UnsentIs
    <2> DEFINE p == [k \in 1..m + 1 |-> IF k <= m THEN o[k] ELSE n + 1]
    <2>3. Mine(A, u) = Mine(ts, u) \cup {n + 1}
      <3>1. \A k : k \in Mine(A, u) <=> k \in Mine(ts, u) \cup {n + 1}
        BY <1>1, <1>3 DEF Mine
      <3> QED
        BY <3>1
    <2>4. \A k \in 1..m : o[k] \in 1..n /\ o[k] < n + 1
      <3> TAKE k \in 1..m
      <3>1. o[k] \in Mine(ts, u)
        BY <2>0
      <3>2. o[k] \in 1..n
        BY <1>1, <3>1 DEF Mine
      <3> QED
        BY <1>1, <3>2
    <2>5. \A k \in 1..m + 1 : k <= m => k \in 1..m
      BY <2>0
    <2>6. p \in [1..m + 1 -> Mine(A, u)]
      BY <2>0, <2>3, <2>5
    <2>7. Increasing(p)
      <3> SUFFICES ASSUME NEW j \in 1..m + 1, NEW k \in 1..m + 1, j < k PROVE p[j] < p[k]
        BY DEF Increasing
      <3>1. j \in 1..m
        BY <2>0
      <3>2. CASE k <= m
        <4>1. k \in 1..m /\ p[j] = o[j] /\ p[k] = o[k]
          BY <3>1, <3>2
        <4>2. DOMAIN o = 1..m
          BY <2>0
        <4> QED
          BY <2>2, <3>1, <4>1, <4>2 DEF Increasing
      <3>3. CASE ~(k <= m)
        BY <2>4, <3>1, <3>3
      <3> QED
        BY <3>2, <3>3
    <2>8. \A i \in Mine(A, u) : \E k \in 1..m + 1 : p[k] = i
      <3> TAKE i \in Mine(A, u)
      <3>1. CASE i = n + 1
        <4>1. m + 1 \in 1..m + 1 /\ p[m + 1] = n + 1
          BY <2>0
        <4> QED
          BY <3>1, <4>1
      <3>2. CASE i # n + 1
        <4>1. PICK k \in 1..m : o[k] = i
          BY <2>2, <2>3, <3>2
        <4>2. k \in 1..m + 1 /\ p[k] = o[k]
          BY <2>0
        <4> QED
          BY <4>1, <4>2
      <3> QED
        BY <3>1, <3>2
    <2> HIDE DEF p
    <2>9. Unsent(A, u) = [k \in 1..m + 1 |-> A[p[k]].write]
      <3>1. Enumerates(p, m + 1, Mine(A, u))
        BY <2>0, <2>6, <2>7, <2>8 DEF Enumerates
      <3> QED
        BY <1>1, <3>1, UnsentIs
    <2>10. \A k \in 1..m : A[p[k]].write = Unsent(ts, u)[k]
      <3> TAKE k \in 1..m
      <3>1. p[k] = o[k] /\ o[k] \in 1..n
        BY <2>0, <2>4 DEF p
      <3> QED
        BY <1>1, <2>U, <3>1
    <2>11. A[p[m + 1]].write = t.write
      BY <1>1, <2>0 DEF p
    <2> DEFINE U == Unsent(ts, u)
    <2>12. U \in Seq(Write) /\ Len(U) = m /\ t.write \in Write
      BY <1>3, <2>U DEF Task
    <2> HIDE DEF U
    <2>13. /\ DOMAIN Append(U, t.write) = 1..m + 1 /\ Append(U, t.write)[m + 1] = t.write
           /\ \A k \in 1..m : Append(U, t.write)[k] = U[k]
           /\ Append(U, t.write) = [k \in 1..m + 1 |-> Append(U, t.write)[k]]
      BY <2>12
    <2>14. \A k \in 1..m + 1 : A[p[k]].write = Append(U, t.write)[k]
      <3> TAKE k \in 1..m + 1
      <3>1. k \in 1..m \/ k = m + 1
        BY <2>0
      <3> QED
        BY <2>10, <2>11, <2>13, <3>1 DEF U
    <2>15. Unsent(A, u) = Append(U, t.write)
      BY <2>9, <2>13, <2>14
    <2> QED
      BY <1>3, <2>15 DEF A, U
  <1> QED
    BY <1>2, <1>3

\* Taking the oldest task takes the oldest unsent write, if that is what it is.
LEMMA UnsentTail ==
    ASSUME NEW ts \in Seq(Task), ts # <<>>, NEW u
    PROVE  /\ ~(Head(ts).kind = "write" /\ Head(ts).write.by = u) => Unsent(ts, u) = Unsent(Tail(ts), u)
           /\ Head(ts).kind = "write" /\ Head(ts).write.by = u =>
                 /\ Len(Unsent(ts, u)) = Len(Unsent(Tail(ts), u)) + 1
                 /\ Unsent(ts, u)[1] = Head(ts).write
                 /\ \A k \in 1..Len(Unsent(Tail(ts), u)) : Unsent(ts, u)[k + 1] = Unsent(Tail(ts), u)[k]
  <1> DEFINE T == Tail(ts)
             n == Len(T)
             M == Mine(ts, u)
             R == Mine(T, u)
  <1>1. /\ T \in Seq(Task) /\ n \in Nat /\ DOMAIN T = 1..n /\ DOMAIN ts = 1..n + 1 /\ Head(ts) = ts[1]
        /\ \A k \in 1..n : T[k] = ts[k + 1]
    OBVIOUS
  <1> HIDE DEF T, n
  <1>2. \A k \in R : k \in 1..n /\ k + 1 \in M
    BY <1>1 DEF Mine
  <1>3. \A i \in M : i = 1 \/ i - 1 \in R
    <2> TAKE i \in M
    <2>1. i \in 1..n + 1 /\ ts[i].kind = "write" /\ ts[i].write.by = u
      BY <1>1 DEF Mine
    <2>2. CASE i # 1
      <3>1. i - 1 \in 1..n /\ T[i - 1] = ts[i]
        BY <1>1, <2>1, <2>2
      <3> QED
        BY <1>1, <2>1, <3>1 DEF Mine
    <2> QED
      BY <2>2
  <1>4. 1 \in M <=> Head(ts).kind = "write" /\ Head(ts).write.by = u
    BY <1>1 DEF Mine
  <1>5. PICK m, o : Enumerates(o, m, R)
    BY <1>1, MineListed
  <1> HIDE DEF M, R
  <1>6. m \in Nat /\ o \in [1..m -> R]
    BY <1>5 DEF Enumerates
  <1>7. Increasing(o) /\ \A i \in R : \E k \in 1..m : o[k] = i
    BY <1>5 DEF Enumerates
  <1>8. Unsent(T, u) = [k \in 1..m |-> T[o[k]].write] /\ Len(Unsent(T, u)) = m
    BY <1>1, <1>5, UnsentIs DEF R
  <1>9. \A k \in 1..m : /\ o[k] \in 1..n /\ o[k] \in Int /\ o[k] + 1 \in M
                        /\ T[o[k]] = ts[o[k] + 1]
    BY <1>1, <1>2, <1>6
  <1>10. \A j, k \in 1..m : j < k => o[j] < o[k]
    BY <1>6, <1>7 DEF Increasing
  <1>11. CASE 1 \notin M
    <2> DEFINE p == [k \in 1..m |-> o[k] + 1]
    <2>1. p \in [1..m -> M]
      BY <1>9
    <2>2. Increasing(p)
      BY <1>9, <1>10 DEF Increasing
    <2>3. \A i \in M : \E k \in 1..m : p[k] = i
      <3> TAKE i \in M
      <3>1. i - 1 \in R
        BY <1>3, <1>11
      <3>2. PICK k \in 1..m : o[k] = i - 1
        BY <1>7, <3>1
      <3>3. i \in Int
        BY MineInts DEF M
      <3> QED
        BY <1>9, <3>2, <3>3
    <2>4. \A k \in 1..m : p[k] = o[k] + 1
      OBVIOUS
    <2> HIDE DEF p
    <2>5. Enumerates(p, m, M)
      BY <1>6, <2>1, <2>2, <2>3 DEF Enumerates
    <2>6. Unsent(ts, u) = [k \in 1..m |-> ts[p[k]].write]
      BY <2>5, UnsentIs DEF M
    <2>7. \A k \in 1..m : ts[p[k]].write = T[o[k]].write
      BY <1>9, <2>4
    <2>8. Unsent(ts, u) = Unsent(T, u)
      BY <1>8, <2>6, <2>7
    <2> QED
      BY <1>4, <1>11, <2>8 DEF T
  <1>12. CASE 1 \in M
    <2> DEFINE p == [k \in 1..m + 1 |-> IF k = 1 THEN 1 ELSE o[k - 1] + 1]
    <2>1. \A k \in 1..m + 1 : k = 1 \/ (k - 1 \in 1..m /\ k # 1 /\ p[k] = o[k - 1] + 1)
      BY <1>6
    <2>2. p[1] = 1 /\ 1 \in 1..m + 1
      BY <1>6
    <2>3. p \in [1..m + 1 -> M]
      <3>1. \A k \in 1..m + 1 : p[k] \in M
        BY <1>9, <1>12, <2>1, <2>2
      <3> QED
        BY <3>1
    <2>4. \A k \in 1..m : k + 1 \in 1..m + 1 /\ p[k + 1] = o[k] + 1
      <3> TAKE k \in 1..m
      <3>1. k + 1 \in 1..m + 1 /\ k + 1 # 1 /\ (k + 1) - 1 = k
        BY <1>6
      <3> QED
        BY <3>1
    <2>5. DOMAIN p = 1..m + 1
      OBVIOUS
    <2> HIDE DEF p
    <2>6. Increasing(p)
      <3> SUFFICES ASSUME NEW j \in 1..m + 1, NEW k \in 1..m + 1, j < k PROVE p[j] < p[k]
        BY <2>5 DEF Increasing
      <3>1. k - 1 \in 1..m /\ p[k] = o[k - 1] + 1
        BY <1>6, <2>1
      <3>2. CASE j = 1
        BY <1>9, <2>2, <3>1, <3>2
      <3>3. CASE j # 1
        <4>1. j - 1 \in 1..m /\ p[j] = o[j - 1] + 1 /\ j - 1 < k - 1
          BY <1>6, <2>1, <3>3
        <4>2. o[j - 1] < o[k - 1]
          BY <1>10, <3>1, <4>1
        <4> QED
          BY <1>9, <3>1, <4>1, <4>2
      <3> QED
        BY <3>2, <3>3
    <2>7. \A i \in M : \E k \in 1..m + 1 : p[k] = i
      <3> TAKE i \in M
      <3>1. CASE i = 1
        BY <2>2, <3>1
      <3>2. CASE i # 1
        <4>1. i - 1 \in R
          BY <1>3, <3>2
        <4>2. PICK k \in 1..m : o[k] = i - 1
          BY <1>7, <4>1
        <4>3. i \in Int
          BY MineInts DEF M
        <4>4. k + 1 \in 1..m + 1 /\ p[k + 1] = i
          BY <1>9, <2>4, <4>2, <4>3
        <4> QED
          BY <4>4
      <3> QED
        BY <3>1, <3>2
    <2>8. Enumerates(p, m + 1, M)
      BY <1>6, <2>3, <2>6, <2>7 DEF Enumerates
    <2>9. Unsent(ts, u) = [k \in 1..m + 1 |-> ts[p[k]].write] /\ Len(Unsent(ts, u)) = m + 1
      BY <2>8, UnsentIs DEF M
    <2>10. Unsent(ts, u)[1] = Head(ts).write
      BY <1>1, <2>2, <2>9
    <2>11. \A k \in 1..m : Unsent(ts, u)[k + 1] = Unsent(T, u)[k]
      <3> TAKE k \in 1..m
      <3>1. Unsent(ts, u)[k + 1] = ts[p[k + 1]].write
        BY <2>4, <2>9
      <3>2. ts[p[k + 1]] = T[o[k]]
        BY <1>9, <2>4
      <3> QED
        BY <1>8, <3>1, <3>2
    <2> QED
      BY <1>4, <1>8, <1>12, <2>9, <2>10, <2>11 DEF T
  <1> QED
    BY <1>11, <1>12

\* Without tasks nothing is unsent.
LEMMA UnsentEmpty ==
    ASSUME NEW u
    PROVE  Unsent(<<>>, u) = <<>>
  <1>1. <<>> \in Seq(Task) /\ Mine(<<>>, u) = {}
    BY DEF Mine
  <1>2. PICK m, o : Enumerates(o, m, Mine(<<>>, u))
    BY <1>1, MineListed
  <1>3. m \in Nat /\ o \in [1..m -> {}]
    BY <1>1, <1>2 DEF Enumerates
  <1>4. m = 0
    <2>1. CASE m # 0
      <3>1. 1 \in 1..m
        BY <1>3, <2>1
      <3> QED
        BY <1>3, <3>1
    <2> QED
      BY <2>1
  <1>5. Unsent(<<>>, u) \in Seq(Write) /\ Len(Unsent(<<>>, u)) = 0
    BY <1>1, <1>2, <1>4, UnsentIs
  <1> QED
    BY <1>5

-----------------------------------------------------------------------------
(* The line of an account: persisted, then unsent.                         *)

Kept(Q) == [k \in DOMAIN Q |-> Q[k].write]

\* The writes of u persisted in Q and those among the tasks ts.
Line(Q, ts, u) == Kept(Q) \o Unsent(ts, u)

\* The queue of the channel is the line.
LEMMA IssuedIs ==
    ASSUME NEW u
    PROVE  /\ Issued(u) = Line(QueueOf(batches[u]), tasks, u)
           /\ Issued(u)' = Line(QueueOf(batches'[u]), tasks', u)
  <1>1. Issued(u) = Line(QueueOf(batches[u]), tasks, u)
    BY DEF Issued, Line, Kept, Unsent, Mine
  <1>2. Issued(u)' = Line(QueueOf(batches'[u]), tasks', u)
    BY DEF Issued, Line, Kept, Unsent, Mine
  <1> QED
    BY <1>1, <1>2

\* Length and elements of the line.
LEMMA LineFacts ==
    ASSUME NEW Q \in Seq(Batch), NEW ts \in Seq(Task), NEW u
    PROVE  /\ Line(Q, ts, u) \in Seq(Write) /\ Unsent(ts, u) \in Seq(Write)
           /\ Len(Line(Q, ts, u)) = Len(Q) + Len(Unsent(ts, u))
           /\ Len(Q) \in Nat /\ Len(Unsent(ts, u)) \in Nat
           /\ \A k \in 1..Len(Q) : Line(Q, ts, u)[k] = Q[k].write /\ Q[k].write \in Write
           /\ \A k \in 1..Len(Unsent(ts, u)) : Line(Q, ts, u)[Len(Q) + k] = Unsent(ts, u)[k]
  <1> DEFINE K == Kept(Q)
             U == Unsent(ts, u)
  <1>1. \A k \in 1..Len(Q) : Q[k].write \in Write
    <2> TAKE k \in 1..Len(Q)
    <2>1. Q[k] \in Batch
      OBVIOUS
    <2> QED
      BY <2>1 DEF Batch
  <1>2. DOMAIN Q = 1..Len(Q) /\ Len(Q) \in Nat
    OBVIOUS
  <1>3. K = [k \in 1..Len(Q) |-> Q[k].write]
    BY <1>2 DEF Kept
  <1>4. Len(K) = Len(Q) /\ \A k \in 1..Len(Q) : K[k] = Q[k].write
    BY <1>1, <1>2, <1>3
  <1>K. K \in Seq(Write)
    BY <1>1, <1>2, <1>3
  <1>5. PICK m, o : Enumerates(o, m, Mine(ts, u))
    BY MineListed
  <1>6. U \in Seq(Write)
    BY <1>5, UnsentIs
  <1> HIDE DEF K, U
  <1>7. Len(U) \in Nat
    BY <1>6
  <1>8. /\ K \o U \in Seq(Write) /\ Len(K \o U) = Len(K) + Len(U)
        /\ \A k \in 1..Len(K) : (K \o U)[k] = K[k]
        /\ \A k \in 1..Len(U) : (K \o U)[Len(K) + k] = U[k]
    BY <1>K, <1>6, Joined
  <1> QED
    BY <1>1, <1>2, <1>4, <1>6, <1>7, <1>8, <1>K DEF Line, K, U

\* Two sequences are equal when their elements are.
LEMMA SameWrites ==
    ASSUME NEW s \in Seq(Write), NEW t \in Seq(Write), Len(s) = Len(t),
           \A k \in 1..Len(s) : s[k] = t[k]
    PROVE  s = t
  BY SeqEqual

\* A tap on u's account appends to its line; other tasks do not.
LEMMA LineAppend ==
    ASSUME NEW Q \in Seq(Batch), NEW ts \in Seq(Task), NEW t \in Task, NEW u
    PROVE  Line(Q, Append(ts, t), u) =
               IF t.kind = "write" /\ t.write.by = u
               THEN Append(Line(Q, ts, u), t.write)
               ELSE Line(Q, ts, u)
  <1>1. CASE ~(t.kind = "write" /\ t.write.by = u)
    <2>1. Unsent(Append(ts, t), u) = Unsent(ts, u)
      BY <1>1, UnsentAppend
    <2> QED
      BY <1>1, <2>1 DEF Line
  <1>2. CASE t.kind = "write" /\ t.write.by = u
    <2> DEFINE A == Append(ts, t)
               U == Unsent(ts, u)
               V == Unsent(A, u)
               L == Line(Q, ts, u)
               M == Line(Q, A, u)
               n == Len(Q)
    <2>A. A \in Seq(Task)
      OBVIOUS
    <2>1. V = Append(U, t.write)
      BY <1>2, UnsentAppend
    <2> HIDE DEF A
    <2>2. /\ L \in Seq(Write) /\ U \in Seq(Write) /\ Len(L) = n + Len(U) /\ n \in Nat /\ Len(U) \in Nat
          /\ \A k \in 1..n : L[k] = Q[k].write
          /\ \A k \in 1..Len(U) : L[n + k] = U[k]
      BY LineFacts
    <2>3. /\ M \in Seq(Write) /\ Len(M) = n + Len(V)
          /\ \A k \in 1..n : M[k] = Q[k].write
          /\ \A k \in 1..Len(V) : M[n + k] = V[k]
      BY <2>A, LineFacts
    <2>4. t.write \in Write
      BY <1>2 DEF Task
    <2> HIDE DEF U, V, L, M, n
    <2>5. Len(V) = Len(U) + 1 /\ V[Len(U) + 1] = t.write /\ \A k \in 1..Len(U) : V[k] = U[k]
      BY <2>1, <2>2, <2>4
    <2>6. /\ Append(L, t.write) \in Seq(Write) /\ Len(Append(L, t.write)) = Len(L) + 1
          /\ Append(L, t.write)[Len(L) + 1] = t.write
          /\ \A k \in 1..Len(L) : Append(L, t.write)[k] = L[k]
      BY <2>2, <2>4
    <2>N. n \in Nat /\ Len(U) \in Nat
      BY <2>2
    <2>7. \A k \in 1..n + Len(U) + 1 : M[k] = Append(L, t.write)[k]
      <3> TAKE k \in 1..n + Len(U) + 1
      <3>1. CASE k <= n
        <4>1. k \in 1..n /\ k \in 1..Len(L)
          BY <2>2, <3>1
        <4> QED
          BY <2>2, <2>3, <2>6, <4>1
      <3>2. CASE n < k
        <4>1. k - n \in 1..Len(V) /\ n + (k - n) = k
          BY <2>2, <2>5, <3>2
        <4>2. M[k] = V[k - n]
          BY <2>3, <4>1
        <4>3. CASE k = n + Len(U) + 1
          <5>1. k - n = Len(U) + 1
            BY <2>2, <4>3
          <5> QED
            BY <2>2, <2>5, <2>6, <4>2, <4>3, <5>1
        <4>4. CASE k # n + Len(U) + 1
          <5>0. k \in Int /\ n < k /\ k < n + Len(U) + 1 /\ n \in Nat /\ Len(U) \in Nat
            BY <2>N, <3>2, <4>4
          <5>1. k - n \in 1..Len(U) /\ k \in 1..Len(L)
            BY <2>2, <5>0
          <5>2. L[k] = U[k - n]
            BY <2>2, <4>1, <5>1
          <5> QED
            BY <2>5, <2>6, <4>2, <5>1, <5>2
        <4> QED
          BY <4>3, <4>4
      <3> QED
        BY <2>2, <3>1, <3>2
    <2>8. M = Append(L, t.write)
      <3>1. Len(M) = n + Len(U) + 1 /\ Len(Append(L, t.write)) = n + Len(U) + 1
        BY <2>2, <2>3, <2>5, <2>6
      <3> QED
        BY <2>3, <2>6, <2>7, <3>1, SameWrites
    <2> QED
      BY <1>2, <2>8 DEF A, L, M
  <1> QED
    BY <1>1, <1>2

\* The worker persists the oldest task: the line stays.
LEMMA LineKeep ==
    ASSUME NEW Q \in Seq(Batch), NEW ts \in Seq(Task), ts # <<>>, NEW u,
           Head(ts).kind = "write", Head(ts).write.by = u, NEW b \in Batch, b.write = Head(ts).write
    PROVE  Line(Append(Q, b), Tail(ts), u) = Line(Q, ts, u)
  <1> DEFINE T == Tail(ts)
             R == Append(Q, b)
             U == Unsent(ts, u)
             V == Unsent(T, u)
             L == Line(Q, ts, u)
             M == Line(R, T, u)
             n == Len(Q)
  <1>R. T \in Seq(Task) /\ R \in Seq(Batch)
    OBVIOUS
  <1>1. Len(R) = n + 1 /\ R[n + 1] = b /\ \A k \in 1..n : R[k] = Q[k]
    OBVIOUS
  <1>4. Len(U) = Len(V) + 1 /\ U[1] = b.write /\ \A k \in 1..Len(V) : U[k + 1] = V[k]
    BY UnsentTail
  <1> HIDE DEF T, R
  <1>2. /\ L \in Seq(Write) /\ Len(L) = n + Len(U) /\ n \in Nat /\ Len(U) \in Nat
        /\ \A k \in 1..n : L[k] = Q[k].write
        /\ \A k \in 1..Len(U) : L[n + k] = U[k]
    BY LineFacts
  <1>3. /\ M \in Seq(Write) /\ Len(M) = Len(R) + Len(V) /\ Len(V) \in Nat
        /\ \A k \in 1..Len(R) : M[k] = R[k].write
        /\ \A k \in 1..Len(V) : M[Len(R) + k] = V[k]
    BY <1>R, LineFacts
  <1> HIDE DEF U, V, L, M, n
  <1>5. Len(M) = n + Len(V) + 1 /\ Len(L) = n + Len(V) + 1
    BY <1>1, <1>2, <1>3, <1>4
  <1>6. \A k \in 1..n + Len(V) + 1 : M[k] = L[k]
    <2> TAKE k \in 1..n + Len(V) + 1
    <2>1. CASE k <= n
      <3>1. k \in 1..n /\ k \in 1..Len(R)
        BY <1>1, <1>2, <2>1
      <3>2. M[k] = R[k].write
        BY <1>3, <3>1
      <3>3. R[k] = Q[k]
        BY <1>1, <3>1
      <3>4. L[k] = Q[k].write
        BY <1>2, <3>1
      <3> QED
        BY <3>2, <3>3, <3>4
    <2>2. CASE k = n + 1
      <3>1. k \in 1..Len(R) /\ 1 \in 1..Len(U)
        BY <1>1, <1>2, <1>3, <1>4, <2>2
      <3> QED
        BY <1>1, <1>2, <1>3, <1>4, <2>2, <3>1
    <2>3. CASE n + 1 < k
      <3>1. /\ k - n - 1 \in 1..Len(V) /\ k - n \in 1..Len(U) /\ (k - n - 1) + 1 = k - n
            /\ Len(R) + (k - n - 1) = k /\ n + (k - n) = k
        BY <1>1, <1>2, <1>3, <1>4, <2>3
      <3>2. M[k] = V[k - n - 1] /\ L[k] = U[k - n]
        BY <1>2, <1>3, <3>1
      <3>3. U[k - n] = V[k - n - 1]
        BY <1>4, <3>1
      <3> QED
        BY <3>2, <3>3
    <2> QED
      BY <1>2, <2>1, <2>2, <2>3
  <1> QED
    BY <1>2, <1>3, <1>5, <1>6, SameWrites DEF T, R, L, M

\* A task that is not a write of u passes without a change.
LEMMA LineOther ==
    ASSUME NEW Q \in Seq(Batch), NEW ts \in Seq(Task), ts # <<>>, NEW u,
           ~(Head(ts).kind = "write" /\ Head(ts).write.by = u)
    PROVE  Line(Q, Tail(ts), u) = Line(Q, ts, u)
  <1>1. Unsent(ts, u) = Unsent(Tail(ts), u)
    BY UnsentTail
  <1> QED
    BY <1>1 DEF Line

\* Stale tokens do not change the line.
LEMMA LineForget ==
    ASSUME NEW Q \in Seq(Batch), NEW ts \in Seq(Task), NEW u
    PROVE  Line(Q, Forget(ts), u) = Line(Q, ts, u)
  <1>1. Unsent(Forget(ts), u) = Unsent(ts, u)
    BY UnsentForget
  <1> QED
    BY <1>1 DEF Line

\* The oldest batch of a queue is the oldest write of the line.
LEMMA LineDrop ==
    ASSUME NEW Q \in Seq(Batch), Q # <<>>, NEW ts \in Seq(Task), NEW u
    PROVE  Line(Tail(Q), ts, u) = Tail(Line(Q, ts, u)) /\ Line(Q, ts, u) # <<>>
  <1> DEFINE R == Tail(Q)
             U == Unsent(ts, u)
             L == Line(Q, ts, u)
             M == Line(R, ts, u)
             n == Len(R)
  <1>1. R \in Seq(Batch)
    OBVIOUS
  <1>2. n \in Nat /\ Len(Q) = n + 1 /\ \A k \in 1..n : R[k] = Q[k + 1]
    OBVIOUS
  <1> HIDE DEF R
  <1>3. /\ L \in Seq(Write) /\ Len(L) = Len(Q) + Len(U) /\ Len(U) \in Nat
        /\ \A k \in 1..Len(Q) : L[k] = Q[k].write
        /\ \A k \in 1..Len(U) : L[Len(Q) + k] = U[k]
    BY LineFacts
  <1>4. /\ M \in Seq(Write) /\ Len(M) = n + Len(U)
        /\ \A k \in 1..n : M[k] = R[k].write
        /\ \A k \in 1..Len(U) : M[n + k] = U[k]
    BY <1>1, LineFacts
  <1> HIDE DEF U, L, M, n
  <1>N. n \in Nat /\ Len(U) \in Nat /\ Len(L) = n + 1 + Len(U)
    BY <1>2, <1>3
  <1>5. L # <<>>
    BY <1>3, <1>N
  <1>6. /\ Tail(L) \in Seq(Write) /\ Len(Tail(L)) = n + Len(U)
        /\ \A k \in 1..n + Len(U) : Tail(L)[k] = L[k + 1]
    <2>0. L \in Seq(Write) /\ L # <<>>
      BY <1>3, <1>5
    <2>1. /\ Tail(L) \in Seq(Write) /\ Len(Tail(L)) = Len(L) - 1
          /\ \A k \in 1..Len(L) - 1 : Tail(L)[k] = L[k + 1]
      BY <2>0
    <2>2. Len(L) - 1 = n + Len(U)
      BY <1>N
    <2> QED
      BY <2>1, <2>2
  <1>7. \A k \in 1..n + Len(U) : M[k] = Tail(L)[k]
    <2> TAKE k \in 1..n + Len(U)
    <2>1. CASE k <= n
      <3>1. k \in 1..n /\ k + 1 \in 1..Len(Q)
        BY <1>2, <1>N, <2>1
      <3>2. M[k] = R[k].write /\ R[k] = Q[k + 1]
        BY <1>2, <1>4, <3>1
      <3>3. L[k + 1] = Q[k + 1].write
        BY <1>3, <3>1
      <3> QED
        BY <1>6, <3>2, <3>3
    <2>2. CASE n < k
      <3>1. k - n \in 1..Len(U) /\ n + (k - n) = k /\ (n + 1) + (k - n) = k + 1
        BY <1>N, <2>2
      <3>2. M[k] = U[k - n]
        BY <1>4, <3>1
      <3>3. L[k + 1] = U[k - n]
        BY <1>2, <1>3, <3>1
      <3> QED
        BY <1>6, <3>2, <3>3
    <2> QED
      BY <1>N, <2>1, <2>2
  <1>8. M = Tail(L)
    BY <1>4, <1>6, <1>7, SameWrites
  <1> QED
    BY <1>5, <1>8 DEF R, L, M

\* Without the tasks, the persisted front of the line is left.
LEMMA LineLose ==
    ASSUME NEW Q \in Seq(Batch), NEW ts \in Seq(Task), NEW u
    PROVE  /\ Line(Q, <<>>, u) = SubSeq(Line(Q, ts, u), 1, Len(Q))
           /\ Len(Q) \in 0..Len(Line(Q, ts, u))
  <1> DEFINE L == Line(Q, ts, u)
             M == Line(Q, <<>>, u)
             n == Len(Q)
  <1>1. /\ L \in Seq(Write) /\ Len(L) = n + Len(Unsent(ts, u)) /\ Len(Unsent(ts, u)) \in Nat
        /\ n \in Nat /\ \A k \in 1..n : L[k] = Q[k].write
    BY LineFacts
  <1>2. <<>> \in Seq(Task)
    OBVIOUS
  <1>3. /\ M \in Seq(Write) /\ Len(M) = n + Len(Unsent(<<>>, u))
        /\ \A k \in 1..n : M[k] = Q[k].write
    BY <1>2, LineFacts
  <1>4. Len(Unsent(<<>>, u)) = 0
    <2>1. Unsent(<<>>, u) = <<>>
      BY UnsentEmpty
    <2>2. Len(<<>>) = 0
      OBVIOUS
    <2> QED
      BY <2>1, <2>2, Zenon
  <1> HIDE DEF L, M, n
  <1>5. n \in 0..Len(L) /\ Len(M) = n
    <2>1. n \in Nat /\ Len(L) = n + Len(Unsent(ts, u)) /\ Len(Unsent(ts, u)) \in Nat
      BY <1>1
    <2>2. Len(M) = n + 0
      BY <1>3, <1>4
    <2> QED
      BY <2>1, <2>2
  <1>6. /\ SubSeq(L, 1, n) \in Seq(Write) /\ Len(SubSeq(L, 1, n)) = n
        /\ \A k \in 1..n : SubSeq(L, 1, n)[k] = L[k]
    BY <1>1, <1>5
  <1>7. M = SubSeq(L, 1, n)
    BY <1>1, <1>3, <1>5, <1>6, SameWrites
  <1> QED
    BY <1>5, <1>7 DEF L, M, n

\* At the start the line is empty.
LEMMA LineEmpty ==
    ASSUME NEW u
    PROVE  Line(<<>>, <<>>, u) = <<>>
  <1>1. <<>> \in Seq(Batch) /\ <<>> \in Seq(Task)
    OBVIOUS
  <1>2. Unsent(<<>>, u) = <<>>
    BY UnsentEmpty
  <1>3. Kept(<<>>) = <<>>
    BY DEF Kept
  <1> QED
    BY <1>2, <1>3 DEF Line

-----------------------------------------------------------------------------
(* The successes on the wire.                                              *)

Good(tc, u) == {k \in DOMAIN tc : tc[k].kind = "result" /\ tc[k].write.by = u}

\* The first m answers in tc, and no others, are successes, and they are of b's writes.
Successes(tc, m, b) ==
    /\ m \in 0..Len(tc)
    /\ \A k \in 1..Len(tc) :
          /\ tc[k].kind = "result" <=> k <= m
          /\ k <= m => tc[k].write.by = b

\* What the channel calls sent.
LEMMA AnsweredIs ==
    ASSUME NEW u
    PROVE  Answered(u) = Cardinality(Good(toClient, u)) /\ Answered(u)' = Cardinality(Good(toClient', u))
  BY DEF Answered, Good

\* The successes of the account that opened the stream are counted, and there are no others.
LEMMA CountIs ==
    ASSUME NEW tc \in Seq(Reply), NEW m, NEW b, NEW u, Successes(tc, m, b)
    PROVE  m \in Nat /\ Cardinality(Good(tc, u)) = IF u = b THEN m ELSE 0
  <1>1. Len(tc) \in Nat /\ DOMAIN tc = 1..Len(tc)
    OBVIOUS
  <1>2. m \in Nat /\ m <= Len(tc)
    BY <1>1 DEF Successes
  <1>3. CASE u = b
    <2>1. \A k : k \in Good(tc, u) <=> k \in 1..m
      BY <1>1, <1>2, <1>3 DEF Good, Successes
    <2>2. Good(tc, u) = 1..m
      BY <2>1
    <2>3. Cardinality(1..m) = m
      BY <1>2, FS_Interval
    <2> QED
      BY <1>2, <1>3, <2>2, <2>3
  <1>4. CASE u # b
    <2>1. Good(tc, u) = {}
      BY <1>1, <1>2, <1>4 DEF Good, Successes
    <2>2. Cardinality({}) = 0
      BY FS_EmptySet
    <2> QED
      BY <1>2, <1>4, <2>1, <2>2
  <1> QED
    BY <1>3, <1>4

\* Taking the first answer takes the first success, if there is one.
LEMMA SuccessesTail ==
    ASSUME NEW tc \in Seq(Reply), tc # <<>>, NEW m, NEW b, Successes(tc, m, b)
    PROVE  /\ m \in Nat /\ (Head(tc).kind = "result" <=> m > 0)
           /\ Successes(Tail(tc), IF m = 0 THEN 0 ELSE m - 1, b)
  <1> DEFINE T == Tail(tc)
             n == Len(T)
             l == IF m = 0 THEN 0 ELSE m - 1
  <1>1. /\ n \in Nat /\ Len(tc) = n + 1 /\ Head(tc) = tc[1]
        /\ \A k \in 1..n : T[k] = tc[k + 1] /\ k + 1 \in 1..n + 1
    OBVIOUS
  <1> HIDE DEF T
  <1>2. m \in Nat /\ m <= n + 1
    BY <1>1 DEF Successes
  <1>3. tc[1].kind = "result" <=> m > 0
    BY <1>1, <1>2 DEF Successes
  <1>4. l \in 0..n
    BY <1>1, <1>2
  <1> HIDE DEF n
  <1>5. ASSUME NEW k \in 1..n
        PROVE  /\ T[k].kind = "result" <=> k <= l
               /\ k <= l => T[k].write.by = b
    <2>1. T[k] = tc[k + 1] /\ k + 1 \in 1..Len(tc)
      BY <1>1
    <2>2. k <= l <=> k + 1 <= m
      BY <1>1, <1>2
    <2>3. /\ tc[k + 1].kind = "result" <=> k + 1 <= m
          /\ k + 1 <= m => tc[k + 1].write.by = b
      BY <2>1 DEF Successes
    <2> QED
      BY <2>1, <2>2, <2>3
  <1> HIDE DEF l
  <1>6. Successes(T, l, b)
    BY <1>4, <1>5 DEF Successes, n
  <1> QED
    BY <1>1, <1>2, <1>3, <1>6 DEF T, l

\* A success behind successes is one more.
LEMMA SuccessesAppend ==
    ASSUME NEW tc \in Seq(Reply), NEW m, NEW b, Successes(tc, m, b), NEW r \in Reply
    PROVE  /\ r.kind # "result" => Successes(Append(tc, r), m, b)
           /\ r.kind = "result" /\ r.write.by = b /\ m = Len(tc) => Successes(Append(tc, r), m + 1, b)
  <1> DEFINE A == Append(tc, r)
             n == Len(tc)
  <1>1. /\ n \in Nat /\ Len(A) = n + 1 /\ A[n + 1] = r
        /\ \A k \in 1..n : A[k] = tc[k]
    OBVIOUS
  <1>2. m \in Nat /\ m <= n
    BY <1>1 DEF Successes
  <1>3. \A k \in 1..n : /\ tc[k].kind = "result" <=> k <= m
                        /\ k <= m => tc[k].write.by = b
    BY DEF Successes
  <1> HIDE DEF A, n
  <1>4. \A k \in 1..n + 1 : k \in 1..n \/ k = n + 1
    BY <1>1
  <1>5. ASSUME r.kind # "result" PROVE Successes(A, m, b)
    <2>1. m \in 0..n + 1 /\ ~(n + 1 <= m)
      BY <1>1, <1>2
    <2> QED
      BY <1>1, <1>3, <1>4, <1>5, <2>1 DEF Successes
  <1>6. ASSUME r.kind = "result", r.write.by = b, m = n PROVE Successes(A, m + 1, b)
    <2>1. m + 1 \in 0..n + 1 /\ n + 1 <= m + 1 /\ \A k \in 1..n : k <= m /\ k <= m + 1
      BY <1>1, <1>2, <1>6
    <2>2. ASSUME NEW k \in 1..n + 1
          PROVE  /\ A[k].kind = "result" <=> k <= m + 1
                 /\ k <= m + 1 => A[k].write.by = b
      <3>1. CASE k \in 1..n
        BY <1>1, <1>3, <2>1, <3>1
      <3>2. CASE k = n + 1
        BY <1>1, <1>6, <2>1, <3>2
      <3> QED
        BY <1>4, <3>1, <3>2
    <2> QED
      BY <1>1, <2>1, <2>2 DEF Successes
  <1> QED
    BY <1>5, <1>6 DEF A, n

\* The answers on the wire are successes, up to a refusal.
LEMMA WireSuccesses ==
    ASSUME Base, Numbers
    PROVE  \E m : /\ Successes(toClient, m, bearer)
                  /\ m <= Len(QueueOf(batches[bearer]))
                  /\ Talking /\ ~Ended => m = Len(toClient)
  <1> DEFINE Q == QueueOf(batches[bearer])
             n == Len(toClient)
  <1>1. /\ toClient \in Seq(Reply) /\ n \in Nat /\ bearer \in Account /\ DOMAIN toClient = 1..n
        /\ Ended <=> \E k \in DOMAIN toClient : toClient[k].kind = "refusal"
    BY WireFacts
  <1>2. MutationQueue(batches[bearer])
    BY <1>1 DEF Base, Types
  <1>3. Lists(Q, batches[bearer])
    BY <1>2, QueueLists
  <1>4. Len(Q) \in Nat /\ \A k \in 1..Len(Q) : Q[k].write.by = bearer
    <2>1. \A i \in DOMAIN batches[bearer] : batches[bearer][i].by = bearer
      BY <1>1 DEF Numbers, QueueNumbers
    <2> QED
      BY <1>3, <2>1 DEF Lists
  <1> HIDE DEF Q
  <1>5. CASE ~Talking
    <2>1. toClient = <<>> \/ toClient = <<Hello>>
      BY <1>5 DEF Base, Wires, Greeting
    <2>2. \A k \in 1..n : toClient[k].kind # "result" /\ ~(k <= 0)
      BY <2>1 DEF Hello
    <2> HIDE DEF n
    <2>3. Successes(toClient, 0, bearer)
      BY <1>1, <2>2 DEF Successes, n
    <2> QED
      BY <1>4, <1>5, <2>3 DEF Q
  <1>6. CASE Talking
    <2> DEFINE m == IF Ended THEN n - 1 ELSE n
    <2>1. \A k \in 1..n : /\ toClient[k].kind # "hello" /\ k <= Len(Q) /\ toClient[k].write = Q[k].write
                          /\ toClient[k].kind = "refusal" => k = n
      BY <1>1, <1>6 DEF Talking, Talks, Q
    <2>2. Ended => n \in 1..n /\ toClient[n].kind = "refusal"
      BY <1>1, <2>1
    <2>3. \A k \in 1..n : toClient[k].kind \in {"result", "refusal"}
      <3> TAKE k \in 1..n
      <3>1. toClient[k] \in Reply
        BY <1>1
      <3> QED
        BY <2>1, <3>1 DEF Reply
    <2>4. m \in 0..n /\ m <= Len(Q)
      <3>1. n <= Len(Q)
        <4>1. CASE n = 0
          BY <1>4, <4>1
        <4>2. CASE n # 0
          <5>1. n \in 1..n
            BY <1>1, <4>2
          <5> QED
            BY <2>1, <5>1
        <4> QED
          BY <4>1, <4>2
      <3> QED
        BY <1>1, <1>4, <2>2, <3>1
    <2>5. ASSUME NEW k \in 1..n
          PROVE  /\ toClient[k].kind = "result" <=> k <= m
                 /\ k <= m => toClient[k].write.by = bearer
      <3>1. toClient[k].write.by = bearer
        <4>1. k \in 1..Len(Q) /\ toClient[k].write = Q[k].write
          BY <1>4, <2>1
        <4> QED
          BY <1>4, <4>1
      <3>2. CASE Ended
        <4>1. n \in Int /\ k \in Int /\ k <= n /\ m = n - 1
          BY <1>1, <3>2
        <4>2. k = n => toClient[k].kind # "result"
          BY <2>2, <3>2
        <4>3. k # n => toClient[k].kind = "result"
          BY <2>1, <2>3
        <4>4. k <= m <=> k # n
          BY <4>1
        <4> QED
          BY <3>1, <4>2, <4>3, <4>4
      <3>3. CASE ~Ended
        BY <1>1, <2>3, <3>1, <3>3
      <3> QED
        BY <3>2, <3>3
    <2>6. ~Ended => m = n
      OBVIOUS
    <2> HIDE DEF m
    <2>7. Successes(toClient, m, bearer)
      BY <2>4, <2>5 DEF Successes
    <2> QED
      BY <2>4, <2>6, <2>7 DEF Q
  <1> QED
    BY <1>5, <1>6

-----------------------------------------------------------------------------
(* The steps of the channel.                                               *)

\* Nothing the channel knows of has changed.
LEMMA ChannelRests ==
    ASSUME server'[Observed] = server[Observed], Issued(Observed)' = Issued(Observed),
           Answered(Observed)' = Answered(Observed)
    PROVE  UNCHANGED Channel!vars
  BY DEF Channel!vars

\* The line is that of before.
LEMMA LineSame ==
    ASSUME Base, batches'[Observed] = batches[Observed],
           \/ tasks' = tasks
           \/ tasks' = Forget(tasks)
           \/ /\ tasks # <<>> /\ ~(Head(tasks).kind = "write" /\ Head(tasks).write.by = Observed)
              /\ tasks' = Tail(tasks) \/ tasks' = Forget(Tail(tasks))
           \/ \E t \in Task : ~(t.kind = "write" /\ t.write.by = Observed) /\ tasks' = Append(tasks, t)
    PROVE  Issued(Observed)' = Issued(Observed)
  <1> DEFINE Q == QueueOf(batches[Observed])
  <1>1. tasks \in Seq(Task) /\ MutationQueue(batches[Observed])
    BY AccountAssumption DEF Base, Types
  <1>2. Q \in Seq(Batch)
    BY <1>1, QueueLists DEF Lists
  <1>3. Issued(Observed) = Line(Q, tasks, Observed) /\ Issued(Observed)' = Line(Q, tasks', Observed)
    BY IssuedIs
  <1> HIDE DEF Q
  <1>4. CASE tasks' = Forget(tasks)
    BY <1>1, <1>2, <1>3, <1>4, LineForget
  <1>5. CASE tasks # <<>> /\ ~(Head(tasks).kind = "write" /\ Head(tasks).write.by = Observed)
    <2>1. Line(Q, Tail(tasks), Observed) = Line(Q, tasks, Observed)
      BY <1>1, <1>2, <1>5, LineOther
    <2>2. Tail(tasks) \in Seq(Task)
      BY <1>1, <1>5
    <2>3. Line(Q, Forget(Tail(tasks)), Observed) = Line(Q, Tail(tasks), Observed)
      BY <1>2, <2>2, LineForget
    <2>4. CASE tasks' = Tail(tasks) \/ tasks' = Forget(Tail(tasks))
      BY <1>3, <2>1, <2>3, <2>4
    <2>5. CASE \E t \in Task : ~(t.kind = "write" /\ t.write.by = Observed) /\ tasks' = Append(tasks, t)
      BY <1>1, <1>2, <1>3, <2>5, LineAppend
    <2> QED
      BY <1>3, <1>4, <2>4, <2>5
  <1>6. CASE \E t \in Task : ~(t.kind = "write" /\ t.write.by = Observed) /\ tasks' = Append(tasks, t)
    BY <1>1, <1>2, <1>3, <1>6, LineAppend
  <1> QED
    BY <1>3, <1>4, <1>5, <1>6

\* No success of the account came or went.
LEMMA AnsweredSame ==
    ASSUME Base, Numbers,
           \/ toClient' = toClient
           \/ toClient # <<>> /\ toClient' = Tail(toClient)
              /\ (Head(toClient).kind # "result" \/ bearer # Observed)
           \/ \E r \in Reply : toClient' = Append(toClient, r)
                               /\ (r.kind # "result" \/ (Talking /\ ~Ended /\ r.write.by = bearer /\ bearer # Observed))
    PROVE  Answered(Observed)' = Answered(Observed)
  <1>1. toClient \in Seq(Reply)
    BY WireFacts
  <1>2. /\ Answered(Observed) = Cardinality(Good(toClient, Observed))
        /\ Answered(Observed)' = Cardinality(Good(toClient', Observed))
    BY AnsweredIs
  <1>3. PICK m : Successes(toClient, m, bearer) /\ (Talking /\ ~Ended => m = Len(toClient))
    BY WireSuccesses
  <1>4. m \in Nat /\ Cardinality(Good(toClient, Observed)) = IF Observed = bearer THEN m ELSE 0
    BY <1>1, <1>3, CountIs
  <1>5. CASE toClient # <<>> /\ toClient' = Tail(toClient)
             /\ (Head(toClient).kind # "result" \/ bearer # Observed)
    <2> DEFINE l == IF m = 0 THEN 0 ELSE m - 1
    <2>1. (Head(toClient).kind = "result" <=> m > 0) /\ Successes(Tail(toClient), l, bearer)
      BY <1>1, <1>3, <1>5, SuccessesTail
    <2>2. Tail(toClient) \in Seq(Reply)
      BY <1>1, <1>5
    <2>3. m = 0 => l = 0
      OBVIOUS
    <2> HIDE DEF l
    <2>4. Cardinality(Good(Tail(toClient), Observed)) = IF Observed = bearer THEN l ELSE 0
      BY <2>1, <2>2, CountIs
    <2>5. Observed = bearer => m = 0
      BY <1>4, <1>5, <2>1
    <2> QED
      BY <1>2, <1>4, <1>5, <2>3, <2>4, <2>5
  <1>6. ASSUME NEW r \in Reply, toClient' = Append(toClient, r),
               r.kind # "result" \/ (Talking /\ ~Ended /\ r.write.by = bearer /\ bearer # Observed)
        PROVE  Answered(Observed)' = Answered(Observed)
    <2>1. Append(toClient, r) \in Seq(Reply)
      BY <1>1
    <2>2. CASE r.kind # "result"
      <3>1. Successes(Append(toClient, r), m, bearer)
        BY <1>1, <1>3, <2>2, SuccessesAppend
      <3>2. Cardinality(Good(Append(toClient, r), Observed)) = IF Observed = bearer THEN m ELSE 0
        BY <2>1, <3>1, CountIs
      <3> QED
        BY <1>2, <1>4, <1>6, <3>2
    <2>3. CASE r.kind = "result"
      <3>1. Successes(Append(toClient, r), m + 1, bearer)
        BY <1>1, <1>3, <1>6, <2>3, SuccessesAppend
      <3>2. Cardinality(Good(Append(toClient, r), Observed)) = IF Observed = bearer THEN m + 1 ELSE 0
        BY <2>1, <3>1, CountIs
      <3> QED
        BY <1>2, <1>4, <1>6, <2>3, <3>2
    <2> QED
      BY <2>2, <2>3
  <1> QED
    BY <1>2, <1>5, <1>6

\* A tap on the account is an Issue, one on another account nothing.
LEMMA ChannelMakeWrite ==
    ASSUME Base, Numbers, MakeWrite
    PROVE  [Channel!Next]_(Channel!vars)
  <1> DEFINE t == [kind |-> "write", write |-> [by |-> auth, n |-> issued + 1]]
             Q == QueueOf(batches[Observed])
             L == Issued(Observed)
  <1>0. auth \in Account /\ issued + 1 \in 1..MaxWrites
    BY WriteBoundAssumption DEF MakeWrite, Base, Types
  <1>1. t \in Task /\ t.kind = "write" /\ t.write.by = auth /\ t.write \in Write
    BY <1>0 DEF Task, Write
  <1>2. tasks' = Append(tasks, t) /\ UNCHANGED <<batches, server, toClient>>
    BY DEF MakeWrite, local, wire
  <1> HIDE DEF t
  <1>3. Answered(Observed)' = Answered(Observed)
    BY <1>2, AnsweredSame
  <1>4. CASE auth # Observed
    <2>1. Issued(Observed)' = Issued(Observed)
      BY <1>1, <1>2, <1>4, LineSame
    <2> QED
      BY <1>2, <1>3, <2>1, ChannelRests
  <1>5. CASE auth = Observed
    <2>1. tasks \in Seq(Task) /\ MutationQueue(batches[Observed])
      BY AccountAssumption DEF Base, Types
    <2>2. Q \in Seq(Batch)
      BY <2>1, QueueLists DEF Lists
    <2>3. L = Line(Q, tasks, Observed) /\ L' = Line(Q, tasks', Observed)
      BY <1>2, IssuedIs
    <2> HIDE DEF Q
    <2>4. Line(Q, Append(tasks, t), Observed) = Append(Line(Q, tasks, Observed), t.write)
      BY <1>1, <1>5, <2>1, <2>2, LineAppend
    <2>5. Line(Q, tasks, Observed) \in Seq(Write)
      BY <2>1, <2>2, LineFacts
    <2>6. PICK s \in Seq(Write) : s = L
      BY <2>3, <2>5
    <2>7. L' = Append(s, t.write)
      BY <1>2, <2>3, <2>4, <2>6
    <2>8. Len(s) <= Len(Append(s, t.write)) /\ SubSeq(s, 1, Len(s)) = SubSeq(Append(s, t.write), 1, Len(s))
      BY <1>1
    <2>9. Channel!IsPrefix(s, Append(s, t.write))
      BY <2>8 DEF Channel!IsPrefix
    <2>10. Channel!Issue
      BY <1>2, <1>3, <2>6, <2>7, <2>9 DEF Channel!Issue
    <2> QED
      BY <2>10 DEF Channel!Next
  <1> QED
    BY <1>4, <1>5

\* Persisting a write moves it within the line.
LEMMA ChannelRunWrite ==
    ASSUME Base, Logins, Numbers, RunWrite
    PROVE  UNCHANGED Channel!vars
  <1> DEFINE Q == QueueOf(batches[current])
             b == [id |-> nextId, write |-> Head(tasks).write]
             R == Append(Q, b)
  <1>0. tasks # <<>> /\ Head(tasks).kind = "write" /\ tasks' = Tail(tasks)
        /\ UNCHANGED <<server, toClient>>
    BY DEF RunWrite
  <1>1. Head(tasks).write.by = current
    BY <1>0, TokenIsOwn
  <1>2. /\ b \in Batch /\ b.write = Head(tasks).write
        /\ QueueOf(batches'[current]) = R
        /\ \A u \in Account : u # current => batches'[u] = batches[u]
    <2> HIDE DEF Q
    <2>1. b.write = Head(tasks).write
      OBVIOUS
    <2>2. Q = QueueOf(batches[current]) /\ b = [id |-> nextId, write |-> Head(tasks).write]
      BY DEF Q
    <2> HIDE DEF b
    <2> QED
      BY <2>1, <2>2, RunWriteEffect
  <1>3. Answered(Observed)' = Answered(Observed)
    BY <1>0, AnsweredSame
  <1>4. CASE current # Observed
    <2>1. batches'[Observed] = batches[Observed]
      BY <1>2, <1>4, AccountAssumption
    <2>2. Issued(Observed)' = Issued(Observed)
      BY <1>0, <1>1, <1>4, <2>1, LineSame
    <2> QED
      BY <1>0, <1>3, <2>2, ChannelRests
  <1>5. CASE current = Observed
    <2>1. tasks \in Seq(Task) /\ MutationQueue(batches[current])
      BY DEF Base, Types
    <2>2. Q \in Seq(Batch)
      BY <2>1, QueueLists DEF Lists
    <2>3. Issued(Observed) = Line(Q, tasks, Observed)
      BY <1>5, IssuedIs
    <2>4. Issued(Observed)' = Line(R, Tail(tasks), Observed)
      BY <1>0, <1>2, <1>5, IssuedIs
    <2> HIDE DEF Q, b
    <2>5. Line(Append(Q, b), Tail(tasks), Observed) = Line(Q, tasks, Observed)
      BY <1>0, <1>1, <1>2, <1>5, <2>1, <2>2, LineKeep
    <2>6. Issued(Observed)' = Issued(Observed)
      BY <2>3, <2>4, <2>5
    <2> QED
      BY <1>0, <1>3, <2>6, ChannelRests
  <1> QED
    BY <1>4, <1>5

\* A stream that opens forgets the answers of the last one: a Break.
LEMMA ChannelRunToken ==
    ASSUME Base, Logins, Numbers, RunToken
    PROVE  [Channel!Next]_(Channel!vars)
  <1>0. /\ tasks # <<>> /\ Head(tasks).kind = "token" /\ UNCHANGED <<batches, server>>
        /\ tasks' = Tail(tasks) \/ tasks' = Forget(Tail(tasks))
        /\ toClient' = toClient \/ toClient' = <<>>
    BY DEF RunToken, CloseOnError, local
  <1>1. Issued(Observed)' = Issued(Observed)
    BY <1>0, LineSame
  <1>2. CASE toClient' = toClient
    <2>1. Answered(Observed)' = Answered(Observed)
      BY <1>2, AnsweredSame
    <2> QED
      BY <1>0, <1>1, <2>1, ChannelRests
  <1>3. CASE toClient' = <<>>
    <2>1. Good(toClient', Observed) = {}
      BY <1>3 DEF Good
    <2>2. Cardinality({}) = 0
      BY FS_EmptySet
    <2>3. Answered(Observed)' = 0
      BY <2>1, <2>2, AnsweredIs
    <2> QED
      BY <1>0, <1>1, <2>3 DEF Channel!Next, Channel!Break
  <1> QED
    BY <1>0, <1>2, <1>3

\* The first batch is dropped: the head of the line, or nothing of it.
LEMMA LineDropped ==
    ASSUME Base, NEW Q, Q = QueueOf(batches[current]), Q # <<>>, Drops(Q),
           tasks' = tasks \/ tasks' = Forget(tasks)
    PROVE  /\ current # Observed => Issued(Observed)' = Issued(Observed)
           /\ current = Observed => Issued(Observed)' = Tail(Issued(Observed)) /\ Issued(Observed) # <<>>
  <1>1. CASE current # Observed
    <2>1. batches'[Observed] = batches[Observed]
      BY <1>1, AccountAssumption DEF Drops
    <2> QED
      BY <1>1, <2>1, LineSame
  <1>2. CASE current = Observed
    <2>1. tasks \in Seq(Task) /\ MutationQueue(batches[current])
      BY DEF Base, Types
    <2>2. Q \in Seq(Batch) /\ Tail(Q) \in Seq(Batch)
      BY <2>1, QueueLists DEF Lists
    <2>3. Issued(Observed) = Line(Q, tasks, Observed)
      BY <1>2, IssuedIs
    <2>4. Issued(Observed)' = Line(Tail(Q), tasks', Observed)
      <3>1. QueueOf(batches'[Observed]) = Tail(Q)
        BY <1>2 DEF Drops
      <3> QED
        BY <3>1, IssuedIs
    <2>5. Line(Tail(Q), Forget(tasks), Observed) = Line(Tail(Q), tasks, Observed)
      BY <2>1, <2>2, LineForget
    <2>6. Line(Tail(Q), tasks, Observed) = Tail(Line(Q, tasks, Observed)) /\ Line(Q, tasks, Observed) # <<>>
      BY <2>1, <2>2, LineDrop
    <2> QED
      BY <1>2, <2>3, <2>4, <2>5, <2>6
  <1> QED
    BY <1>1, <1>2

\* The first answer is taken off the wire.
LEMMA AnswerTaken ==
    ASSUME Base, Numbers, toClient # <<>>, toClient' = Tail(toClient)
    PROVE  /\ Head(toClient).kind = "result" /\ bearer = Observed =>
                 Answered(Observed) > 0 /\ Answered(Observed)' = Answered(Observed) - 1
           /\ Head(toClient).kind # "result" /\ bearer = Observed =>
                 Answered(Observed) = 0 /\ Answered(Observed)' = 0
           /\ bearer # Observed => Answered(Observed)' = Answered(Observed)
  <1>1. CASE bearer # Observed
    BY <1>1, AnsweredSame
  <1>2. CASE bearer = Observed
    <2>1. toClient \in Seq(Reply) /\ Tail(toClient) \in Seq(Reply)
      BY WireFacts
    <2>2. PICK m : Successes(toClient, m, bearer)
      BY WireSuccesses
    <2> DEFINE l == IF m = 0 THEN 0 ELSE m - 1
    <2>3. /\ m \in Nat /\ (Head(toClient).kind = "result" <=> m > 0)
          /\ Successes(Tail(toClient), l, bearer)
      BY <2>1, <2>2, SuccessesTail
    <2>4. (m = 0 => l = 0) /\ (m > 0 => l = m - 1)
      BY <2>3
    <2> HIDE DEF l
    <2>5. Answered(Observed) = m
      BY <1>2, <2>1, <2>2, AnsweredIs, CountIs
    <2>6. Answered(Observed)' = l
      <3>1. Cardinality(Good(Tail(toClient), Observed)) = IF Observed = bearer THEN l ELSE 0
        BY <2>1, <2>3, CountIs
      <3> QED
        BY <1>2, <3>1, AnsweredIs
    <2> QED
      BY <1>2, <2>3, <2>4, <2>5, <2>6
  <1> QED
    BY <1>1, <1>2

\* A success is an Acknowledge of the account that opened the stream.
LEMMA ChannelTakeResult ==
    ASSUME Base, Numbers, TakeResult
    PROVE  [Channel!Next]_(Channel!vars)
  <1>1. PICK Q : Q = QueueOf(batches[current])
    OBVIOUS
  <1>2. /\ Drops(Q) /\ stream = "Open" /\ toClient # <<>> /\ toClient' = Tail(toClient)
    BY <1>1, TakeResultEffect
  <1>3. Head(toClient).kind = "result" /\ tasks' = tasks /\ server' = server
    BY DEF TakeResult
  <1>4. bearer = current /\ Q # <<>>
    BY <1>1, <1>2, <1>3, AnswerFacts
  <1>5. /\ current # Observed => Issued(Observed)' = Issued(Observed)
        /\ current = Observed => Issued(Observed)' = Tail(Issued(Observed))
    BY <1>1, <1>2, <1>3, <1>4, LineDropped
  <1>6. CASE current # Observed
    <2>1. Answered(Observed)' = Answered(Observed)
      BY <1>2, <1>4, <1>6, AnswerTaken
    <2> QED
      BY <1>3, <1>5, <1>6, <2>1, ChannelRests
  <1>7. CASE current = Observed
    <2>1. Answered(Observed) > 0 /\ Answered(Observed)' = Answered(Observed) - 1
      BY <1>2, <1>3, <1>4, <1>7, AnswerTaken
    <2> QED
      BY <1>3, <1>5, <1>7, <2>1 DEF Channel!Next, Channel!Acknowledge
  <1> QED
    BY <1>6, <1>7

\* A refusal is a Refuse.
LEMMA ChannelTakeRefusal ==
    ASSUME Base, Numbers, TakeRefusal
    PROVE  [Channel!Next]_(Channel!vars)
  <1>1. PICK Q : Q = QueueOf(batches[current])
    OBVIOUS
  <1>2. /\ Drops(Q) /\ stream = "Open" /\ toClient # <<>> /\ toClient' = Tail(toClient)
    BY <1>1, TakeRefusalEffect
  <1>3. Head(toClient).kind = "refusal" /\ tasks' = Forget(tasks) /\ server' = server
    BY DEF TakeRefusal
  <1>4. bearer = current /\ Q # <<>>
    BY <1>1, <1>2, <1>3, AnswerFacts
  <1>5. /\ current # Observed => Issued(Observed)' = Issued(Observed)
        /\ current = Observed => Issued(Observed)' = Tail(Issued(Observed)) /\ Issued(Observed) # <<>>
    BY <1>1, <1>2, <1>3, <1>4, LineDropped
  <1>6. CASE current # Observed
    <2>1. Answered(Observed)' = Answered(Observed)
      BY <1>2, <1>4, <1>6, AnswerTaken
    <2> QED
      BY <1>3, <1>5, <1>6, <2>1, ChannelRests
  <1>7. CASE current = Observed
    <2>1. Answered(Observed) = 0 /\ Answered(Observed)' = 0
      BY <1>2, <1>3, <1>4, <1>7, AnswerTaken
    <2> QED
      BY <1>3, <1>5, <1>7, <2>1 DEF Channel!Next, Channel!Refuse
  <1> QED
    BY <1>6, <1>7

\* The server handles the next request of the stream: an ApplyNext if it is a
\* write of the account.
LEMMA ChannelApply ==
    ASSUME Base, Numbers, ApplyRequest
    PROVE  [Channel!Next]_(Channel!vars)
  <1> DEFINE w == Head(toServer).write
             v == server[w.by].version + 1
             r == [kind |-> "result", version |-> v, write |-> w]
             Q == QueueOf(batches[bearer])
             n == Len(toClient)
  <1>0. toServer # <<>> /\ Head(toServer).kind = "write" /\ ~Ended
    BY DEF ApplyRequest, Asks
  <1>1. /\ w \in Write /\ w.by = bearer /\ n + 1 \in 1..Len(Q) /\ w = Q[n + 1].write
    BY <1>0, RequestIsQueued
  <1>2. /\ server' = [server EXCEPT ![w.by] = [version |-> v, n |-> w.n]]
        /\ toClient' = Append(toClient, r)
        /\ UNCHANGED <<tasks, batches>>
    BY DEF ApplyRequest, local
  <1>3. bearer \in Account /\ toClient \in Seq(Reply) /\ n \in Nat /\ server \in [Account -> Document]
    BY WireFacts DEF Base, Types
  <1>4. Talking
    BY <1>0 DEF Base, Wires, Greeting, Hello
  <1>5. r \in Reply /\ r.kind = "result" /\ r.write = w
    <2>1. server[w.by] \in Document
      BY <1>1, <1>3
    <2>2. v \in Nat \ {0}
      BY <2>1 DEF Document
    <2> HIDE DEF v, w
    <2> QED
      BY <1>1, <2>2 DEF Reply
  <1> HIDE DEF r
  <1>6. Issued(Observed)' = Issued(Observed)
    BY <1>2, LineSame
  <1>7. CASE bearer # Observed
    <2>1. Answered(Observed)' = Answered(Observed)
      BY <1>0, <1>1, <1>2, <1>4, <1>5, <1>7, AnsweredSame
    <2>2. server'[Observed] = server[Observed]
      BY <1>1, <1>2, <1>3, <1>7, AccountAssumption
    <2> QED
      BY <1>6, <2>1, <2>2, ChannelRests
  <1>8. CASE bearer = Observed
    <2>1. PICK m : Successes(toClient, m, bearer) /\ m = n
      BY <1>0, <1>4, WireSuccesses
    <2>2. Append(toClient, r) \in Seq(Reply)
      BY <1>3, <1>5
    <2>3. Successes(Append(toClient, r), n + 1, bearer)
      BY <1>1, <1>3, <1>5, <2>1, SuccessesAppend
    <2>4. Answered(Observed) = n
      <3>1. Cardinality(Good(toClient, Observed)) = n
        BY <1>3, <1>8, <2>1, CountIs
      <3> QED
        BY <3>1, AnsweredIs
    <2>5. Answered(Observed)' = n + 1
      <3>1. Cardinality(Good(Append(toClient, r), Observed)) = IF Observed = bearer THEN n + 1 ELSE 0
        BY <2>2, <2>3, CountIs
      <3> QED
        BY <1>2, <1>8, <3>1, AnsweredIs
    <2>6. MutationQueue(batches[bearer]) /\ tasks \in Seq(Task)
      BY <1>3 DEF Base, Types
    <2>7. Q \in Seq(Batch)
      BY <2>6, QueueLists DEF Lists
    <2>8. Issued(Observed) = Line(Q, tasks, Observed)
      BY <1>8, IssuedIs
    <2> HIDE DEF Q
    <2>9. /\ Len(Issued(Observed)) = Len(Q) + Len(Unsent(tasks, Observed))
          /\ Len(Q) \in Nat /\ Len(Unsent(tasks, Observed)) \in Nat
          /\ \A k \in 1..Len(Q) : Issued(Observed)[k] = Q[k].write
      BY <2>6, <2>7, <2>8, LineFacts
    <2>10. n < Len(Issued(Observed)) /\ Issued(Observed)[n + 1] = w
      BY <1>1, <1>3, <2>9
    <2>11. server'[Observed] = ApplyWrite(server[Observed], w)
      BY <1>1, <1>2, <1>3, <1>8 DEF ApplyWrite
    <2> HIDE DEF w, n
    <2>12. Channel!ApplyNext
      BY <1>6, <2>4, <2>5, <2>10, <2>11 DEF Channel!ApplyNext
    <2> QED
      BY <2>12 DEF Channel!Next
  <1> QED
    BY <1>7, <1>8

\* The other answers of the server are not successes.
LEMMA ChannelServe ==
    ASSUME Base, Numbers, Serve
    PROVE  [Channel!Next]_(Channel!vars)
  <1>1. CASE ApplyRequest
    BY <1>1, ChannelApply
  <1>2. CASE AnswerHello \/ RefuseRequest
    <2>1. UNCHANGED <<tasks, batches, server>>
      BY <1>2 DEF AnswerHello, RefuseRequest, local
    <2>2. Issued(Observed)' = Issued(Observed)
      BY <2>1, LineSame
    <2>3. \E r \in Reply : r.kind # "result" /\ toClient' = Append(toClient, r)
      <3>1. CASE AnswerHello
        <4>1. Hello \in Reply /\ Hello.kind # "result"
          BY DEF Hello, Reply
        <4> QED
          BY <3>1, <4>1 DEF AnswerHello
      <3>2. CASE RefuseRequest
        <4>1. toServer # <<>> /\ Head(toServer).kind = "write"
              /\ toClient' = Append(toClient, [kind |-> "refusal", write |-> Head(toServer).write])
          BY <3>2 DEF RefuseRequest, Asks
        <4>2. Head(toServer).write \in Write
          BY <4>1, RequestIsQueued
        <4>3. /\ [kind |-> "refusal", write |-> Head(toServer).write] \in Reply
              /\ [kind |-> "refusal", write |-> Head(toServer).write].kind # "result"
          BY <4>2 DEF Reply
        <4> QED
          BY <4>1, <4>3
      <3> QED
        BY <1>2, <3>1, <3>2
    <2>4. Answered(Observed)' = Answered(Observed)
      BY <2>3, AnsweredSame
    <2> QED
      BY <2>1, <2>2, <2>4, ChannelRests
  <1> QED
    BY <1>1, <1>2 DEF Serve

\* A dying process loses the writes that were not persisted, and so not sent.
LEMMA ChannelRelaunch ==
    ASSUME Base, Numbers, Relaunch
    PROVE  [Channel!Next]_(Channel!vars)
  <1> DEFINE Q == QueueOf(batches[Observed])
             n == Len(Q)
  <1>1. tasks' = <<>> /\ UNCHANGED <<batches, server, toClient>>
    BY DEF Relaunch
  <1>2. Answered(Observed)' = Answered(Observed)
    BY <1>1, AnsweredSame
  <1>3. tasks \in Seq(Task) /\ MutationQueue(batches[Observed])
    BY AccountAssumption DEF Base, Types
  <1>4. Q \in Seq(Batch)
    BY <1>3, QueueLists DEF Lists
  <1>5. Issued(Observed) = Line(Q, tasks, Observed) /\ Issued(Observed)' = Line(Q, <<>>, Observed)
    BY <1>1, IssuedIs
  <1>6. Issued(Observed)' = SubSeq(Issued(Observed), 1, n) /\ n \in 0..Len(Issued(Observed))
    <2> HIDE DEF Q
    <2> QED
      BY <1>3, <1>4, <1>5, LineLose
  <1>7. n \in Nat
    BY <1>4
  <1>8. Answered(Observed) \in Nat /\ Answered(Observed) <= n
    <2>1. toClient \in Seq(Reply)
      BY WireFacts
    <2>2. PICK m : Successes(toClient, m, bearer) /\ m <= Len(QueueOf(batches[bearer]))
      BY WireSuccesses
    <2>3. m \in Nat /\ Cardinality(Good(toClient, Observed)) = IF Observed = bearer THEN m ELSE 0
      BY <2>1, <2>2, CountIs
    <2>4. Answered(Observed) = IF Observed = bearer THEN m ELSE 0
      BY <2>3, AnsweredIs
    <2> QED
      BY <1>7, <2>2, <2>3, <2>4
  <1> HIDE DEF n
  <1>9. n \in Answered(Observed)..Len(Issued(Observed))
    <2>1. n <= Len(Issued(Observed)) /\ Len(Issued(Observed)) \in Nat
      <3>1. Issued(Observed) \in Seq(Write)
        BY <1>3, <1>4, <1>5, LineFacts
      <3>2. Len(Issued(Observed)) \in Nat
        BY <3>1
      <3> QED
        BY <1>6, <1>7, <3>2
    <2> QED
      BY <1>7, <1>8, <2>1
  <1>10. Channel!Lose
    BY <1>1, <1>2, <1>6, <1>9 DEF Channel!Lose
  <1> QED
    BY <1>10 DEF Channel!Next

\* Every step of the client is one of the channel of the account observed, or none.
LEMMA ChannelStep == Whole /\ [Next]_vars => [Channel!Next]_(Channel!vars)
  <1> SUFFICES ASSUME Whole, [Next]_vars PROVE [Channel!Next]_(Channel!vars)
    OBVIOUS
  <1>0. Base /\ Logins /\ Numbers
    BY DEF Whole, Inv
  <1>1. CASE MakeWrite
    BY <1>0, <1>1, ChannelMakeWrite
  <1>2. CASE RunWrite
    BY <1>0, <1>2, ChannelRunWrite
  <1>3. CASE RunToken
    BY <1>0, <1>3, ChannelRunToken
  <1>4. CASE TakeResult
    BY <1>0, <1>4, ChannelTakeResult
  <1>5. CASE TakeRefusal
    BY <1>0, <1>5, ChannelTakeRefusal
  <1>6. CASE Serve
    BY <1>0, <1>6, ChannelServe
  <1>7. CASE Relaunch
    BY <1>0, <1>7, ChannelRelaunch
  <1>8. ASSUME UNCHANGED <<batches, server, toClient>>,
               \/ tasks' = tasks
               \/ tasks' = Forget(tasks)
               \/ tasks # <<>> /\ Head(tasks).kind # "write" /\ tasks' = Forget(Tail(tasks))
               \/ \E t \in Task : t.kind # "write" /\ tasks' = Append(tasks, t)
        PROVE  UNCHANGED Channel!vars
    <2>1. Issued(Observed)' = Issued(Observed)
      BY <1>0, <1>8, LineSame
    <2>2. Answered(Observed)' = Answered(Observed)
      BY <1>0, <1>8, AnsweredSame
    <2> QED
      BY <1>8, <2>1, <2>2, ChannelRests
  <1>9. CASE UNCHANGED vars
    BY <1>8, <1>9 DEF vars, local, wire
  <1>10. ASSUME NEW u \in Account, ChangeLogin(u) PROVE UNCHANGED Channel!vars
    <2> DEFINE t == [kind |-> "account", account |-> u]
    <2>1. t \in Task /\ t.kind # "write"
      BY DEF Task
    <2>2. tasks' = Append(tasks, t) /\ UNCHANGED <<batches, server, toClient>>
      BY <1>10 DEF ChangeLogin, local, wire
    <2> HIDE DEF t
    <2> QED
      BY <1>8, <2>1, <2>2
  <1>11. ASSUME NEW age \in {"live", "stale"}, NEW ok \in BOOLEAN, AnswerToken(age, ok)
         PROVE  UNCHANGED Channel!vars
    <2> DEFINE t == [kind |-> "token", live |-> age = "live", ok |-> ok, account |-> auth]
    <2>0. auth \in Account
      BY <1>0 DEF Base, Types
    <2>1. t \in Task /\ t.kind # "write"
      BY <2>0 DEF Task
    <2>2. tasks' = Append(tasks, t) /\ UNCHANGED <<batches, server, toClient>>
      BY <1>11 DEF AnswerToken, local, wire
    <2> HIDE DEF t
    <2> QED
      BY <1>8, <2>1, <2>2
  <1>12. CASE RunAccount
    <2>1. /\ tasks # <<>> /\ Head(tasks).kind # "write" /\ tasks' = Forget(Tail(tasks))
          /\ UNCHANGED <<batches, server, toClient>>
      BY <1>12 DEF RunAccount, RestartNetwork
    <2> QED
      BY <1>8, <2>1
  <1>13. CASE FinishHandshake
    <2>1. /\ toClient # <<>> /\ Head(toClient).kind # "result" /\ toClient' = Tail(toClient)
          /\ UNCHANGED <<tasks, batches, server>>
      BY <1>13 DEF FinishHandshake, local
    <2>2. Issued(Observed)' = Issued(Observed)
      BY <1>0, <2>1, LineSame
    <2>3. Answered(Observed)' = Answered(Observed)
      BY <1>0, <2>1, AnsweredSame
    <2> QED
      BY <2>1, <2>2, <2>3, ChannelRests
  <1>14. CASE BreakStream \/ ChangeNetwork
    <2>1. tasks' = Forget(tasks) /\ UNCHANGED <<batches, server, toClient>>
      BY <1>14 DEF BreakStream, ChangeNetwork, CloseOnError, RestartNetwork, local
    <2> QED
      BY <1>8, <2>1
  <1>15. CASE EndBackoff \/ StopIdle \/ SendSnapshot \/ TakeSnapshot
    <2>1. UNCHANGED <<tasks, batches, server, toClient>>
      BY <1>15 DEF EndBackoff, StopIdle, SendSnapshot, TakeSnapshot, local, wire
    <2> QED
      BY <1>8, <2>1
  <1> QED
    BY <1>1, <1>2, <1>3, <1>4, <1>5, <1>6, <1>7, <1>9, <1>10, <1>11, <1>12, <1>13, <1>14, <1>15
       DEF Next, Worker, Receive

\* The channel starts empty.
LEMMA ChannelInit == Init => Channel!Init
  <1> SUFFICES ASSUME Init PROVE Channel!Init
    OBVIOUS
  <1>1. tasks = <<>> /\ toClient = <<>> /\ batches[Observed] = <<>>
    BY AccountAssumption DEF Init
  <1>2. QueueOf(<<>>) = <<>>
    BY EmptyQueue
  <1>3. Issued(Observed) = <<>>
    BY <1>1, <1>2, IssuedIs, LineEmpty
  <1>4. Good(toClient, Observed) = {}
    BY <1>1 DEF Good
  <1>5. Cardinality({}) = 0
    BY FS_EmptySet
  <1>6. Answered(Observed) = 0
    BY <1>4, <1>5, AnsweredIs
  <1> QED
    BY <1>3, <1>6 DEF Channel!Init

\* The client implements WriteChannel, for any of the accounts.
THEOREM FirestoreSendsInOrder == Spec => SendsInOrder
  <1>1. Spec => []Whole
    BY WholeHolds
  <1>2. Init => Channel!Init
    BY ChannelInit
  <1>3. Whole /\ [Next]_vars => [Channel!Next]_(Channel!vars)
    BY ChannelStep
  <1> QED
    BY <1>1, <1>2, <1>3, PTL DEF Spec, SendsInOrder, Channel!Spec
=============================================================================
