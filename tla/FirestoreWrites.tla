--------------------------- MODULE FirestoreWrites ---------------------------
(***************************************************************************)
(* The write path of the vendored Firestore client: the worker queue, the  *)
(* mutation queues persisted per account, the pipeline of batches handed   *)
(* to the write stream, the stream with its credentials, handshake,        *)
(* back-off and idle timer, the callbacks, the document cache, and a       *)
(* server at the other end of streams that break.                          *)
(*                                                                         *)
(* Every write of the app replaces (fields of) the document users/<uid> of *)
(* the account it is made for, so a write is named by its account and a    *)
(* running number, and a document's value is the last write applied to it. *)
(***************************************************************************)
EXTENDS Integers, Sequences, FiniteSets, FiniteSetsExt, Functions, SequencesExt

CONSTANTS
    Account,            \* accounts that sign in on this device
    Observed,           \* the one whose writes are compared with WriteChannel
    MaxPendingWrites,   \* kMaxPendingWrites; 10 in the code
    MaxWrites,          \* bound: writes the app makes
    MaxFaults           \* bound: sign-ins, deaths, breaks, refusals

ASSUME AccountAssumption == IsFiniteSet(Account) /\ Observed \in Account
ASSUME PendingAssumption == MaxPendingWrites \in Nat \ {0}
ASSUME WriteBoundAssumption == MaxWrites \in Nat /\ MaxFaults \in Nat

VARIABLES
    auth,       \* the account of the login (FirebaseCredentialsProvider)
    tasks,      \* AsyncQueue: what the worker will run, in order
    current,    \* SyncEngine::current_user_
    batches,    \* batches[u]: the mutation queue of u in LevelDB, by batch id
    nextId,     \* LevelDbMutationQueue::next_batch_id_
    callbacks,  \* callbacks[u]: SyncEngine::mutation_callbacks_
    cache,      \* cache[u]: users/<u> in remote_document_cache_
    pipeline,   \* RemoteStore::write_pipeline_
    stream,     \* Stream::state_
    asked,      \* outstanding GetToken calls: "live", or "stale" after a Close
    bearer,     \* the account whose token opened the stream
    handshake,  \* WriteStream::handshake_complete_
    idle,       \* the idle timer runs
    toServer,   \* requests of the last stream, oldest first
    toClient,   \* its answers
    server,     \* server[u]: the document users/<u> at the server
    snapshot,   \* answer to a read of the document of the current user
    issued,     \* number of writes made (history, and for the bound)
    told,       \* told[w]: what the callback of w was told (history)
    applied,    \* writes the server has applied (history)
    refused,    \* writes removed because the server refused them (history)
    faults      \* faults so far (for the bound)

app == <<auth, issued>>
local == <<current, batches, nextId, callbacks, cache>>
remote == <<pipeline, stream, asked, bearer, handshake, idle>>
wire == <<toServer, toClient, server, snapshot, applied>>
history == <<told, refused>>
vars == <<app, tasks, local, remote, wire, history, faults>>

Write == [by: Account, n: 1..MaxWrites]
Batch == [id: Nat \ {0}, write: Write]
Document == [version: Nat, n: 0..MaxWrites]

NoDocument == [version |-> 0, n |-> 0]
NoSnapshot == [version |-> -1, n |-> 0]

StreamState == {"Initial", "Starting", "Open", "Error", "Backoff"}

IsStarted(s) == s \in {"Starting", "Open", "Backoff"}

Hello == [kind |-> "hello"]
Request(b) == [kind |-> "write", id |-> b.id, write |-> b.write]
Requests(bs) == [k \in DOMAIN bs |-> Request(bs[k])]

-----------------------------------------------------------------------------
(* The mutation queues and the callbacks.                                  *)

\* Fault: the ids start again with every process and account.
IdsFromOne(bs) == 1

\* LoadNextBatchIdFromDb: above the ids of every account.
LoadNextBatchId(bs) == 1 + Max({0} \cup UNION {DOMAIN bs[u] : u \in Account})

With(q, id, w) == [i \in DOMAIN q \cup {id} |-> IF i = id THEN w ELSE q[i]]

Without(q, id) == Restrict(q, DOMAIN q \ {id})

\* Fault: batches are taken in the opposite order.
NewestFirst(ids) ==
    CHOOSE s \in [1..Cardinality(ids) -> ids] : \A j, k \in DOMAIN s : j < k => s[j] > s[k]

\* The order of the keys in LevelDB.
InOrder(ids) ==
    CHOOSE s \in [1..Cardinality(ids) -> ids] : \A j, k \in DOMAIN s : j < k => s[j] < s[k]

QueueOf(q) ==
    LET ids == InOrder(DOMAIN q)
    IN  [k \in DOMAIN ids |-> [id |-> ids[k], write |-> q[ids[k]]]]

\* unordered_map::insert keeps an entry that is already there.
WithCallback(cs, id, w) ==
    IF \E c \in cs : c.id = id THEN cs ELSE cs \cup {[id |-> id, write |-> w]}

\* Fault: the callback is called and kept.
NotifyAndKeep(id, outcome) ==
    LET called == {c \in callbacks[current] : c.id = id} IN
    /\ told' = [w \in Write |->
                  IF \E c \in called : c.write = w THEN outcome ELSE told[w]]
    /\ UNCHANGED callbacks

\* NotifyUser: the callback of batch id, if there is one, is called and erased.
NotifyUser(id, outcome) ==
    LET called == {c \in callbacks[current] : c.id = id} IN
    /\ told' = [w \in Write |->
                  IF \E c \in called : c.write = w THEN outcome ELSE told[w]]
    /\ callbacks' = [callbacks EXCEPT ![current] = @ \ called]

-----------------------------------------------------------------------------
(* The pipeline and the stream.                                            *)

\* The batches of q after the last one of p, as many as p has room for.
NextBatches(p, q) ==
    LET after == {i \in DOMAIN q : p = <<>> \/ i > Last(p).id}
        rest  == QueueOf(Restrict(q, after))
    IN  SubSeq(rest, 1, Min({Len(rest), MaxPendingWrites - Len(p)}))

\* The server has ended the stream: what the client still writes to it is lost.
Ended == \E k \in DOMAIN toClient : toClient[k].kind = "refusal"

Send(requests) == toServer' = IF Ended THEN toServer ELSE toServer \o requests

\* Start (and ShouldStartWriteStream): after an error with a delay, otherwise
\* by asking for a token.
StartIfNeeded(p, s, tokens) ==
    /\ stream' = IF p = <<>> \/ IsStarted(s) THEN s
                 ELSE IF s = "Error" THEN "Backoff" ELSE "Starting"
    /\ asked' = IF p # <<>> /\ s = "Initial" THEN tokens \cup {"live"} ELSE tokens

\* Fault: batches go out before the handshake is done.
FillBeforeHandshake(p, q, s, tokens) ==
    LET new == NextBatches(p, q)
        out == IF s = "Open" THEN new ELSE <<>>
    IN
    /\ pipeline' = p \o new
    /\ Send(Requests(out))
    /\ idle' = (s = "Open" /\ (p \o new = <<>> \/ (idle /\ out = <<>>)))
    /\ handshake' = (s = "Open" /\ handshake)
    /\ StartIfNeeded(p \o new, s, tokens)

\* FillWritePipeline, in stream state s.  New batches go out at once if the
\* handshake is done, which cancels the idle timer; on an open stream an empty
\* pipeline sets it.
FillWritePipeline(p, q, s, tokens) ==
    LET new == NextBatches(p, q)
        out == IF s = "Open" /\ handshake THEN new ELSE <<>>
    IN
    /\ pipeline' = p \o new
    /\ Send(Requests(out))
    /\ idle' = (s = "Open" /\ (p \o new = <<>> \/ (idle /\ out = <<>>)))
    /\ handshake' = (s = "Open" /\ handshake)
    /\ StartIfNeeded(p \o new, s, tokens)

\* Fault: Close does not count.
ForgetNothing(ts) == ts

\* Stream::Close increments close_count_, so that token answers asked for
\* before are ignored: those in the worker queue ...
Forget(ts) ==
    [k \in DOMAIN ts |-> IF ts[k].kind = "token" THEN [ts[k] EXCEPT !.live = FALSE]
                                                  ELSE ts[k]]

\* ... and those still to come.
StaleTokens == IF asked = {} THEN {} ELSE {"stale"}

\* RestartNetwork: stop, clear the pipeline, forget the error, start again.
RestartNetwork(q, ts) ==
    /\ tasks' = Forget(ts)
    /\ FillWritePipeline(<<>>, q, "Initial", StaleTokens)

\* Close with an error that is not about a write, then OnWriteStreamClose.
CloseOnError(ts) ==
    /\ tasks' = Forget(ts)
    /\ StartIfNeeded(pipeline, "Error", StaleTokens)
    /\ handshake' = FALSE
    /\ idle' = FALSE
    /\ UNCHANGED <<pipeline, toServer>>

-----------------------------------------------------------------------------
Init ==
    /\ auth \in Account
    /\ current = auth
    /\ tasks = <<>>
    /\ batches = [u \in Account |-> <<>>]
    /\ nextId = 1
    /\ callbacks = [u \in Account |-> {}]
    /\ cache = [u \in Account |-> NoDocument]
    /\ pipeline = <<>>
    /\ stream = "Initial"
    /\ asked = {}
    /\ bearer = auth
    /\ handshake = FALSE
    /\ idle = FALSE
    /\ toServer = <<>>
    /\ toClient = <<>>
    /\ server = [u \in Account |-> NoDocument]
    /\ snapshot = NoSnapshot
    /\ issued = 0
    /\ told = [w \in Write |-> "nothing"]
    /\ applied = {}
    /\ refused = {}
    /\ faults = 0

Fault == faults < MaxFaults /\ faults' = faults + 1

-----------------------------------------------------------------------------
(* The app and the login.                                                  *)

\* setData or updateData on users/<uid>: a task for the worker.
MakeWrite ==
    /\ issued < MaxWrites
    /\ issued' = issued + 1
    /\ tasks' = Append(tasks, [kind  |-> "write",
                               write |-> [by |-> auth, n |-> issued + 1]])
    /\ UNCHANGED <<auth, local, remote, wire, history, faults>>

\* Another account logs in, or the token of this one is renewed; the client is
\* told by a task.
ChangeLogin(u) ==
    /\ Fault
    /\ auth' = u
    /\ tasks' = Append(tasks, [kind |-> "account", account |-> u])
    /\ UNCHANGED <<issued, local, remote, wire, history>>

\* GetToken completes.  If the login changed meanwhile the provider asks again,
\* so that the token is that of the present login.
AnswerToken(age, ok) ==
    /\ age \in asked
    /\ IF ok THEN UNCHANGED faults ELSE Fault
    /\ asked' = asked \ {age}
    /\ tasks' = Append(tasks, [kind |-> "token", live |-> age = "live",
                               ok |-> ok, account |-> auth])
    /\ UNCHANGED <<app, local, pipeline, stream, bearer, handshake, idle, wire, history>>

-----------------------------------------------------------------------------
(* The worker's tasks.                                                     *)

\* SyncEngine::WriteMutations: persist, remember the callback, fill.
RunWrite ==
    /\ tasks # <<>> /\ Head(tasks).kind = "write"
    /\ LET w == Head(tasks).write
           q == With(batches[current], nextId, w)
       IN
       /\ batches' = [batches EXCEPT ![current] = q]
       /\ callbacks' = [callbacks EXCEPT ![current] = WithCallback(@, nextId, w)]
       /\ FillWritePipeline(pipeline, q, stream, asked)
    /\ nextId' = nextId + 1
    /\ tasks' = Tail(tasks)
    /\ UNCHANGED <<app, current, cache, bearer, toClient, server, snapshot,
                   applied, history, faults>>

\* Fault: the stream is left to the account before.
RunAccountKeepingStream ==
    /\ tasks # <<>> /\ Head(tasks).kind = "account"
    /\ current' = Head(tasks).account
    /\ nextId' = LoadNextBatchId(batches)
    /\ tasks' = Tail(tasks)
    /\ FillWritePipeline(<<>>, batches[current'], stream, asked)
    /\ snapshot' = NoSnapshot
    /\ UNCHANGED <<app, batches, callbacks, cache, bearer, toClient, server,
                   applied, history, faults>>

\* SyncEngine::HandleCredentialChange: the queue of the new account, and new
\* streams, whether or not the account is another one.
RunAccount ==
    /\ tasks # <<>> /\ Head(tasks).kind = "account"
    /\ current' = Head(tasks).account
    /\ nextId' = IF current' = current THEN nextId ELSE LoadNextBatchId(batches)
    /\ RestartNetwork(batches[current'], Tail(tasks))
    /\ snapshot' = NoSnapshot
    /\ UNCHANGED <<app, batches, callbacks, cache, bearer, toClient, server,
                   applied, history, faults>>

\* Stream::RequestCredentials' callback: ignored when the stream was closed
\* since; an error closes it; otherwise the stream opens at once and the
\* handshake is written.
RunToken ==
    /\ tasks # <<>> /\ Head(tasks).kind = "token"
    /\ LET t == Head(tasks) IN
       \/ /\ ~t.live
          /\ tasks' = Tail(tasks)
          /\ UNCHANGED <<remote, toServer, toClient>>
       \/ /\ t.live /\ t.ok
          /\ stream' = "Open"
          /\ bearer' = t.account
          /\ toServer' = <<Hello>>
          /\ toClient' = <<>>
          /\ tasks' = Tail(tasks)
          /\ UNCHANGED <<pipeline, asked, handshake, idle>>
       \/ /\ t.live /\ ~t.ok
          /\ CloseOnError(Tail(tasks))
          /\ UNCHANGED <<bearer, toClient>>
    /\ UNCHANGED <<app, local, server, snapshot, applied, history, faults>>

-----------------------------------------------------------------------------
(* The stream.                                                             *)

\* OnWriteStreamHandshakeComplete: the whole pipeline is sent.
FinishHandshake ==
    /\ stream = "Open" /\ toClient # <<>> /\ Head(toClient).kind = "hello"
    /\ handshake' = TRUE
    /\ toClient' = Tail(toClient)
    /\ Send(Requests(pipeline))
    /\ idle' = (idle /\ pipeline = <<>>)
    /\ UNCHANGED <<app, tasks, local, pipeline, stream, asked, bearer,
                   server, snapshot, applied, history, faults>>

\* Fault: the cache takes whatever arrives.
LatestArrival(old, new) == new

\* ApplyBatchResult and PopulateDocumentChanges: an older version is ignored.
Newer(old, new) == IF new.version > old.version THEN new ELSE old

\* OnWriteStreamMutationResult: the answer is for the first batch of the
\* pipeline; HandleSuccessfulWrite, then the pipeline is filled up.
TakeResult ==
    /\ stream = "Open" /\ toClient # <<>> /\ Head(toClient).kind = "result"
    /\ LET b == Head(pipeline)
           q == Without(batches[current], b.id)
           answer == [version |-> Head(toClient).version, n |-> b.write.n]
       IN
       /\ NotifyUser(b.id, "ok")
       /\ cache' = [cache EXCEPT ![current] = Newer(@, answer)]
       /\ batches' = [batches EXCEPT ![current] = q]
       /\ FillWritePipeline(Tail(pipeline), q, stream, asked)
    /\ toClient' = Tail(toClient)
    /\ UNCHANGED <<app, tasks, current, nextId, bearer, server, snapshot,
                   applied, refused, faults>>

\* Fault: the batch after the refused one is not looked for.
TakeRefusalWithoutRefill ==
    /\ stream = "Open" /\ toClient # <<>> /\ Head(toClient).kind = "refusal"
    /\ LET b == Head(pipeline) IN
       /\ NotifyUser(b.id, "refused")
       /\ refused' = refused \cup {b.write}
       /\ batches' = [batches EXCEPT ![current] = Without(@, b.id)]
       /\ pipeline' = Tail(pipeline)
       /\ StartIfNeeded(Tail(pipeline), "Initial", StaleTokens)
    /\ tasks' = Forget(tasks)
    /\ handshake' = FALSE
    /\ idle' = FALSE
    /\ toClient' = Tail(toClient)
    /\ UNCHANGED <<app, current, nextId, cache, bearer, toServer, server,
                   snapshot, applied, faults>>

\* The stream ends with a permanent error.  HandleWriteError: the first batch
\* of the pipeline is to blame; it is dropped, and the stream restarts at once.
TakeRefusal ==
    /\ stream = "Open" /\ toClient # <<>> /\ Head(toClient).kind = "refusal"
    /\ LET b == Head(pipeline)
           q == Without(batches[current], b.id)
       IN
       /\ NotifyUser(b.id, "refused")
       /\ refused' = refused \cup {b.write}
       /\ batches' = [batches EXCEPT ![current] = q]
       /\ FillWritePipeline(Tail(pipeline), q, "Initial", StaleTokens)
    /\ tasks' = Forget(tasks)
    /\ toClient' = Tail(toClient)
    /\ UNCHANGED <<app, current, nextId, cache, bearer, server, snapshot,
                   applied, faults>>

\* The connection breaks, before or after the server acted on what was sent.
BreakStream ==
    /\ stream = "Open"
    /\ Fault
    /\ CloseOnError(tasks)
    /\ UNCHANGED <<app, local, bearer, toClient, server, snapshot, applied, history>>

\* The delay of BackoffAndTryRestarting is over.
EndBackoff ==
    /\ stream = "Backoff"
    /\ stream' = "Starting"
    /\ asked' = asked \cup {"live"}
    /\ UNCHANGED <<app, tasks, local, pipeline, bearer, handshake, idle, wire,
                   history, faults>>

\* The idle timer fires: Stop.
StopIdle ==
    /\ idle
    /\ stream' = "Initial"
    /\ handshake' = FALSE
    /\ idle' = FALSE
    /\ UNCHANGED <<app, tasks, local, pipeline, asked, bearer, wire, history, faults>>

\* The connectivity monitor reports a network: restart the streams.
ChangeNetwork ==
    /\ Fault
    /\ RestartNetwork(batches[current], tasks)
    /\ UNCHANGED <<app, local, bearer, toClient, server, snapshot, applied, history>>

\* The process dies and is launched again with the persisted login: what
\* LevelDB holds is left.
Relaunch ==
    /\ Fault
    /\ current' = auth
    /\ nextId' = LoadNextBatchId(batches)
    /\ callbacks' = [u \in Account |-> {}]
    /\ snapshot' = NoSnapshot
    /\ tasks' = <<>>
    /\ FillWritePipeline(<<>>, batches[auth], "Initial", {})
    /\ UNCHANGED <<app, batches, cache, bearer, toClient, server, applied, history>>

-----------------------------------------------------------------------------
(* Reads of the document.                                                  *)

\* The server answers a read of users/<current>.
SendSnapshot ==
    /\ snapshot' = server[current]
    /\ UNCHANGED <<app, tasks, local, remote, toServer, toClient, server,
                   applied, history, faults>>

\* LocalStore::ApplyRemoteEvent.
TakeSnapshot ==
    /\ snapshot # NoSnapshot
    /\ cache' = [cache EXCEPT ![current] = Newer(@, snapshot)]
    /\ snapshot' = NoSnapshot
    /\ UNCHANGED <<app, tasks, current, batches, nextId, callbacks, remote,
                   toServer, toClient, server, applied, history, faults>>

-----------------------------------------------------------------------------
(* The server: it handles the requests of a stream in order, and may still *)
(* handle those of a stream the client has given up until the next opens.  *)

\* The server has not ended the stream, and has a request of this kind.
Asks(kind) ==
    /\ toServer # <<>> /\ Head(toServer).kind = kind
    /\ ~Ended

AnswerHello ==
    /\ Asks("hello")
    /\ toServer' = Tail(toServer)
    /\ toClient' = Append(toClient, Hello)
    /\ UNCHANGED <<app, tasks, local, remote, server, snapshot, applied, history, faults>>

ApplyRequest ==
    /\ Asks("write")
    /\ LET w == Head(toServer).write
           v == server[w.by].version + 1
       IN
       /\ server' = [server EXCEPT ![w.by] = [version |-> v, n |-> w.n]]
       /\ applied' = applied \cup {w}
       /\ toClient' = Append(toClient, [kind |-> "result", version |-> v, write |-> w])
    /\ toServer' = Tail(toServer)
    /\ UNCHANGED <<app, tasks, local, remote, snapshot, history, faults>>

\* The rules refuse a write, or it updates a document that does not exist.
RefuseRequest ==
    /\ Asks("write")
    /\ Fault
    /\ toServer' = <<>>
    /\ toClient' = Append(toClient, [kind |-> "refusal", write |-> Head(toServer).write])
    /\ UNCHANGED <<app, tasks, local, remote, server, snapshot, applied, history>>

-----------------------------------------------------------------------------
Worker == RunWrite \/ RunAccount \/ RunToken

Receive == FinishHandshake \/ TakeResult \/ TakeRefusal

Serve == AnswerHello \/ ApplyRequest \/ RefuseRequest

Next ==
    \/ MakeWrite
    \/ \E u \in Account : ChangeLogin(u)
    \/ \E age \in {"live", "stale"}, ok \in BOOLEAN : AnswerToken(age, ok)
    \/ Worker
    \/ Receive
    \/ BreakStream
    \/ EndBackoff
    \/ StopIdle
    \/ ChangeNetwork
    \/ Relaunch
    \/ SendSnapshot
    \/ TakeSnapshot
    \/ Serve

Spec == Init /\ [][Next]_vars

\* While the worker, the receiver, the server, the back-off timer or the token
\* provider can act, one of them does; faults, new writes and reads are not
\* obliged to happen, and nothing says whose turn it is.
Progress ==
    WF_vars(Worker \/ Receive \/ Serve \/ EndBackoff \/ AnswerToken("live", TRUE))

FairSpec == Spec /\ Progress

-----------------------------------------------------------------------------
TypeOK ==
    /\ auth \in Account
    /\ Range(tasks) \subseteq
           [kind: {"write"}, write: Write]
           \cup [kind: {"account"}, account: Account]
           \cup [kind: {"token"}, live: BOOLEAN, ok: BOOLEAN, account: Account]
    /\ current \in Account
    /\ DOMAIN batches = Account
    /\ \A u \in Account : Range(QueueOf(batches[u])) \subseteq Batch
    /\ nextId \in Nat \ {0}
    /\ callbacks \in [Account -> SUBSET (UNION {Range(QueueOf(batches[u])) : u \in Account})]
    /\ cache \in [Account -> Document]
    /\ Range(pipeline) \subseteq Batch
    /\ stream \in StreamState
    /\ asked \subseteq {"live", "stale"}
    /\ bearer \in Account
    /\ handshake \in BOOLEAN
    /\ idle \in BOOLEAN
    /\ server \in [Account -> Document]
    /\ snapshot \in Document \cup {NoSnapshot}
    /\ issued \in 0..MaxWrites
    /\ told \in [Write -> {"nothing", "ok", "refused"}]
    /\ applied \subseteq Write
    /\ refused \subseteq Write
    /\ faults \in 0..MaxFaults

-----------------------------------------------------------------------------
\* The answers on a stream name no batch: OnWriteStreamMutationResult takes
\* each for the first of the pipeline, and HandleWriteError blames the first.
\* On an open stream the answers and the requests still out are, in order, for
\* the pipeline, unless a refusal ended it.
AnswersMatchPipeline ==
    stream = "Open" /\ handshake =>
        LET out == [k \in DOMAIN (toClient \o toServer) |->
                      (toClient \o toServer)[k].write]
            due == [k \in DOMAIN pipeline |-> pipeline[k].write]
        IN  IF Ended THEN IsPrefix(out, due) ELSE out = due

\* The pipeline holds the oldest batches of the current account, in order,
\* whatever was acknowledged, refused or interrupted, and is never longer than
\* kMaxPendingWrites: no batch is overtaken or skipped.
PipelineInOrder ==
    /\ IsPrefix(pipeline, QueueOf(batches[current]))
    /\ Len(pipeline) <= MaxPendingWrites

\* While the current account has batches, some of them are in the pipeline and
\* the stream is open, starting or backing off: nothing waits for a write that
\* may never be made.  (This is also what the assertion of OnWriteStreamClose
\* asks of a stream stopped by its idle timer.)
NeverStranded ==
    /\ batches[current] # <<>> => pipeline # <<>> /\ IsStarted(stream)
    /\ idle => stream = "Open" /\ pipeline = <<>>

\* A stream is only opened by the token it waits for, once; without
\* close_count_ the answer to an abandoned request would open it again
\* (assertion of ResumeStartWithCredentials).
OneTokenAwaited ==
    LET live == {k \in DOMAIN tasks : tasks[k].kind = "token" /\ tasks[k].live}
    IN  IF stream = "Starting"
        THEN Cardinality(live) + Cardinality(asked \cap {"live"}) = 1
        ELSE live = {} /\ "live" \notin asked

\* The writes of an account reach the server only under its own token and from
\* its own queue, though the login changes in another thread.
SentAsOwner ==
    /\ stream = "Open" => bearer = current
    /\ \A u \in Account : \A b \in Range(QueueOf(batches[u])) : b.write.by = u

\* Each callback of setData is called at most once, and with success only when
\* the write has reached the document.
CallbacksTrue ==
    [][\A w \in Write : told'[w] # told[w] =>
           told[w] = "nothing" /\ (told'[w] = "ok" => w \in applied)]_vars

Newest(u) == Max({0} \cup {b.write.n : b \in Range(QueueOf(batches[u]))})

\* What a read of users/<u> on this device returns: LocalDocumentsView.
View(u) == IF batches[u] = <<>> THEN cache[u].n ELSE Newest(u)

Stored(u) == {b.write.n : b \in Range(QueueOf(batches[u]))}
             \cup {w.n : w \in {a \in applied : a.by = u}}

\* Latency compensation: with no other device, a read never returns less than
\* the newest write persisted or applied and not refused, in whatever order
\* acknowledgements and the answers to older reads arrive.
ReadYourWrites ==
    \A u \in Account : \A n \in Stored(u) :
        [by |-> u, n |-> n] \in refused \/ View(u) >= n

\* Writes are applied at least once and perhaps again, so the document may go
\* back; but once the queue of an account is empty and nothing was refused,
\* the document, and the cached copy of it, hold its last write.
SettlesOnLastWrite ==
    \A u \in Account :
        batches[u] = <<>> /\ ~(\E w \in refused : w.by = u) =>
            \A w \in applied : w.by = u => server[u].n >= w.n /\ cache[u] = server[u]

\* Whatever breaks, and as long as it does not break for ever, the queue of the
\* account that stays signed in empties.
WritesArrive == []<>(batches[current] = <<>>)

-----------------------------------------------------------------------------
(* Each account's writes, seen as a channel: those the worker has not run  *)
(* yet follow those persisted, and the server has applied the ones whose   *)
(* answers are on the wire (or were lost there).                           *)

Issued(u) ==
    LET ids  == InOrder({k \in DOMAIN tasks : tasks[k].kind = "write" /\ tasks[k].write.by = u})
        kept == QueueOf(batches[u])
    IN  [k \in DOMAIN kept |-> kept[k].write] \o [k \in DOMAIN ids |-> tasks[ids[k]].write]

Answered(u) ==
    Cardinality({k \in DOMAIN toClient : toClient[k].kind = "result" /\ toClient[k].write.by = u})

ApplyWrite(d, w) == [version |-> d.version + 1, n |-> w.n]

Channel == INSTANCE WriteChannel WITH
    Apply <- ApplyWrite,
    doc   <- server[Observed],
    queue <- Issued(Observed),
    sent  <- Answered(Observed)

\* The client implements what UserAccount assumes of it (for each account, as
\* Observed is any of them): writes reach the document in the order of the
\* taps, at least once, each acknowledged after it arrived; a dying process
\* loses only writes at the end that were not persisted, and none that was
\* sent.
SendsInOrder == Channel!Spec
=============================================================================
