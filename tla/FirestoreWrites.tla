-------------------------- MODULE FirestoreWrites --------------------------
(***************************************************************************)
(* How a write of the app reaches the backend: SyncEngine and LocalStore   *)
(* keep it in the mutation queue of the signed-in user, RemoteStore moves  *)
(* a bounded number of queued batches into the write pipeline and sends    *)
(* them on the write stream, and replies are matched to the pipeline by    *)
(* their order alone.  The worker queue runs one operation at a time;      *)
(* `mail` holds, in their order, those whose meaning depends on when they  *)
(* were enqueued: a credential change and the token of a starting stream.  *)
(*                                                                         *)
(* A batch is [id, w]: the batch id, which may be reused once no batch     *)
(* holds it, and the write, a number of its own.  A message is a write or  *)
(* Handshake.                                                              *)
(***************************************************************************)
EXTENDS FirestoreStream, SequencesExt

CONSTANTS Users,       \* users the app signs in, one of them "signed out"
          FirstUser,   \* the user when the app is first started
          MaxPending,  \* kMaxPendingWrites
          MaxWrites,   \* bound: writes made
          MaxWaits,    \* bound: calls of waitForPendingWrites
          MaxEvents    \* bound: faults, user changes, network changes, restarts

ASSUME WritesAssumption ==
    /\ FirstUser \in Users
    /\ MaxPending \in Nat \ {0} /\ MaxWrites \in Nat
    /\ MaxWaits \in Nat /\ MaxEvents \in Nat

Handshake == 0
WriteNames == 1..MaxWrites
WaitNames == 1..MaxWaits
NoUser == "none"  \* in place of a user, no token came

VARIABLES authUser,   \* the credentials provider's current_user
          mail,       \* worker queue: credential changes and tokens, in order
          user,       \* SyncEngine's current_user_
          queue,      \* [Users -> sequence of batches], in LevelDB
          nextId,     \* next_batch_id_ of the current mutation queue
          callbacks,  \* mutation_callbacks_: [Users -> set of batches]
          waiters,    \* pending_writes_callbacks_: set of [id, k]
          net,        \* RemoteStore, write stream and connection
          committed, refused,  \* the backend: writes it has committed, refused
          told,       \* verdicts given to the callers of writes
          heard,      \* verdicts given to the callers of waitForPendingWrites
          awaited,    \* for each of those calls, the writes it waits for
          issued, waits, events  \* counters for the bounds; the first two name writes and calls

appVars == <<told, heard, awaited, issued, waits, events>>
serverVars == <<committed, refused>>
localVars == <<user, queue, nextId, callbacks, waiters>>
vars == <<authUser, mail, localVars, net, serverVars, appVars>>

Batch == [id : Nat, w : WriteNames]
Messages == {Handshake} \union WriteNames

NetType ==
    [ enabled : BOOLEAN,                   \* is_network_enabled_
      stream : StreamType,
      handshake : BOOLEAN,                 \* handshake_complete_
      pipe : Seq(Batch),                   \* write_pipeline_
      wire : Seq(Messages),                \* sent, not read by the backend
      replies : Seq(Messages),             \* sent back, not read by the client
      refusal : BOOLEAN,                   \* the backend has ended the call, refusing a write
      as : Users ]                         \* whose token the stream carries

WritesOf(batches) == [i \in DOMAIN batches |-> batches[i].w]
PendingOf(u) == Range(WritesOf(queue[u]))
Pending == UNION {PendingOf(u) : u \in Users}

-----------------------------------------------------------------------------
(* RemoteStore's write half; n is the network record, q the mutation queue *)
(* of the current user.                                                    *)

ShouldStartWriteStream(n) == n.enabled /\ ~IsStarted(n.stream) /\ n.pipe # <<>>

StartIfNeeded(n) ==
    IF ShouldStartWriteStream(n) THEN [n EXCEPT !.stream = Start(@)] ELSE n

\* Puts the messages on the stream.
Send(n, messages) ==
    IF messages = <<>> THEN n
    ELSE [n EXCEPT !.stream = Write(@), !.wire = @ \o messages]

\* LevelDB keeps a queue in the order of its ids: the place an id leads to.
Seek(q, id) == Cardinality({i \in DOMAIN q : q[i].id <= id})

\* The batches that join the pipeline: the next in the queue, up to its limit.
NextBatches(n, q) ==
    LET last == Seek(q, IF n.pipe = <<>> THEN 0 ELSE Last(n.pipe).id)
        room == MaxPending - Len(n.pipe)
    IN  IF ~n.enabled THEN <<>>
        ELSE SubSeq(q, last + 1, IF last + room < Len(q) THEN last + room ELSE Len(q))

FillWritePipeline(n, q) ==
    LET taken == NextBatches(n, q)
        filled == [n EXCEPT !.pipe = @ \o taken,
                            !.stream = IF n.enabled /\ n.pipe \o taken = <<>> THEN MarkIdle(@) ELSE @]
    IN  StartIfNeeded(IF IsOpen(n.stream) /\ n.handshake
                      THEN Send(filled, WritesOf(taken)) ELSE filled)

\* What Close does before it notifies RemoteStore: the call is gone, with
\* every message and reply not yet read.
Closed(n, graceful) ==
    [n EXCEPT !.stream = Close(@, graceful),
              !.wire = <<>>, !.replies = <<>>, !.refusal = FALSE]

\* After a close without an error, RemoteStore must have nothing to send.
Stop(n) ==
    IF ~IsStarted(n.stream) THEN n
    ELSE LET closed == Closed(n, TRUE)
         IN  [StartIfNeeded([closed EXCEPT !.stream = HardAssert(@, ~ShouldStartWriteStream(closed))])
                 EXCEPT !.handshake = FALSE]

MutantFail(n) == [Closed(n, FALSE) EXCEPT !.handshake = FALSE]

\* A close with a transient error, or with any error before the handshake.
Fail(n) == [StartIfNeeded(Closed(n, FALSE)) EXCEPT !.handshake = FALSE]

EnableNetwork(n, q) == FillWritePipeline([n EXCEPT !.enabled = TRUE], q)

MutantDisableNetwork(n) == Stop([n EXCEPT !.enabled = FALSE])

DisableNetwork(n) == [Stop([n EXCEPT !.enabled = FALSE]) EXCEPT !.pipe = <<>>]

RestartNetwork(n, q) ==
    EnableNetwork([DisableNetwork(n) EXCEPT !.stream = InhibitBackoff(@)], q)

MutantOnUserChange(n, q) == FillWritePipeline(n, q)

\* RemoteStore's HandleCredentialChange.
OnUserChange(n, q) == IF n.enabled THEN RestartNetwork(n, q) ELSE n

NewNet(u) ==
    [enabled |-> FALSE, stream |-> NewStream, handshake |-> FALSE, pipe |-> <<>>,
     wire |-> <<>>, replies |-> <<>>, refusal |-> FALSE, as |-> u]

-----------------------------------------------------------------------------
(* SyncEngine and LocalStore.                                              *)

\* LoadNextBatchIdFromDb: past the ids of every user's batches.
NextBatchId(queues) ==
    LET ids == UNION {{queues[u][i].id : i \in DOMAIN queues[u]} : u \in Users}
    IN  1 + Max({0} \union ids)

MutantHighestUnacknowledgedBatchId(q) == Head(q).id

HighestUnacknowledgedBatchId(q) == Last(q).id

HasBatch(q, id) == \E i \in DOMAIN q : q[i].id = id

\* RemoveMutationBatch, which asserts that the batch is there.
RemoveBatch(id) ==
    [queue EXCEPT ![user] = IF HasBatch(@, id) THEN RemoveAt(@, Seek(@, id)) ELSE @]

\* The callback kept for the batch id, if this process made the write.
NotifyUser(id, verdict) ==
    LET found == {b \in callbacks[user] : b.id = id}
    IN  /\ told' = told \union {<<b.w, verdict>> : b \in found}
        /\ callbacks' = [callbacks EXCEPT ![user] = @ \ found]

TriggerPendingWriteCallbacks(id) ==
    LET found == {x \in waiters : x.id = id}
    IN  /\ heard' = heard \union {<<x.k, "ok">> : x \in found}
        /\ waiters' = waiters \ found

Event == events < MaxEvents /\ events' = events + 1

Init ==
    /\ authUser = FirstUser
    /\ mail = <<>>
    /\ user = FirstUser
    /\ queue = [v \in Users |-> <<>>]
    /\ nextId = 1
    /\ callbacks = [v \in Users |-> {}]
    /\ waiters = {}
    /\ net = EnableNetwork(NewNet(FirstUser), <<>>)
    /\ committed = {}
    /\ refused = {}
    /\ told = {}
    /\ heard = {}
    /\ awaited = [k \in WaitNames |-> {}]
    /\ waits = 0
    /\ issued = 0
    /\ events = 0

\* The app makes a write.
WriteMutations ==
    /\ issued < MaxWrites
    /\ LET batch == [id |-> nextId, w |-> issued + 1]
       IN  /\ queue' = [queue EXCEPT ![user] = Append(@, batch)]
           /\ callbacks' = IF \E b \in callbacks[user] : b.id = batch.id THEN callbacks
                           ELSE [callbacks EXCEPT ![user] = @ \union {batch}]
           /\ net' = FillWritePipeline(net, queue'[user])
    /\ nextId' = nextId + 1
    /\ issued' = issued + 1
    /\ UNCHANGED <<authUser, mail, user, waiters, serverVars, told, heard, awaited, waits, events>>

\* The app asks to be told when the writes made so far are decided.
RegisterPendingWritesCallback ==
    /\ waits < MaxWaits
    /\ waits' = waits + 1
    /\ awaited' = [awaited EXCEPT ![waits'] = PendingOf(user)]
    /\ IF queue[user] = <<>>
       THEN heard' = heard \union {<<waits', "ok">>} /\ UNCHANGED waiters
       ELSE /\ waiters' = waiters \union {[id |-> HighestUnacknowledgedBatchId(queue[user]), k |-> waits']}
            /\ UNCHANGED heard
    /\ UNCHANGED <<authUser, mail, user, queue, nextId, callbacks, net, serverVars,
                   told, issued, events>>

-----------------------------------------------------------------------------
(* The credentials provider and the worker queue.                          *)

\* Auth tells the provider of a user: the same one again, or another.
AuthStateDidChange ==
    /\ Event
    /\ \E u \in Users :
          /\ authUser' = u
          /\ mail' = Append(mail, [kind |-> "user", user |-> u, count |-> 0])
    /\ UNCHANGED <<localVars, net, serverVars, told, heard, awaited, issued, waits>>

\* A token request ends.  One that a user change overtook was made again, so
\* the token is the current user's; the request may also fail.
TokenArrives(count, u) ==
    /\ count \in net.stream.asked
    /\ net' = [net EXCEPT !.stream.asked = @ \ {count}]
    /\ mail' = Append(mail, [kind |-> "token", user |-> u, count |-> count])
    /\ UNCHANGED <<authUser, localVars, serverVars, told, heard, awaited, issued, waits>>

GetToken == \E count \in net.stream.asked : TokenArrives(count, authUser) /\ UNCHANGED events

TokenFails == Event /\ \E count \in net.stream.asked : TokenArrives(count, NoUser)

\* SyncEngine takes the new user's queue, and RemoteStore starts afresh.
HandleCredentialChange ==
    /\ mail # <<>> /\ Head(mail).kind = "user"
    /\ mail' = Tail(mail)
    /\ user' = Head(mail).user
    /\ IF user' = user
       THEN UNCHANGED <<nextId, waiters, heard>>
       ELSE /\ nextId' = NextBatchId(queue)
            /\ heard' = heard \union {<<x.k, "cancelled">> : x \in waiters}
            /\ waiters' = {}
    /\ net' = OnUserChange(net, queue[user'])
    /\ UNCHANGED <<authUser, queue, callbacks, serverVars, told, awaited, issued, waits, events>>

MutantInTime(m) == TRUE

\* The token is for the start under way, not for one a close has ended.
InTime(m) == m.count = net.stream.count

Came(m) == m.user # NoUser

ResumeStartWithCredentials ==
    /\ mail # <<>> /\ Head(mail).kind = "token"
    /\ mail' = Tail(mail)
    /\ net' = IF ~InTime(Head(mail)) THEN net
              ELSE IF ~Came(Head(mail)) THEN Fail(net)
              ELSE Send([net EXCEPT !.stream = ResumeStart(@), !.as = Head(mail).user],
                        <<Handshake>>)
    /\ UNCHANGED <<authUser, localVars, serverVars, appVars>>

OnBackoffElapsed ==
    /\ net.stream.backoff
    /\ net' = [net EXCEPT !.stream = BackoffElapsed(@)]
    /\ UNCHANGED <<authUser, mail, localVars, serverVars, appVars>>

OnIdleTimeout ==
    /\ net.stream.idle
    /\ net' = Stop(net)
    /\ UNCHANGED <<authUser, mail, localVars, serverVars, appVars>>

-----------------------------------------------------------------------------
(* The backend and the replies.                                            *)

\* It reads a stream in order, and stops at a write it refuses.
ServerReplies ==
    /\ net.wire # <<>> /\ ~net.refusal
    /\ net' = [net EXCEPT !.wire = Tail(@), !.replies = Append(@, Head(net.wire))]
    /\ committed' = committed \union ({Head(net.wire)} \ {Handshake})
    /\ UNCHANGED <<authUser, mail, localVars, refused, appVars>>

ServerRefuses ==
    /\ net.wire # <<>> /\ ~net.refusal
    /\ Head(net.wire) # Handshake
    /\ net' = [net EXCEPT !.wire = <<>>, !.refusal = TRUE]
    /\ refused' = refused \union {Head(net.wire)}
    /\ UNCHANGED <<authUser, mail, localVars, committed, appVars>>

\* The first reply on a stream: now the whole pipeline is sent.
OnWriteStreamHandshakeComplete ==
    /\ net.replies # <<>> /\ ~net.handshake
    /\ net' = Send([net EXCEPT !.replies = Tail(@), !.handshake = TRUE], WritesOf(net.pipe))
    /\ UNCHANGED <<authUser, mail, localVars, serverVars, appVars>>

\* A later reply: it is taken for the front of the pipeline.
OnWriteStreamMutationResult ==
    /\ net.replies # <<>> /\ net.handshake
    /\ IF net.pipe = <<>>
       THEN /\ net' = [net EXCEPT !.stream = HardAssert(@, FALSE), !.replies = Tail(@)]
            /\ UNCHANGED <<queue, callbacks, waiters, told, heard>>
       ELSE LET id == Head(net.pipe).id
                read == [net EXCEPT !.replies = Tail(@), !.pipe = Tail(@),
                                    !.stream = HardAssert(@, HasBatch(queue[user], id))]
            IN  /\ NotifyUser(id, "ok")
                /\ TriggerPendingWriteCallbacks(id)
                /\ queue' = RemoveBatch(id)
                /\ net' = FillWritePipeline(read, queue'[user])
    /\ UNCHANGED <<authUser, mail, user, nextId, serverVars, awaited, issued, waits, events>>

\* The stream ends with a refusal: it is taken for the front of the pipeline,
\* if there is one.  Replies may be unread: the first operation of the call
\* that fails, a write among them, finishes it (grpc_stream.cc:313) and drops
\* the reads queued.
OnWriteRejected ==
    /\ net.refusal
    /\ IF net.pipe = <<>> \/ ~net.handshake
       THEN net' = Fail(net) /\ UNCHANGED <<queue, callbacks, waiters, told, heard>>
       ELSE LET id == Head(net.pipe).id
                closed == Closed(net, FALSE)
                read == [closed EXCEPT !.pipe = Tail(@),
                             !.stream = HardAssert(InhibitBackoff(@),
                                            HasBatch(queue[user], id))]
            IN  /\ NotifyUser(id, "error")
                /\ TriggerPendingWriteCallbacks(id)
                /\ queue' = RemoveBatch(id)
                /\ net' = [StartIfNeeded(FillWritePipeline(read, queue'[user]))
                              EXCEPT !.handshake = FALSE]
    /\ UNCHANGED <<authUser, mail, user, nextId, serverVars, awaited, issued, waits, events>>

\* The call ends without a word on the writes it carried.
Break ==
    /\ Event
    /\ IsOpen(net.stream)
    /\ net' = Fail(net)
    /\ UNCHANGED <<authUser, mail, localVars, serverVars, told, heard, awaited, issued, waits>>

-----------------------------------------------------------------------------
(* The network is switched or changes, the process ends and starts again.  *)

SetNetwork ==
    /\ Event
    /\ net' = IF net.enabled THEN DisableNetwork(net) ELSE EnableNetwork(net, queue[user])
    /\ UNCHANGED <<authUser, mail, localVars, serverVars, told, heard, awaited, issued, waits>>

OnConnectivityChange ==
    /\ Event
    /\ net.enabled
    /\ net' = RestartNetwork(net, queue[user])
    /\ UNCHANGED <<authUser, mail, localVars, serverVars, told, heard, awaited, issued, waits>>

\* Only the queues and the signed-in user are persistent.
Restart ==
    /\ Event
    /\ mail' = <<>>
    /\ user' = authUser
    /\ nextId' = NextBatchId(queue)
    /\ callbacks' = [v \in Users |-> {}]
    /\ waiters' = {}
    /\ net' = EnableNetwork(NewNet(authUser), queue[authUser])
    /\ UNCHANGED <<authUser, queue, serverVars, told, heard, awaited, issued, waits>>

Next ==
    \/ WriteMutations \/ RegisterPendingWritesCallback
    \/ AuthStateDidChange \/ GetToken \/ TokenFails
    \/ HandleCredentialChange \/ ResumeStartWithCredentials
    \/ OnBackoffElapsed \/ OnIdleTimeout
    \/ ServerReplies \/ ServerRefuses
    \/ OnWriteStreamHandshakeComplete \/ OnWriteStreamMutationResult
    \/ OnWriteRejected \/ Break
    \/ SetNetwork \/ OnConnectivityChange \/ Restart

\* The worker queue runs what is put on it, the delays and the token requests
\* end, and the backend answers what it gets.
Fairness ==
    /\ WF_vars(GetToken)
    /\ WF_vars(HandleCredentialChange \/ ResumeStartWithCredentials)
    /\ WF_vars(OnBackoffElapsed)
    /\ WF_vars(ServerReplies \/ ServerRefuses)
    /\ WF_vars(OnWriteStreamHandshakeComplete \/ OnWriteStreamMutationResult \/ OnWriteRejected)

Spec == Init /\ [][Next]_vars

FairSpec == Spec /\ Fairness

-----------------------------------------------------------------------------
TypeOK ==
    /\ authUser \in Users /\ user \in Users
    /\ mail \in Seq([kind : {"user", "token"}, user : Users \union {NoUser}, count : Nat])
    /\ queue \in [Users -> Seq(Batch)] /\ nextId \in Nat
    /\ callbacks \in [Users -> SUBSET Batch]
    /\ waiters \subseteq [id : Nat, k : WaitNames]
    /\ net \in NetType
    /\ committed \subseteq WriteNames /\ refused \subseteq WriteNames
    /\ told \subseteq WriteNames \X {"ok", "error"}
    /\ heard \subseteq WaitNames \X {"ok", "cancelled"}
    /\ awaited \in [WaitNames -> SUBSET WriteNames]
    /\ issued \in 0..MaxWrites /\ waits \in 0..MaxWaits /\ events \in 0..MaxEvents

\* The state has its type and no assertion of the client fails, in whatever
\* order closes, tokens, timers, replies and user changes come: no reply
\* without a write in the pipeline, no result for a batch the queue does not
\* hold, no idle stop while there is something to send, no write before the
\* handshake or on a closed stream.
WellFormed == TypeOK /\ net.stream.ok

\* What is on a stream was made by the user whose token the stream carries:
\* no user's writes go out under another's name, although the token request,
\* the user change and the pipeline run behind each other.
StreamSpeaksForUser ==
    \A i \in DOMAIN net.wire :
        net.wire[i] # Handshake => net.wire[i] \in PendingOf(net.as)

\* A call of waitForPendingWrites is answered once, and OK means that every
\* write made before it has been decided and has left the queue.
WaitersHearTheTruth ==
    \A k \in WaitNames :
        /\ Cardinality({a \in heard : a[1] = k}) <= 1
        /\ <<k, "ok">> \in heard => awaited[k] \cap Pending = {}

\* The client keeps what WriteLog promises: writes are decided in the order
\* they were made, none is lost, none leaves the queue undecided, a caller
\* hears once, OK only of a write that is committed, and an error only of one
\* that is decided, when the backend has refused it or one close behind it.
Log == INSTANCE WriteLog
       WITH Writes <- WriteNames, line <- [u \in Users |-> WritesOf(queue[u])]

WritesKeepTheirOrder == Log!Spec

\* "If this was a permanent error, the request itself was the problem so it's
\* not going to succeed if we resend it" (remote_store.cc:513): only the caller
\* of a write that the backend refused hears an error.
ErrorIsOfTheRequest ==
    \A w \in WriteNames : <<w, "error">> \in told => w \in refused

\* While their user is signed in and the network is enabled, writes do not
\* wait for ever, nor does a caller waiting for them, if faults come to an end.
NoWriteWaitsForEver ==
    \A u \in Users :
        []<>(~net.enabled \/ user # u \/ (queue[u] = <<>> /\ waiters = {} /\ callbacks[u] = {}))
=============================================================================
