--------------------------- MODULE FirestoreGets ---------------------------
(***************************************************************************)
(* How getDocuments() is answered: a listen that removes itself at its     *)
(* first event (api/query_core.cc).  EventManager shares one listen among  *)
(* the gets of a query; RemoteStore runs the watch stream; the             *)
(* WatchChangeAggregator matches what comes on it to the listens sent;     *)
(* OnlineStateTracker decides when to give up on the backend and answer    *)
(* from the cache.                                                         *)
(*                                                                         *)
(* The client is one record, c, and a method an operator on it, because    *)
(* the methods call each other.  A view keeps, for `current`, the number   *)
(* of the listen for which the backend said so, 0 while it is not: the     *)
(* code has the flag alone.  Left out: documents, limbo resolution,        *)
(* existence filters and resume tokens.                                    *)
(***************************************************************************)
EXTENDS FirestoreStream, Integers, SequencesExt

CONSTANTS Queries,
          Deniable,    \* queries the backend's rules may deny
          MaxGets,     \* bound: calls of getDocuments
          MaxEvents    \* bound: faults, network changes, changed documents

ASSUME GetsAssumption ==
    /\ IsFiniteSet(Queries) /\ Deniable \subseteq Queries
    /\ MaxGets \in Nat /\ MaxEvents \in Nat

Gets == 1..MaxGets
OnlineStates == {"Unknown", "Online", "Offline"}

VARIABLES c,         \* the client, as changed on the worker queue
          denied,    \* the backend rejects a listen to these queries
          query,     \* the query of each get made
          removing,  \* gets whose RemoveListener waits for the worker queue
          muted,     \* gets whose AsyncEventListener is muted
          answers,   \* how often each get's callback was called
          events

vars == <<c, denied, query, removing, muted, answers, events>>

NewTarget == [out |-> 0, current |-> 0, dirty |-> FALSE]
NotServed == [listen |-> 0, current |-> FALSE]

ClientType ==
    [ enabled : BOOLEAN, stream : StreamType,
      replies : Seq([kind : {"added", "removed", "rejected", "current", "change", "snapshot"},
                     q : Queries, listen : Nat]),
      served : [Queries -> [listen : Nat, current : BOOLEAN]],  \* the backend's end of the stream
      target : [Queries -> [out : Int,          \* outstanding_responses_
                            current : Nat, dirty : BOOLEAN]],
      online : OnlineStates,                    \* OnlineStateTracker: state_
      failed : BOOLEAN,                         \*   watch_stream_failures_ # 0
      timer : BOOLEAN,                          \*   online_state_timer_
      listens : [Queries -> Nat],               \* the number of listens so far
      listeners : [Queries -> Seq(Gets)],       \* EventManager's queries_
      view : [Queries -> Nat],                  \* View's current_
      raised : SUBSET Gets,                     \* raised_initial_event_
      main : Seq([g : Gets, what : {"server", "cache", "error"}]) ]  \* user executor

Targets(x) == {q \in Queries : x.listeners[q] # <<>>}

Assert_(x, fact) == [x EXCEPT !.stream = HardAssert(@, fact)]

-----------------------------------------------------------------------------
(* QueryListener and EventManager.                                         *)

Sift(gets, set) ==
    FoldLeft(LAMBDA s, g : IF g \in set THEN Append(s, g) ELSE s, <<>>, gets)

\* The gets of a list that are in a set.  Applying a function makes TLC
\* evaluate the list once, where an operator would evaluate it at each use.
Those(gets, set) == [s \in Seq(Gets) |-> Sift(s, set)][gets]

Tell(x, gets, what) == [x EXCEPT !.main = @ \o [i \in DOMAIN gets |-> [g |-> gets[i], what |-> what]]]

\* A get waits for the backend unless the client knows it is offline.
ShouldRaiseInitialEvent(current, online) == current # 0 \/ online = "Offline"

\* A snapshot of the query's view for some of its gets.
Raise(x, q, gets, online) ==
    LET heard == IF ShouldRaiseInitialEvent(x.view[q], online) THEN gets
                 ELSE Those(gets, x.raised)
    IN  [Tell(x, heard, IF x.view[q] = 0 THEN "cache" ELSE "server")
            EXCEPT !.raised = @ \union Range(heard)]

Waiting(x, q) == Those(x.listeners[q], Gets \ x.raised)

\* Offline, no view is current any more.
Lapse(x, online, was) ==
    FoldLeft(LAMBDA y, q :
                IF online # "Offline" \/ y.view[q] = 0 THEN y
                ELSE Raise([y EXCEPT !.view[q] = 0], q, y.listeners[q], was),
             x, SetToSeq(Targets(x)))

\* The gets that still wait look at the online state again.
LookAgain(x, online) ==
    FoldLeft(LAMBDA y, q : Raise(y, q, Waiting(y, q), online), x, SetToSeq(Targets(x)))

SetAndBroadcast(x, online) ==
    IF online = x.online THEN x
    ELSE LookAgain(Lapse([x EXCEPT !.online = online], online, x.online), online)

-----------------------------------------------------------------------------
(* OnlineStateTracker.                                                     *)

MutantUpdateState(x, online) == SetAndBroadcast([x EXCEPT !.failed = FALSE], online)

UpdateState(x, online) == SetAndBroadcast([x EXCEPT !.timer = FALSE, !.failed = FALSE], online)

HandleWatchStreamStart(x) ==
    IF x.failed THEN x
    ELSE [Assert_(SetAndBroadcast(x, "Unknown"), ~x.timer) EXCEPT !.timer = TRUE]

HandleWatchStreamFailure(x) ==
    IF x.online = "Online"
    THEN Assert_(SetAndBroadcast(x, "Unknown"), ~x.failed /\ ~x.timer)
    ELSE SetAndBroadcast([x EXCEPT !.failed = TRUE, !.timer = FALSE], "Offline")

-----------------------------------------------------------------------------
(* RemoteStore's watch half.                                               *)

ShouldStartWatchStream(x) == x.enabled /\ ~IsStarted(x.stream) /\ Targets(x) # {}

MutantStartWatchStream(x) == HandleWatchStreamStart([x EXCEPT !.stream = Start(@)])

\* Every stream has a new aggregator.
StartWatchStream(x) ==
    HandleWatchStreamStart([x EXCEPT !.target = [q \in Queries |-> NewTarget],
                                     !.stream = Start(@)])

Reply(x, kinds, q) ==
    [x EXCEPT !.replies = @ \o [i \in DOMAIN kinds |->
                                  [kind |-> kinds[i], q |-> q, listen |-> x.listens[q]]]]

\* A request is sent, and counted until it is answered.  The backend reads it
\* at once: whatever it would have sent before, it may have sent already.
Send(x, q) == [x EXCEPT !.target[q].out = @ + 1, !.stream = Write(@)]

SendWatchRequest(x, q) ==
    IF q \in denied THEN Reply(Send(x, q), <<"rejected">>, q)
    ELSE Reply([Send(x, q) EXCEPT !.served[q] = [listen |-> x.listens[q], current |-> FALSE]],
               <<"added">>, q)

SendUnwatchRequest(x, q) ==
    Reply([Send(x, q) EXCEPT !.served[q] = NotServed], <<"removed">>, q)

SendAll(x) == FoldLeft(SendWatchRequest, x, SetToSeq(Targets(x)))

\* Closing takes what is under way with it, the token request included, whose
\* late answer is dropped (FirestoreWrites has it).  If there are targets the
\* stream is started again, which after an error means after a delay.
Close_(x, graceful) ==
    LET closed == [x EXCEPT !.stream = [Close(@, graceful) EXCEPT !.asked = {}, !.count = 0],
                            !.replies = <<>>, !.served = [q \in Queries |-> NotServed]]
        checked == Assert_(closed, graceful => ~ShouldStartWatchStream(closed))
    IN  IF ShouldStartWatchStream(checked)
        THEN StartWatchStream(HandleWatchStreamFailure(checked))
        ELSE UpdateState(checked, "Unknown")

Stop(x) == IF IsStarted(x.stream) THEN Close_(x, TRUE) ELSE x

EnableNetwork(x) ==
    LET enabled == [x EXCEPT !.enabled = TRUE]
    IN  IF ShouldStartWatchStream(enabled) THEN StartWatchStream(enabled)
        ELSE UpdateState(enabled, "Unknown")

DisableNetworkInternal(x) == Stop([x EXCEPT !.enabled = FALSE])

DisableNetwork(x) == UpdateState(DisableNetworkInternal(x), "Offline")

RestartNetwork(x) ==
    EnableNetwork([UpdateState(DisableNetworkInternal(x), "Unknown")
                      EXCEPT !.stream = InhibitBackoff(@)])

\* RemoteStore::Listen
SendListen(x, q) ==
    IF ShouldStartWatchStream(x) THEN StartWatchStream(x)
    ELSE IF IsOpen(x.stream) THEN SendWatchRequest(x, q) ELSE x

\* SyncEngine::Listen: a new view, from the cache.
Listen(x, g, q) ==
    LET fresh == [x EXCEPT !.listens[q] = @ + 1, !.view[q] = 0, !.listeners[q] = <<g>>]
    IN  SendListen(Raise(fresh, q, <<g>>, x.online), q)

AddQueryListener(x, g, q) ==
    IF x.listeners[q] = <<>> THEN Listen(x, g, q)
    ELSE Raise([x EXCEPT !.listeners[q] = Append(@, g)], q, <<g>>, x.online)

\* The target is gone from `x` already.
StopListening(x, q) ==
    LET told == IF IsOpen(x.stream) THEN SendUnwatchRequest(x, q) ELSE x
    IN  IF Targets(x) # {} THEN told
        ELSE IF IsOpen(x.stream) THEN [told EXCEPT !.stream = MarkIdle(@)]
        ELSE IF x.enabled THEN UpdateState(told, "Unknown") ELSE told

RemoveQueryListener(x, g, q) ==
    LET left == [x EXCEPT !.listeners[q] = Those(@, Gets \ {g}),
                          !.view[q] = IF x.listeners[q] = <<g>> THEN 0 ELSE @]
    IN  IF x.listeners[q] = <<g>> THEN StopListening(left, q) ELSE left

-----------------------------------------------------------------------------
(* WatchChangeAggregator.                                                  *)

MutantIsActiveTarget(x, q) == q \in Targets(x)

\* A target with a request not yet answered takes no changes: they may be of
\* an earlier listen.
IsActiveTarget(x, q) == x.target[q].out = 0 /\ q \in Targets(x)

Answered(t) == [t EXCEPT !.out = @ - 1]

HandleChange(x, m) ==
    LET q == m.q
        t == Answered(x.target[q])
    IN  CASE m.kind = "added" ->
               [x EXCEPT !.target[q] = IF t.out = 0 THEN [t EXCEPT !.dirty = FALSE] ELSE t]
          [] m.kind = "removed" ->
               [x EXCEPT !.target[q] = IF t.out = 0 THEN NewTarget ELSE t]
          [] m.kind = "current" /\ IsActiveTarget(x, q) ->
               [x EXCEPT !.target[q].current = m.listen, !.target[q].dirty = TRUE]
          [] m.kind = "change" /\ IsActiveTarget(x, q) ->
               [x EXCEPT !.target[q].dirty = TRUE]
          [] OTHER -> x

\* RaiseWatchSnapshot: what has gathered for the active targets becomes the
\* state of their views.
RaiseWatchSnapshot(x) ==
    LET show(y, q) ==
            Raise([y EXCEPT !.view[q] = y.target[q].current, !.target[q].dirty = FALSE],
                  q, y.listeners[q], y.online)
    IN  FoldLeft(show, x, SetToSeq({q \in Queries : IsActiveTarget(x, q) /\ x.target[q].dirty}))

\* The error goes to the gets, and nothing is kept of the query.
ProcessTargetError(x, q) ==
    IF q \notin Targets(x) THEN x
    ELSE [Tell(x, x.listeners[q], "error")
             EXCEPT !.target[q] = NewTarget, !.listeners[q] = <<>>, !.view[q] = 0]

OnWatchStreamChange(x, m) ==
    LET online == UpdateState(x, "Online")
    IN  CASE m.kind = "rejected" -> ProcessTargetError(online, m.q)
          [] m.kind = "snapshot" -> RaiseWatchSnapshot(online)
          [] OTHER -> HandleChange(online, m)

-----------------------------------------------------------------------------
NewClient ==
    [enabled |-> TRUE, stream |-> NewStream, replies |-> <<>>,
     served |-> [q \in Queries |-> NotServed], target |-> [q \in Queries |-> NewTarget],
     online |-> "Unknown", failed |-> FALSE, timer |-> FALSE,
     listens |-> [q \in Queries |-> 0], listeners |-> [q \in Queries |-> <<>>],
     view |-> [q \in Queries |-> 0], raised |-> {}, main |-> <<>>]

Init ==
    /\ c = NewClient
    /\ denied \in SUBSET Deniable
    /\ query = <<>>
    /\ removing = {}
    /\ muted = {}
    /\ answers = [g \in Gets |-> 0]
    /\ events = 0

Event == events < MaxEvents /\ events' = events + 1

\* The app calls getDocuments.
GetDocuments ==
    /\ Len(query) < MaxGets
    /\ \E q \in Queries :
          /\ query' = Append(query, q)
          /\ c' = AddQueryListener(c, Len(query) + 1, q)
    /\ UNCHANGED <<denied, removing, muted, answers, events>>

MutantDelivered(g) == TRUE

\* AsyncEventListener calls its delegate.
Delivered(g) == g \notin muted

\* The user executor gives an event to its get, which takes the listener away
\* and calls back; after an error there is no listener left to take away.
OnEvent ==
    /\ c.main # <<>>
    /\ c' = [c EXCEPT !.main = Tail(@)]
    /\ LET e == Head(c.main)
       IN  IF ~Delivered(e.g) THEN UNCHANGED <<answers, muted, removing>>
           ELSE /\ answers' = [answers EXCEPT ![e.g] = @ + 1]
                /\ IF e.what = "error" THEN UNCHANGED <<muted, removing>>
                   ELSE muted' = muted \union {e.g} /\ removing' = removing \union {e.g}
    /\ UNCHANGED <<denied, query, events>>

RemoveListener ==
    /\ \E g \in removing :
          /\ removing' = removing \ {g}
          /\ c' = RemoveQueryListener(c, g, query[g])
    /\ UNCHANGED <<denied, query, muted, answers, events>>

KeepOutside == UNCHANGED <<denied, query, removing, muted, answers>>

\* The token comes: the stream is open, and every target is sent.
OnWatchStreamOpen ==
    /\ c.stream.asked # {}
    /\ c' = SendAll([c EXCEPT !.stream = [ResumeStart(@) EXCEPT !.asked = {}]])
    /\ KeepOutside /\ UNCHANGED events

OnBackoffElapsed ==
    /\ c.stream.backoff
    /\ c' = [c EXCEPT !.stream = BackoffElapsed(@)]
    /\ KeepOutside /\ UNCHANGED events

OnIdleTimeout ==
    /\ c.stream.idle
    /\ c' = Stop(c)
    /\ KeepOutside /\ UNCHANGED events

\* Ten seconds without a word from the backend.
OnOnlineStateTimeout ==
    /\ c.timer
    /\ c' = SetAndBroadcast(Assert_([c EXCEPT !.timer = FALSE], c.online = "Unknown"), "Offline")
    /\ KeepOutside /\ UNCHANGED events

OnReply ==
    /\ c.replies # <<>>
    /\ c' = OnWatchStreamChange([c EXCEPT !.replies = Tail(@)], Head(c.replies))
    /\ KeepOutside /\ UNCHANGED events

\* The stream fails, opening or open, or no token can be had.
Fail ==
    /\ Event
    /\ c.stream.state \in {"Starting", "Open"}
    /\ c' = Close_(c, FALSE)
    /\ KeepOutside

SetNetwork ==
    /\ Event
    /\ c' = IF c.enabled THEN DisableNetwork(c) ELSE EnableNetwork(c)
    /\ KeepOutside

\* The user or the connectivity has changed.
OnNetworkChange ==
    /\ Event
    /\ c.enabled
    /\ c' = RestartNetwork(c)
    /\ KeepOutside

-----------------------------------------------------------------------------
(* The backend: of a query it does not deny it says when it is current,    *)
(* and what changes later.                                                 *)

ServerCurrent ==
    /\ \E q \in Queries :
          /\ c.served[q].listen # 0 /\ ~c.served[q].current
          /\ c' = Reply([c EXCEPT !.served[q].current = TRUE], <<"current", "snapshot">>, q)
    /\ KeepOutside /\ UNCHANGED events

\* A document of the query changes.
ServerChange ==
    /\ Event
    /\ \E q \in Queries :
          /\ c.served[q].current
          /\ c' = Reply(c, <<"change", "snapshot">>, q)
    /\ KeepOutside

Next ==
    \/ GetDocuments \/ OnEvent \/ RemoveListener
    \/ OnWatchStreamOpen \/ OnBackoffElapsed \/ OnIdleTimeout \/ OnOnlineStateTimeout
    \/ OnReply \/ Fail \/ SetNetwork \/ OnNetworkChange
    \/ ServerCurrent \/ ServerChange

\* Whatever can run does: queues, executors and timers, token requests, the
\* backend's answers.
Progress ==
    \/ OnEvent \/ RemoveListener
    \/ OnWatchStreamOpen \/ OnBackoffElapsed \/ OnReply
    \/ ServerCurrent

Fairness == WF_vars(Progress)

Spec == Init /\ [][Next]_vars

FairSpec == Spec /\ Fairness

-----------------------------------------------------------------------------
TypeOK ==
    /\ c \in ClientType
    /\ denied \subseteq Deniable /\ query \in Seq(Queries)
    /\ removing \subseteq muted /\ muted \subseteq Gets
    /\ answers \in [Gets -> Nat] /\ events \in 0..MaxEvents

\* The state has its type and no assertion of the client fails: no start of a
\* started stream, no idle stop while there are targets, no write on a closed
\* stream, one online-state timer at a time and only while the state is Unknown.
WellFormed == TypeOK /\ c.stream.ok

\* A get's callback is called once, although its listen may raise events
\* until the worker queue has removed it (a second call would break the
\* promise the registration waits on).
AnsweredOnce == \A g \in Gets : answers[g] <= 1

\* A view is current only because the backend said so of the listen the view
\* was made for, never of an earlier listen to the same query whose messages
\* are still on the stream.
CurrentIsOfThisListen ==
    \A q \in Queries : c.view[q] \in {0, c.listens[q]}

\* Every get is answered: from the backend, from the cache once the client
\* knows it is offline, or with an error, if faults come to an end.
EveryGetAnswered ==
    \A g \in Gets : g \in DOMAIN query ~> answers[g] > 0

\* What the comment on kOnlineStateTimeout says: while the client does not know
\* whether it is online and is waiting for the backend, the timeout runs.
UnknownIsTimed ==
    c.enabled /\ Targets(c) # {} /\ c.online = "Unknown" => c.timer
============================================================================
