---------------------------- MODULE DocumentCache ----------------------------
(***************************************************************************)
(* One document as Firestore's client keeps it (local/local_store.cc): the *)
(* cached remote document, on which the mutations of the user's queue are  *)
(* overlaid to give what the app sees.  Two things bring the cache forward *)
(* and run past each other: the acknowledgement of a write, whose outcome  *)
(* the client works out itself from what it has cached, and the watch      *)
(* stream, which brings the document as the backend has it.                *)
(*                                                                         *)
(* The document is a list of the app: the set of its places, changed by    *)
(* arrayUnion and arrayRemove, created by setData, deleted by delete.      *)
(* That writes are decided in order, and again after a break, is the       *)
(* promise of WriteLog; `acks` are the replies not yet delivered.  A       *)
(* refusal may be taken for a write that is committed.                     *)
(***************************************************************************)
EXTENDS Naturals, SequencesExt

CONSTANTS Places,
          MaxWrites,   \* bound: writes of this client
          MaxOthers,   \* bound: writes of other clients
          MaxBreaks    \* bound: streams lost

ASSUME BoundsAssumption == MaxWrites \in Nat /\ MaxOthers \in Nat /\ MaxBreaks \in Nat

VARIABLES queue,     \* mutation_queue_: the pending mutations, oldest first
          remote,    \* remote_document_cache_
          server,    \* the backend: the document
          clock,     \*   and the time of its last commit
          acks,      \* replies under way: a version, or Refused
          watch,     \* documents under way on the watch stream
          sent,      \* the version the watch stream has got to
          resume,    \* the version the client has heard of last
          writes, others, breaks  \* counters for the bounds

vars == <<queue, remote, server, clock, acks, watch, sent, resume, writes, others, breaks>>

Mutations == [op : {"union", "remove"}, e : Places] \union [op : {"set", "delete"}]

Refused == 0

Missing == [exists |-> FALSE, places |-> {}]

Content(d) == [exists |-> d.exists, places |-> d.places]

\* A version is stamped on contents, at the backend and in watch's messages.
At(c, ver) == [exists |-> c.exists, places |-> c.places, ver |-> ver]

\* updateData has the precondition that the document exists.
IsValidFor(m, exists) == m.op \in {"set", "delete"} \/ exists

\* What a mutation makes of contents for which it is valid.
Outcome(m, c) ==
    CASE m.op = "set"    -> [exists |-> TRUE, places |-> {}]
      [] m.op = "delete" -> Missing
      [] m.op = "union"  -> [c EXCEPT !.places = @ \union {m.e}]
      [] m.op = "remove" -> [c EXCEPT !.places = @ \ {m.e}]

-----------------------------------------------------------------------------
(* The client.  A cached document is absent, a document, known not to      *)
(* exist, or of unknown contents; `pending` is has_pending_writes().       *)

CacheContent(r) == [exists |-> r.kind = "doc", places |-> r.places]

ApplyToLocalView(c, m) == IF IsValidFor(m, c.exists) THEN Outcome(m, c) ELSE c

\* LocalDocumentsView::GetDocument
LocalView(r, q) == FoldLeft(ApplyToLocalView, CacheContent(r), q)

Shown == LocalView(remote, queue)

Cached(kind, c, ver, pending) ==
    [kind |-> kind, places |-> c.places, ver |-> ver, pending |-> pending]

\* An acknowledged mutation was valid at the backend; where the cache says it
\* is not, the cache was behind.
ApplyToRemoteDocument(m, r, ver) ==
    IF ~IsValidFor(m, r.kind = "doc") THEN Cached("unknown", Missing, ver, TRUE)
    ELSE LET c == Outcome(m, CacheContent(r))
         IN  Cached(IF c.exists THEN "doc" ELSE "nodoc", c, ver, TRUE)

MutantAfterAck(m, r, ver) == r

MutantAfterAckLate(m, r, ver) ==
    IF r.kind = "absent" \/ r.ver <= ver THEN ApplyToRemoteDocument(m, r, ver + 1) ELSE r

\* ApplyBatchResult
AfterAck(m, r, ver) ==
    IF r.kind = "absent" \/ r.ver < ver THEN ApplyToRemoteDocument(m, r, ver) ELSE r

MutantIsNews(r, ver) == r.kind = "absent" \/ ver > r.ver

MutantIsOld(r, ver) == r.kind = "absent" \/ ver > r.ver \/ r.pending

\* ApplyRemoteEvent's test: what the client worked out itself gives way to the
\* backend's document of the same version.
IsNews(r, ver) == r.kind = "absent" \/ ver > r.ver \/ (ver = r.ver /\ r.pending)

AfterWatch(d, r) ==
    IF IsNews(r, d.ver) THEN Cached(IF d.exists THEN "doc" ELSE "nodoc", d, d.ver, FALSE) ELSE r

-----------------------------------------------------------------------------
Init ==
    /\ queue = <<>>
    /\ remote = Cached("absent", Missing, 0, FALSE)
    /\ server = At(Missing, 0)
    /\ clock = 0
    /\ acks = <<>>
    /\ watch = <<>>
    /\ sent = 0
    /\ resume = 0
    /\ writes = 0
    /\ others = 0
    /\ breaks = 0

\* The backend commits a mutation; a write that changes nothing leaves the
\* document's version.
Commit(m) ==
    LET c == Outcome(m, Content(server))
    IN  /\ clock' = clock + 1
        /\ server' = IF c = Content(server) THEN server ELSE At(c, clock')

WriteLocally ==
    /\ writes < MaxWrites
    /\ writes' = writes + 1
    /\ \E m \in Mutations : queue' = Append(queue, m)
    /\ UNCHANGED <<remote, server, clock, acks, watch, sent, resume, others, breaks>>

\* The backend decides the next write; the version it answers with is that of
\* the document, or for a delete that of the commit.
ServerDecides ==
    /\ Len(acks) < Len(queue)
    /\ Refused \notin Range(acks)
    /\ LET m == queue[Len(acks) + 1]
       IN  IF IsValidFor(m, server.exists)
           THEN /\ Commit(m)
                /\ acks' = Append(acks, IF m.op = "delete" THEN clock' ELSE server'.ver)
           ELSE acks' = Append(acks, Refused) /\ UNCHANGED <<server, clock>>
    /\ UNCHANGED <<queue, remote, watch, sent, resume, writes, others, breaks>>

AcknowledgeBatch ==
    /\ acks # <<>> /\ Head(acks) # Refused
    /\ remote' = AfterAck(Head(queue), remote, Head(acks))
    /\ queue' = Tail(queue)
    /\ acks' = Tail(acks)
    /\ UNCHANGED <<server, clock, watch, sent, resume, writes, others, breaks>>

\* A refusal ends the write stream, with the replies not read, and is taken for
\* the first write of the queue, which may be committed.
RejectBatch ==
    /\ Refused \in Range(acks)
    /\ queue' = Tail(queue)
    /\ acks' = <<>>
    /\ UNCHANGED <<remote, server, clock, watch, sent, resume, writes, others, breaks>>

\* The same user's app on another device.
OtherClientWrites ==
    /\ others < MaxOthers
    /\ others' = others + 1
    /\ \E m \in Mutations : IsValidFor(m, server.exists) /\ Commit(m)
    /\ UNCHANGED <<queue, remote, acks, watch, sent, resume, writes, breaks>>

WatchSends ==
    /\ sent < server.ver
    /\ watch' = Append(watch, server)
    /\ sent' = server.ver
    /\ UNCHANGED <<queue, remote, server, clock, acks, resume, writes, others, breaks>>

ApplyRemoteEvent ==
    /\ watch # <<>>
    /\ remote' = AfterWatch(Head(watch), remote)
    /\ resume' = Head(watch).ver
    /\ watch' = Tail(watch)
    /\ UNCHANGED <<queue, server, clock, acks, sent, writes, others, breaks>>

Breaks == breaks < MaxBreaks /\ breaks' = breaks + 1

\* The write stream is lost.  A restart of the process loses both streams, so
\* it is this and BreakWatch.
BreakWrites ==
    /\ Breaks
    /\ acks' = <<>>
    /\ UNCHANGED <<queue, remote, server, clock, watch, sent, resume, writes, others>>

\* The watch stream is lost.  The cache is kept, and the listen resumes from a
\* token that may be older than the last heard.
BreakWatch ==
    /\ Breaks
    /\ watch' = <<>>
    /\ sent' \in 0..resume
    /\ UNCHANGED <<queue, remote, server, clock, acks, resume, writes, others>>

Next ==
    \/ WriteLocally \/ ServerDecides \/ AcknowledgeBatch \/ RejectBatch
    \/ OtherClientWrites \/ WatchSends \/ ApplyRemoteEvent
    \/ BreakWrites \/ BreakWatch

Spec == Init /\ [][Next]_vars

-----------------------------------------------------------------------------
DocType == [exists : BOOLEAN, places : SUBSET Places, ver : Nat]

CacheType == [kind : {"absent", "doc", "nodoc", "unknown"}, places : SUBSET Places,
              ver : Nat, pending : BOOLEAN]

\* The types, and no version from the future.
TypeOK ==
    /\ queue \in Seq(Mutations)
    /\ remote \in CacheType
    /\ server \in DocType /\ clock \in Nat /\ remote.ver <= clock
    /\ acks \in Seq(Nat) /\ watch \in Seq(DocType)
    /\ sent \in Nat /\ resume \in Nat
    /\ writes \in 0..MaxWrites /\ others \in 0..MaxOthers /\ breaks \in 0..MaxBreaks

\* When the queue is empty and all that the backend had to send has arrived,
\* the app sees the document as the backend has it, although the client has
\* guessed at the outcome of its own writes from a cache that was behind.
CaughtUp ==
    queue = <<>> /\ watch = <<>> /\ sent = server.ver => Shown = Content(server)

\* The cached document never goes back to an older version, whichever of an
\* acknowledgement and the watch stream comes first.
CacheNeverGoesBack == [][remote'.ver >= remote.ver]_vars

\* An acknowledgement alone does not change what the app sees, unless the
\* cache already holds that version or a later one.
AckDoesNotFlicker ==
    [][AcknowledgeBatch /\ (remote.kind = "absent" \/ remote.ver < Head(acks))
          => Shown' = Shown]_vars
=============================================================================
