------------------------ MODULE DocumentCacheProofs ------------------------
(* Proofs about DocumentCache, for any places, versions and bounds: its type *)
(* invariant, and that the cache never goes back.                            *)
EXTENDS DocumentCache, SequenceTheorems, WellFoundedInduction, TLAPS

\* An acknowledgement is of a queued write.
AcksAreOfWrites == Len(acks) <= Len(queue)

\* A document not cached has the oldest version.
AbsentIsOldest == remote.kind = "absent" => remote.ver = 0

\* No version under way is from the future.
NothingFromTheFuture ==
    /\ server.ver <= clock
    /\ \A i \in 1..Len(acks) : acks[i] <= clock
    /\ \A i \in 1..Len(watch) : watch[i].ver <= clock

IInv == TypeOK /\ AcksAreOfWrites /\ AbsentIsOldest /\ NothingFromTheFuture

-----------------------------------------------------------------------------
\* The outcome of a mutation is contents of a document.
LEMMA OutcomeType ==
  ASSUME NEW m \in Mutations, NEW C \in [exists : BOOLEAN, places : SUBSET Places]
  PROVE  Outcome(m, C) \in [exists : BOOLEAN, places : SUBSET Places]
<1>1. CASE m.op = "set"
  BY <1>1 DEF Outcome
<1>2. CASE m.op = "delete"
  BY <1>2 DEF Outcome, Missing
<1>3. CASE m.op \in {"union", "remove"}
  <2>1. m.e \in Places
    BY <1>3 DEF Mutations
  <2> QED  BY <1>3, <2>1 DEF Outcome
<1> QED  BY <1>1, <1>2, <1>3 DEF Mutations

\* A write applied to the cache gives a cached document of the acknowledged
\* version.
LEMMA ApplyType ==
  ASSUME NEW m \in Mutations, NEW r \in CacheType, NEW ver \in Nat
  PROVE  /\ ApplyToRemoteDocument(m, r, ver) \in CacheType
         /\ ApplyToRemoteDocument(m, r, ver).ver = ver
         /\ ApplyToRemoteDocument(m, r, ver).kind # "absent"
<1>1. CacheContent(r) \in [exists : BOOLEAN, places : SUBSET Places]
  BY DEF CacheContent, CacheType
<1>2. Outcome(m, CacheContent(r)) \in [exists : BOOLEAN, places : SUBSET Places]
  BY <1>1, OutcomeType
<1>3. CASE ~IsValidFor(m, r.kind = "doc")
  BY <1>3 DEF ApplyToRemoteDocument, Cached, Missing, CacheType
<1>4. CASE IsValidFor(m, r.kind = "doc")
  <2>1. ApplyToRemoteDocument(m, r, ver) =
          Cached(IF Outcome(m, CacheContent(r)).exists THEN "doc" ELSE "nodoc",
                 Outcome(m, CacheContent(r)), ver, TRUE)
    BY <1>4 DEF ApplyToRemoteDocument
  <2> QED  BY <2>1, <1>2 DEF Cached, CacheType
<1> QED  BY <1>3, <1>4

\* ApplyBatchResult leaves a cached document that is not older than before.
LEMMA AfterAckForward ==
  ASSUME NEW m \in Mutations, NEW r \in CacheType, NEW ver \in Nat,
         r.kind = "absent" => r.ver = 0
  PROVE  /\ AfterAck(m, r, ver) \in CacheType
         /\ AfterAck(m, r, ver).ver >= r.ver
         /\ AfterAck(m, r, ver).ver \in {ver, r.ver}
         /\ AfterAck(m, r, ver).kind # "absent"
<1>1. CASE r.kind = "absent" \/ r.ver < ver
  <2>1. AfterAck(m, r, ver) = ApplyToRemoteDocument(m, r, ver)
    BY <1>1 DEF AfterAck
  <2>2. ver >= r.ver
    BY <1>1 DEF CacheType
  <2> QED  BY <2>1, <2>2, ApplyType
<1>2. CASE ~(r.kind = "absent" \/ r.ver < ver)
  BY <1>2 DEF AfterAck, CacheType
<1> QED  BY <1>1, <1>2

\* So does ApplyRemoteEvent.
LEMMA AfterWatchForward ==
  ASSUME NEW d \in DocType, NEW r \in CacheType, r.kind = "absent" => r.ver = 0
  PROVE  /\ AfterWatch(d, r) \in CacheType
         /\ AfterWatch(d, r).ver >= r.ver
         /\ AfterWatch(d, r).ver \in {d.ver, r.ver}
         /\ AfterWatch(d, r).kind # "absent"
<1>1. CASE IsNews(r, d.ver)
  <2>1. AfterWatch(d, r) = Cached(IF d.exists THEN "doc" ELSE "nodoc", d, d.ver, FALSE)
    BY <1>1 DEF AfterWatch
  <2>2. d.ver >= r.ver
    BY <1>1 DEF IsNews, CacheType, DocType
  <2> QED  BY <2>1, <2>2 DEF Cached, CacheType, DocType
<1>2. CASE ~IsNews(r, d.ver)
  BY <1>2 DEF AfterWatch, IsNews, CacheType, DocType
<1> QED  BY <1>1, <1>2

\* A commit takes the clock on, and the document has a version of now or before.
LEMMA CommitForward ==
  ASSUME NEW m \in Mutations, server \in DocType, clock \in Nat, server.ver <= clock, Commit(m)
  PROVE  /\ server' \in DocType
         /\ clock' = clock + 1
         /\ server'.ver <= clock'
<1>1. Content(server) \in [exists : BOOLEAN, places : SUBSET Places]
  BY DEF Content, DocType
<1>2. Outcome(m, Content(server)) \in [exists : BOOLEAN, places : SUBSET Places]
  BY <1>1, OutcomeType
<1>3. /\ clock' = clock + 1
      /\ server' \in {server, At(Outcome(m, Content(server)), clock')}
  BY DEF Commit
<1> QED  BY <1>2, <1>3 DEF At, DocType

-----------------------------------------------------------------------------
LEMMA InitIInv == Init => IInv
<1> SUFFICES ASSUME Init PROVE IInv
  OBVIOUS
<1>1. TypeOK
  BY BoundsAssumption DEF Init, TypeOK, CacheType, DocType, Cached, Missing, At
<1> QED
  BY <1>1 DEF Init, IInv, AcksAreOfWrites, AbsentIsOldest, NothingFromTheFuture, Cached,
     Missing, At

LEMMA NextIInv == IInv /\ [Next]_vars => IInv' /\ (remote'.ver >= remote.ver)
<1> SUFFICES ASSUME IInv, [Next]_vars
             PROVE  IInv' /\ remote'.ver >= remote.ver
  OBVIOUS
<1> USE DEF IInv, AcksAreOfWrites, AbsentIsOldest, NothingFromTheFuture
<1>0. remote \in CacheType /\ remote.ver \in Nat
  BY DEF TypeOK, CacheType
<1>1. CASE WriteLocally
  <2>1. PICK m \in Mutations : queue' = Append(queue, m)
    BY <1>1 DEF WriteLocally
  <2>2. queue' \in Seq(Mutations) /\ Len(queue') = Len(queue) + 1
    BY <2>1 DEF TypeOK
  <2>3. writes' \in 0..MaxWrites
    BY <1>1, BoundsAssumption DEF WriteLocally, TypeOK
  <2>4. UNCHANGED <<remote, server, clock, acks, watch, sent, resume, others, breaks>>
    BY <1>1 DEF WriteLocally
  <2> QED  BY <1>0, <2>2, <2>3, <2>4 DEF TypeOK
<1>2. CASE ServerDecides
  <2> DEFINE m == queue[Len(acks) + 1]
  <2>1. m \in Mutations
    BY <1>2 DEF ServerDecides, TypeOK
  <2>2. UNCHANGED <<queue, remote, watch, sent, resume, writes, others, breaks>>
    BY <1>2 DEF ServerDecides
  <2>3. PICK v \in Nat : /\ acks' = Append(acks, v) /\ v <= clock'
                         /\ clock' \in Nat /\ clock' >= clock
                         /\ server' \in DocType /\ server'.ver <= clock'
    <3>1. CASE IsValidFor(m, server.exists)
      <4>1. Commit(m) /\ acks' = Append(acks, IF m.op = "delete" THEN clock' ELSE server'.ver)
        BY <1>2, <3>1 DEF ServerDecides
      <4>2. server' \in DocType /\ clock' = clock + 1 /\ server'.ver <= clock'
        BY <4>1, <2>1, CommitForward DEF TypeOK
      <4>3. clock \in Nat /\ clock' \in Nat /\ server'.ver \in Nat
        BY <4>2 DEF TypeOK, DocType
      <4> QED  BY <4>1, <4>2, <4>3
    <3>2. CASE ~IsValidFor(m, server.exists)
      BY <1>2, <3>2 DEF ServerDecides, Refused, TypeOK
    <3> QED  BY <3>1, <3>2
  <2>4. acks' \in Seq(Nat) /\ Len(acks') = Len(acks) + 1
    BY <2>3 DEF TypeOK
  <2>5. Len(acks') <= Len(queue')
    BY <1>2, <2>2, <2>4 DEF ServerDecides, TypeOK
  <2>6. \A i \in 1..Len(acks') : acks'[i] <= clock'
    <3> SUFFICES ASSUME NEW i \in 1..Len(acks') PROVE acks'[i] <= clock'
      OBVIOUS
    <3>1. acks'[i] = IF i = Len(acks) + 1 THEN v ELSE acks[i]
      BY <2>3, <2>4 DEF TypeOK
    <3>2. i # Len(acks) + 1 => i \in 1..Len(acks) /\ acks[i] \in Nat
      BY <2>4, SMTT(20) DEF TypeOK
    <3> QED  BY <2>3, <3>1, <3>2 DEF TypeOK
  <2>7. \A i \in 1..Len(watch') : watch'[i].ver <= clock'
    <3> SUFFICES ASSUME NEW i \in 1..Len(watch) PROVE watch[i].ver <= clock'
      BY <2>2
    <3>1. watch[i].ver <= clock
      OBVIOUS
    <3>2. watch[i] \in DocType
      <4>1. watch \in Seq(DocType)
        BY DEF TypeOK
      <4> QED  BY <4>1
    <3>3. watch[i].ver \in Nat
      BY <3>2 DEF DocType
    <3> QED  BY <2>3, <3>1, <3>3 DEF TypeOK
  <2>8. remote'.ver <= clock'
    BY <1>0, <2>2, <2>3 DEF TypeOK
  <2> QED  BY <1>0, <2>2, <2>3, <2>4, <2>5, <2>6, <2>7, <2>8 DEF TypeOK
<1>3. CASE AcknowledgeBatch
  <2>1. /\ acks # <<>> /\ queue # <<>>
        /\ Head(queue) \in Mutations /\ queue' \in Seq(Mutations) /\ Len(queue') = Len(queue) - 1
        /\ acks' \in Seq(Nat) /\ Len(acks') = Len(acks) - 1
        /\ Head(acks) \in Nat /\ Head(acks) <= clock
    <3>1. acks # <<>> /\ queue # <<>>
      BY <1>3 DEF AcknowledgeBatch, TypeOK
    <3>2. acks' = Tail(acks) /\ queue' = Tail(queue)
      BY <1>3 DEF AcknowledgeBatch
    <3>3. /\ Head(queue) \in Mutations /\ Tail(queue) \in Seq(Mutations)
          /\ Len(Tail(queue)) = Len(queue) - 1
      BY <3>1, HeadTailProperties DEF TypeOK
    <3>4. /\ Head(acks) \in Nat /\ Tail(acks) \in Seq(Nat)
          /\ Len(Tail(acks)) = Len(acks) - 1
      BY <3>1, HeadTailProperties DEF TypeOK
    <3>5. Head(acks) <= clock
      BY <3>1 DEF TypeOK
    <3> QED  BY <3>1, <3>2, <3>3, <3>4, <3>5
  <2>2. UNCHANGED <<server, clock, watch, sent, resume, writes, others, breaks>>
    BY <1>3 DEF AcknowledgeBatch
  <2>3. /\ remote' \in CacheType /\ remote'.ver >= remote.ver /\ remote'.ver <= clock
        /\ remote'.kind # "absent"
    <3>1. remote' = AfterAck(Head(queue), remote, Head(acks))
      BY <1>3 DEF AcknowledgeBatch
    <3> QED  BY <1>0, <2>1, <3>1, AfterAckForward DEF TypeOK
  <2>4. \A i \in 1..Len(acks') : acks'[i] <= clock'
    <3> SUFFICES ASSUME NEW i \in 1..Len(acks') PROVE acks'[i] <= clock
      BY <2>2
    <3>1. acks'[i] = acks[i + 1] /\ i + 1 \in 1..Len(acks)
      BY <1>3, <2>1 DEF AcknowledgeBatch, TypeOK
    <3> QED  BY <3>1
  <2>5. Len(acks') <= Len(queue')
    BY <2>1 DEF TypeOK
  <2> QED  BY <2>1, <2>2, <2>3, <2>4, <2>5 DEF TypeOK
<1>4. CASE RejectBatch
  <2>1. acks # <<>> /\ acks' = <<>> /\ queue' = Tail(queue)
    BY <1>4, EmptySeq DEF RejectBatch, Range
  <2>2. queue # <<>>
    BY <2>1 DEF TypeOK
  <2>3. queue' \in Seq(Mutations) /\ Len(queue') \in Nat
    BY <2>1, <2>2, HeadTailProperties, LenProperties DEF TypeOK
  <2>4. UNCHANGED <<remote, server, clock, watch, sent, resume, writes, others, breaks>>
    BY <1>4 DEF RejectBatch
  <2>5. acks' \in Seq(Nat) /\ Len(acks') = 0
    BY <2>1, EmptySeq
  <2> QED  BY <1>0, <2>3, <2>4, <2>5 DEF TypeOK
<1>5. CASE OtherClientWrites
  <2>1. /\ server' \in DocType /\ server'.ver <= clock'
        /\ clock' = clock + 1 /\ clock \in Nat
    BY <1>5, CommitForward DEF OtherClientWrites, TypeOK
  <2>2. UNCHANGED <<queue, remote, acks, watch, sent, resume, writes, breaks>>
    BY <1>5 DEF OtherClientWrites
  <2>3. others' \in 0..MaxOthers
    BY <1>5, BoundsAssumption DEF OtherClientWrites, TypeOK
  <2>4. \A i \in 1..Len(acks') : acks'[i] <= clock'
    <3> SUFFICES ASSUME NEW i \in 1..Len(acks) PROVE acks[i] <= clock'
      BY <2>2
    <3>1. acks[i] \in Nat /\ acks[i] <= clock
      BY DEF TypeOK
    <3> QED  BY <2>1, <3>1
  <2>5. \A i \in 1..Len(watch') : watch'[i].ver <= clock'
    <3> SUFFICES ASSUME NEW i \in 1..Len(watch) PROVE watch[i].ver <= clock'
      BY <2>2
    <3>1. watch[i].ver <= clock
      OBVIOUS
    <3>2. watch[i] \in DocType
      <4>1. watch \in Seq(DocType)
        BY DEF TypeOK
      <4> QED  BY <4>1
    <3>3. watch[i].ver \in Nat
      BY <3>2 DEF DocType
    <3> QED  BY <2>1, <3>1, <3>3
  <2>6. remote'.ver <= clock'
    BY <1>0, <2>1, <2>2 DEF TypeOK
  <2> QED  BY <1>0, <2>1, <2>2, <2>3, <2>4, <2>5, <2>6 DEF TypeOK
<1>6. CASE WatchSends
  <2>1. watch' = Append(watch, server) /\ sent' = server.ver
    BY <1>6 DEF WatchSends
  <2>2. UNCHANGED <<queue, remote, server, clock, acks, resume, writes, others, breaks>>
    BY <1>6 DEF WatchSends
  <2>3. watch' \in Seq(DocType) /\ Len(watch') = Len(watch) + 1 /\ sent' \in Nat
    BY <2>1 DEF TypeOK, DocType
  <2>4. \A i \in 1..Len(watch') : watch'[i].ver <= clock'
    <3> SUFFICES ASSUME NEW i \in 1..Len(watch') PROVE watch'[i].ver <= clock
      BY <2>2
    <3>1. watch'[i] = IF i = Len(watch) + 1 THEN server ELSE watch[i]
      BY <2>1, <2>3 DEF TypeOK
    <3> QED  BY <2>3, <3>1 DEF TypeOK
  <2> QED  BY <1>0, <2>2, <2>3, <2>4 DEF TypeOK
<1>7. CASE ApplyRemoteEvent
  <2>1. watch # <<>> /\ watch' = Tail(watch) /\ resume' = Head(watch).ver
        /\ remote' = AfterWatch(Head(watch), remote)
    BY <1>7 DEF ApplyRemoteEvent
  <2>2. UNCHANGED <<queue, server, clock, acks, sent, writes, others, breaks>>
    BY <1>7 DEF ApplyRemoteEvent
  <2>3. /\ Head(watch) \in DocType /\ watch' \in Seq(DocType)
        /\ Len(watch') = Len(watch) - 1 /\ Head(watch) = watch[1] /\ Len(watch) >= 1
    BY <2>1, HeadTailProperties DEF TypeOK
  <2>4. Head(watch).ver \in Nat /\ Head(watch).ver <= clock
    BY <2>3 DEF TypeOK, DocType
  <2>5. /\ remote' \in CacheType /\ remote'.ver >= remote.ver /\ remote'.ver <= clock
        /\ remote'.kind # "absent"
    BY <1>0, <2>1, <2>3, <2>4, AfterWatchForward DEF TypeOK
  <2>6. \A i \in 1..Len(watch') : watch'[i].ver <= clock'
    <3> SUFFICES ASSUME NEW i \in 1..Len(watch') PROVE watch'[i].ver <= clock
      BY <2>2
    <3>1. watch'[i] = watch[i + 1] /\ i + 1 \in 1..Len(watch)
      BY <2>1, <2>3 DEF TypeOK
    <3> QED  BY <3>1
  <2> QED  BY <2>1, <2>2, <2>3, <2>4, <2>5, <2>6 DEF TypeOK
<1>8. CASE BreakWrites
  <2>1. /\ acks' = <<>> /\ breaks' \in 0..MaxBreaks
        /\ UNCHANGED <<queue, remote, server, clock, watch, sent, resume, writes, others>>
    BY <1>8, BoundsAssumption DEF BreakWrites, Breaks, TypeOK
  <2>2. Len(queue) \in Nat /\ acks' \in Seq(Nat) /\ Len(acks') = 0
    BY <2>1, EmptySeq DEF TypeOK
  <2> QED  BY <1>0, <2>1, <2>2 DEF TypeOK
<1>9. CASE BreakWatch
  <2>1. /\ watch' = <<>> /\ sent' \in Nat /\ breaks' \in 0..MaxBreaks
        /\ UNCHANGED <<queue, remote, server, clock, acks, resume, writes, others>>
    BY <1>9, BoundsAssumption DEF BreakWatch, Breaks, TypeOK
  <2> QED  BY <1>0, <2>1 DEF TypeOK
<1>10. CASE UNCHANGED vars
  BY <1>0, <1>10 DEF vars, TypeOK
<1> QED
  BY <1>1, <1>2, <1>3, <1>4, <1>5, <1>6, <1>7, <1>8, <1>9, <1>10 DEF Next

-----------------------------------------------------------------------------
\* Whatever the order of acknowledgements, watch messages, other clients'
\* writes and breaks, the state keeps its type and no version is from the
\* future (local_store.cc).
THEOREM CacheTypeCorrect == Spec => []TypeOK
<1>1. Init => IInv
  BY InitIInv
<1>2. IInv /\ [Next]_vars => IInv'
  BY NextIInv
<1>3. IInv => TypeOK
  BY DEF IInv
<1> QED  BY <1>1, <1>2, <1>3, PTL DEF Spec

\* The cached document never goes back to an older version, for any number of
\* writes, clients and breaks (ApplyBatchResult and ApplyRemoteEvent).
THEOREM CacheMovesForward == Spec => CacheNeverGoesBack
<1>1. Init => IInv
  BY InitIInv
<1>2. IInv /\ [Next]_vars => IInv'
  BY NextIInv
<1>3. IInv /\ [Next]_vars => [remote'.ver >= remote.ver]_vars
  BY NextIInv
<1> QED  BY <1>1, <1>2, <1>3, PTL DEF Spec, CacheNeverGoesBack
-----------------------------------------------------------------------------
(* CaughtUp.  What is known of the versions: which of them a document was    *)
(* worked out for, and how far the watch stream has got.                     *)

\* A document that does not exist has no places, and one never written does
\* not exist.
ContentsOK ==
    /\ remote.kind # "doc" => remote.places = {}
    /\ ~server.exists => server.places = {}
    /\ \A i \in 1..Len(watch) : ~watch[i].exists => watch[i].places = {}
    /\ server.ver = 0 => ~server.exists

\* A reply from after the last change of the document is of a delete that found
\* nothing to delete.
AcksKnown ==
    \A i \in 1..Len(acks) : \/ acks[i] <= server.ver
                            \/ queue[i].op = "delete" /\ ~server.exists

\* So the cache is ahead of the backend only where neither has a document, and
\* what came from the backend with its present version is its document.
CacheKnown ==
    /\ remote.ver <= server.ver \/ (remote.kind # "doc" /\ ~server.exists)
    /\ remote.ver = server.ver /\ ~remote.pending
          => CacheContent(remote) = Content(server)

\* The watch stream goes forward, no listen begins after what was heard last,
\* and a guess of the client's is of a version not heard of yet.
WatchKnown ==
    /\ \A i \in 1..Len(watch) :
          /\ resume <= watch[i].ver /\ watch[i].ver <= server.ver
          /\ watch[i].ver = server.ver => Content(watch[i]) = Content(server)
          /\ \A j \in i..Len(watch) : watch[i].ver <= watch[j].ver
    /\ IF watch = <<>> THEN sent <= resume ELSE sent = watch[Len(watch)].ver
    /\ resume <= server.ver /\ resume <= remote.ver
    /\ remote.pending => resume < remote.ver

Known == ContentsOK /\ AcksKnown /\ CacheKnown /\ WatchKnown

\* A commit leaves the document or gives it the time of the commit.
LEMMA CommitIs ==
  ASSUME NEW m \in Mutations, server \in DocType, clock \in Nat,
         ~server.exists => server.places = {}, IsValidFor(m, server.exists), Commit(m)
  PROVE  /\ clock' = clock + 1
         /\ \/ server' = server
            \/ /\ server' \in DocType /\ server'.ver = clock + 1
               /\ ~server'.exists => server'.places = {}
         /\ m.op = "delete" => \/ server'.ver = clock'
                               \/ server' = server /\ ~server.exists
<1> DEFINE C == Outcome(m, Content(server))
<1>1. Content(server) \in [exists : BOOLEAN, places : SUBSET Places]
  BY DEF Content, DocType
<1>2. C \in [exists : BOOLEAN, places : SUBSET Places]
  BY <1>1, OutcomeType
<1>3. ~C.exists => C.places = {}
  BY <1>1 DEF Outcome, IsValidFor, Mutations, Missing, Content, DocType
<1>4. m.op = "delete" => C = Missing
  BY DEF Outcome
<1>5. clock' = clock + 1 /\ server' = IF C = Content(server) THEN server ELSE At(C, clock')
  BY DEF Commit
<1> HIDE DEF C
<1>6. CASE C = Content(server)
  BY <1>4, <1>5, <1>6 DEF Content, Missing
<1>7. CASE C # Content(server)
  BY <1>2, <1>3, <1>5, <1>7 DEF At, DocType
<1> QED  BY <1>6, <1>7

\* A change of the document at the backend.
LEMMA KnownMoves ==
  ASSUME IInv, Known, UNCHANGED <<remote, watch, sent, resume>>, clock' = clock + 1,
         \/ server' = server
         \/ /\ server' \in DocType /\ server'.ver = clock + 1
            /\ ~server'.exists => server'.places = {}
  PROVE  /\ ContentsOK' /\ CacheKnown' /\ WatchKnown'
         /\ \A i \in 1..Len(acks) : \/ acks[i] <= server'.ver
                                    \/ queue[i].op = "delete" /\ ~server'.exists
<1>1. /\ server \in DocType /\ clock \in Nat /\ server.ver \in Nat /\ server.ver <= clock
      /\ remote \in CacheType /\ remote.ver \in Nat /\ remote.ver <= clock
      /\ watch \in Seq(DocType) /\ acks \in Seq(Nat) /\ resume \in Nat /\ sent \in Nat
      /\ \A i \in 1..Len(watch) : watch[i].ver \in Nat /\ watch[i].ver <= clock
      /\ \A i \in 1..Len(acks) : acks[i] \in Nat /\ acks[i] <= clock
  <2>1. watch \in Seq(DocType) /\ \A i \in 1..Len(watch) : watch[i] \in DocType
    BY DEF IInv, TypeOK
  <2> QED
    BY <2>1 DEF IInv, TypeOK, NothingFromTheFuture, DocType, CacheType
<1>2. CASE server' = server
  BY <1>2 DEF Known, ContentsOK, AcksKnown, CacheKnown, WatchKnown
<1>3. CASE server'.ver = clock + 1 /\ (~server'.exists => server'.places = {})
  <2>1. ContentsOK'
    BY <1>1, <1>3 DEF Known, ContentsOK
  <2>2. CacheKnown'
    BY <1>1, <1>3 DEF CacheKnown
  <2>3. WatchKnown'
    BY <1>1, <1>3 DEF Known, WatchKnown
  <2>4. \A i \in 1..Len(acks) : acks[i] <= server'.ver
    BY <1>1, <1>3
  <2> QED  BY <2>1, <2>2, <2>3, <2>4
<1> QED  BY <1>2, <1>3
\* The types and bounds of IInv, element by element.
LEMMA Typed ==
  ASSUME IInv
  PROVE  /\ queue \in Seq(Mutations) /\ acks \in Seq(Nat) /\ watch \in Seq(DocType)
         /\ \A i \in 1..Len(queue) : queue[i] \in Mutations
         /\ \A i \in 1..Len(acks) : acks[i] \in Nat /\ acks[i] <= clock
         /\ \A i \in 1..Len(watch) : /\ watch[i] \in DocType /\ watch[i].ver \in Nat
                                     /\ watch[i].ver <= clock
         /\ Len(queue) \in Nat /\ Len(acks) \in Nat /\ Len(watch) \in Nat
         /\ Len(acks) <= Len(queue)
         /\ server \in DocType /\ server.ver \in Nat /\ clock \in Nat /\ server.ver <= clock
         /\ remote \in CacheType /\ remote.ver \in Nat /\ remote.ver <= clock
         /\ sent \in Nat /\ resume \in Nat
         /\ remote.kind = "absent" => remote.ver = 0
<1>1. /\ queue \in Seq(Mutations) /\ acks \in Seq(Nat) /\ watch \in Seq(DocType)
      /\ server \in DocType /\ clock \in Nat /\ remote \in CacheType
      /\ sent \in Nat /\ resume \in Nat
  BY DEF IInv, TypeOK
<1>2. /\ \A i \in 1..Len(queue) : queue[i] \in Mutations
      /\ \A i \in 1..Len(acks) : acks[i] \in Nat
      /\ \A i \in 1..Len(watch) : watch[i] \in DocType
      /\ Len(queue) \in Nat /\ Len(acks) \in Nat /\ Len(watch) \in Nat
  BY <1>1
<1>3. /\ \A i \in 1..Len(watch) : watch[i].ver \in Nat
      /\ server.ver \in Nat /\ remote.ver \in Nat
  BY <1>1, <1>2 DEF DocType, CacheType
<1>4. /\ \A i \in 1..Len(acks) : acks[i] <= clock
      /\ \A i \in 1..Len(watch) : watch[i].ver <= clock
      /\ server.ver <= clock /\ remote.ver <= clock
      /\ Len(acks) <= Len(queue)
      /\ remote.kind = "absent" => remote.ver = 0
  BY DEF IInv, TypeOK, AcksAreOfWrites, AbsentIsOldest, NothingFromTheFuture
<1> QED
  BY <1>1, <1>2, <1>3, <1>4

LEMMA KnownInit == Init => Known
<1> SUFFICES ASSUME Init PROVE Known
  OBVIOUS
<1>1. /\ remote.kind = "absent" /\ remote.places = {} /\ remote.ver = 0 /\ ~remote.pending
      /\ ~server.exists /\ server.places = {} /\ server.ver = 0
      /\ acks = <<>> /\ watch = <<>> /\ sent = 0 /\ resume = 0
  BY DEF Init, Cached, Missing, At
<1>2. CacheContent(remote) = Content(server)
  BY <1>1 DEF CacheContent, Content
<1> QED
  BY <1>1, <1>2 DEF Known, ContentsOK, AcksKnown, CacheKnown, WatchKnown

LEMMA KnownWrite ==
  ASSUME IInv, Known, WriteLocally
  PROVE  Known'
<1>1. PICK m \in Mutations : queue' = Append(queue, m)
  BY DEF WriteLocally
<1>2. UNCHANGED <<remote, server, clock, acks, watch, sent, resume>>
  BY DEF WriteLocally
<1>3. AcksKnown'
  <2> SUFFICES ASSUME NEW i \in 1..Len(acks)
               PROVE  \/ acks[i] <= server.ver
                      \/ queue'[i].op = "delete" /\ ~server.exists
    BY <1>2 DEF AcksKnown
  <2>1. queue'[i] = queue[i]
    BY <1>1, Typed
  <2> QED  BY <2>1 DEF Known, AcksKnown
<1> QED
  BY <1>2, <1>3 DEF Known, ContentsOK, CacheKnown, WatchKnown

LEMMA KnownDecides ==
  ASSUME IInv, Known, ServerDecides
  PROVE  Known'
<1> DEFINE m == queue[Len(acks) + 1]
<1>1. /\ m \in Mutations /\ Len(acks) + 1 \in 1..Len(queue)
      /\ UNCHANGED <<queue, remote, watch, sent, resume>>
  BY Typed DEF ServerDecides
<1>2. CASE IsValidFor(m, server.exists)
  <2>1. PICK v : /\ Commit(m) /\ acks' = Append(acks, v)
                 /\ v = IF m.op = "delete" THEN clock' ELSE server'.ver
    BY <1>2 DEF ServerDecides
  <2>2. /\ clock' = clock + 1
        /\ \/ server' = server
           \/ /\ server' \in DocType /\ server'.ver = clock + 1
              /\ ~server'.exists => server'.places = {}
        /\ m.op = "delete" => \/ server'.ver = clock'
                              \/ server' = server /\ ~server.exists
    <3>1. ~server.exists => server.places = {}
      BY DEF Known, ContentsOK
    <3> HIDE DEF m
    <3> QED  BY <1>1, <1>2, <2>1, <3>1, Typed, CommitIs
  <2>3. /\ ContentsOK' /\ CacheKnown' /\ WatchKnown'
        /\ \A i \in 1..Len(acks) : \/ acks[i] <= server'.ver
                                   \/ queue[i].op = "delete" /\ ~server'.exists
    BY <1>1, <2>2, KnownMoves
  <2>4. AcksKnown'
    <3> SUFFICES ASSUME NEW i \in 1..Len(acks')
                 PROVE  \/ acks'[i] <= server'.ver
                        \/ queue[i].op = "delete" /\ ~server'.exists
      BY <1>1 DEF AcksKnown
    <3>1. CASE i = Len(acks) + 1
      <4>1. acks'[i] = v /\ server'.ver \in Nat
        BY <2>1, <2>2, <3>1, Typed DEF DocType
      <4> QED  BY <2>1, <2>2, <3>1, <4>1
    <3>2. CASE i # Len(acks) + 1
      <4>1. acks'[i] = acks[i] /\ i \in 1..Len(acks)
        BY <2>1, <3>2, Typed
      <4> QED  BY <2>3, <4>1
    <3> QED  BY <3>1, <3>2
  <2> QED  BY <2>3, <2>4 DEF Known
<1>3. CASE ~IsValidFor(m, server.exists)
  <2>1. acks' = Append(acks, Refused) /\ UNCHANGED <<server, clock>>
    BY <1>3 DEF ServerDecides
  <2>2. AcksKnown'
    <3> SUFFICES ASSUME NEW i \in 1..Len(acks')
                 PROVE  \/ acks'[i] <= server.ver
                        \/ queue[i].op = "delete" /\ ~server.exists
      BY <1>1, <2>1 DEF AcksKnown
    <3>1. \/ acks'[i] = 0
          \/ acks'[i] = acks[i] /\ i \in 1..Len(acks)
      BY <2>1, Typed DEF Refused
    <3> QED  BY <3>1, Typed DEF Known, AcksKnown
  <2> QED
    BY <1>1, <2>1, <2>2 DEF Known, ContentsOK, CacheKnown, WatchKnown
<1> QED  BY <1>2, <1>3

\* What an acknowledgement leaves in the cache: a guess of the version
\* acknowledged, or what was there.
LEMMA AfterAckIs ==
  ASSUME NEW m \in Mutations, NEW r \in CacheType, NEW ver \in Nat
  PROVE  \/ /\ r.kind = "absent" \/ r.ver < ver
            /\ AfterAck(m, r, ver).ver = ver /\ AfterAck(m, r, ver).pending
            /\ AfterAck(m, r, ver).kind # "doc" => AfterAck(m, r, ver).places = {}
            /\ m.op = "delete" => AfterAck(m, r, ver).kind # "doc"
         \/ /\ AfterAck(m, r, ver) = r /\ r.kind # "absent"
<1>1. CASE r.kind = "absent" \/ r.ver < ver
  <2>1. AfterAck(m, r, ver) = ApplyToRemoteDocument(m, r, ver)
    BY <1>1 DEF AfterAck
  <2>2. CacheContent(r) \in [exists : BOOLEAN, places : SUBSET Places]
    BY DEF CacheContent, CacheType
  <2> DEFINE C == Outcome(m, CacheContent(r))
  <2>3. C \in [exists : BOOLEAN, places : SUBSET Places]
    BY <2>2, OutcomeType
  <2>4. CASE ~IsValidFor(m, r.kind = "doc")
    BY <1>1, <2>1, <2>4 DEF ApplyToRemoteDocument, Cached, Missing, IsValidFor
  <2>5. CASE IsValidFor(m, r.kind = "doc")
    <3>1. ~C.exists => C.places = {}
      BY <2>2, <2>5 DEF Outcome, IsValidFor, Mutations, Missing, CacheContent
    <3>2. m.op = "delete" => ~C.exists
      BY DEF Outcome, Missing
    <3>3. AfterAck(m, r, ver) = Cached(IF C.exists THEN "doc" ELSE "nodoc", C, ver, TRUE)
      BY <2>1, <2>5 DEF ApplyToRemoteDocument
    <3> HIDE DEF C
    <3> QED  BY <1>1, <3>1, <3>2, <3>3 DEF Cached
  <2> QED  BY <2>4, <2>5
<1>2. CASE ~(r.kind = "absent" \/ r.ver < ver)
  BY <1>2 DEF AfterAck
<1> QED  BY <1>1, <1>2

\* A reply leaves the queue with its write.
LEMMA AcksKnownTail ==
  ASSUME IInv, Known, acks # <<>>, queue' = Tail(queue), acks' = Tail(acks), UNCHANGED server
  PROVE  AcksKnown'
<1> SUFFICES ASSUME NEW i \in 1..Len(acks')
             PROVE  \/ acks'[i] <= server.ver
                    \/ queue'[i].op = "delete" /\ ~server.exists
  BY DEF AcksKnown
<1>1. /\ i + 1 \in 1..Len(acks) /\ acks'[i] = acks[i + 1] /\ queue'[i] = queue[i + 1]
  BY Typed
<1> QED  BY <1>1 DEF Known, AcksKnown

LEMMA KnownAcknowledge ==
  ASSUME IInv, Known, AcknowledgeBatch
  PROVE  Known'
<1>1. PICK ver, m : ver = Head(acks) /\ m = Head(queue)
  OBVIOUS
<1>2. /\ acks # <<>> /\ queue # <<>> /\ ver # 0
      /\ ver = acks[1] /\ m = queue[1] /\ 1 \in 1..Len(acks) /\ 1 \in 1..Len(queue)
      /\ remote' = AfterAck(m, remote, ver)
      /\ queue' = Tail(queue) /\ acks' = Tail(acks)
      /\ UNCHANGED <<server, clock, watch, sent, resume>>
  BY <1>1, Typed DEF AcknowledgeBatch, Refused
<1>3. ver \in Nat /\ m \in Mutations /\ remote \in CacheType
  BY <1>2, Typed
<1>4. AcksKnown'
  BY <1>2, AcksKnownTail
<1>5. ver <= server.ver \/ (m.op = "delete" /\ ~server.exists)
  BY <1>2 DEF Known, AcksKnown
<1>6. CASE remote' = remote
  BY <1>2, <1>4, <1>6 DEF Known, ContentsOK, CacheKnown, WatchKnown
<1>7. CASE /\ remote.kind = "absent" \/ remote.ver < ver
           /\ remote'.ver = ver /\ remote'.pending
           /\ remote'.kind # "doc" => remote'.places = {}
           /\ m.op = "delete" => remote'.kind # "doc"
  <2>1. ContentsOK'
    BY <1>2, <1>7 DEF Known, ContentsOK
  <2>2. CacheKnown'
    BY <1>2, <1>5, <1>7 DEF CacheKnown
  <2>3. resume < ver
    BY <1>2, <1>3, <1>7, Typed DEF Known, WatchKnown
  <2>4. WatchKnown'
    <3>1. resume <= remote'.ver /\ resume < remote'.ver
      BY <1>3, <1>7, <2>3, Typed
    <3> QED  BY <1>2, <3>1 DEF Known, WatchKnown
  <2> QED  BY <1>4, <2>1, <2>2, <2>4 DEF Known
<1> QED  BY <1>2, <1>3, <1>6, <1>7, AfterAckIs

LEMMA KnownReject ==
  ASSUME IInv, Known, RejectBatch
  PROVE  Known'
<1>1. /\ acks' = <<>>
      /\ UNCHANGED <<remote, server, clock, watch, sent, resume>>
  BY DEF RejectBatch
<1>2. AcksKnown'
  BY <1>1 DEF AcksKnown
<1> QED
  BY <1>1, <1>2 DEF Known, ContentsOK, CacheKnown, WatchKnown

LEMMA KnownOthers ==
  ASSUME IInv, Known, OtherClientWrites
  PROVE  Known'
<1>1. PICK m \in Mutations : IsValidFor(m, server.exists) /\ Commit(m)
  BY DEF OtherClientWrites
<1>2. UNCHANGED <<queue, remote, acks, watch, sent, resume>>
  BY DEF OtherClientWrites
<1>3. /\ clock' = clock + 1
      /\ \/ server' = server
         \/ /\ server' \in DocType /\ server'.ver = clock + 1
            /\ ~server'.exists => server'.places = {}
  BY <1>1, Typed, CommitIs DEF Known, ContentsOK
<1>4. /\ ContentsOK' /\ CacheKnown' /\ WatchKnown'
      /\ \A i \in 1..Len(acks) : \/ acks[i] <= server'.ver
                                 \/ queue[i].op = "delete" /\ ~server'.exists
  BY <1>2, <1>3, KnownMoves
<1> QED
  BY <1>2, <1>4 DEF Known, AcksKnown

LEMMA KnownSends ==
  ASSUME IInv, Known, WatchSends
  PROVE  Known'
<1>1. /\ watch' = Append(watch, server) /\ sent' = server.ver
      /\ UNCHANGED <<queue, remote, server, clock, acks, resume>>
  BY DEF WatchSends
<1>2. /\ Len(watch') = Len(watch) + 1 /\ watch'[Len(watch) + 1] = server
      /\ \A i \in 1..Len(watch) : watch'[i] = watch[i]
      /\ watch' # <<>>
  <2>1. watch \in Seq(DocType) /\ server \in DocType
    BY Typed
  <2> QED  BY <1>1, <2>1
<1>3. \A i \in 1..Len(watch') :
         \/ i \in 1..Len(watch) /\ watch'[i] = watch[i]
         \/ i = Len(watch') /\ watch'[i] = server
  BY <1>2, Typed
<1>4. ContentsOK'
  BY <1>1, <1>3 DEF Known, ContentsOK
<1>5. \A i \in 1..Len(watch') :
         /\ resume <= watch'[i].ver /\ watch'[i].ver <= server.ver
         /\ watch'[i].ver = server.ver => Content(watch'[i]) = Content(server)
  <2>1. /\ resume <= server.ver /\ server.ver \in Nat
        /\ \A i \in 1..Len(watch) :
              /\ resume <= watch[i].ver /\ watch[i].ver <= server.ver
              /\ watch[i].ver = server.ver => Content(watch[i]) = Content(server)
    BY Typed DEF Known, WatchKnown
  <2> QED  BY <1>3, <2>1
<1>6. \A i \in 1..Len(watch') : \A j \in i..Len(watch') : watch'[i].ver <= watch'[j].ver
  <2> SUFFICES ASSUME NEW i \in 1..Len(watch'), NEW j \in i..Len(watch')
               PROVE  watch'[i].ver <= watch'[j].ver
    OBVIOUS
  <2>1. CASE j = Len(watch')
    BY <1>2, <1>5, <2>1
  <2>2. CASE j # Len(watch')
    <3>1. i \in 1..Len(watch) /\ j \in i..Len(watch) /\ j \in 1..Len(watch)
      BY <1>2, <2>2, Typed
    <3> QED  BY <1>2, <3>1 DEF Known, WatchKnown
  <2> QED  BY <2>1, <2>2
<1>7. WatchKnown'
  BY <1>1, <1>2, <1>5, <1>6 DEF Known, WatchKnown
<1> QED
  BY <1>1, <1>4, <1>7 DEF Known, AcksKnown, CacheKnown

LEMMA KnownApplies ==
  ASSUME IInv, Known, ApplyRemoteEvent
  PROVE  Known'
<1>1. PICK d : d = Head(watch)
  OBVIOUS
<1>2. /\ watch # <<>> /\ d = watch[1] /\ 1 \in 1..Len(watch) /\ d \in DocType /\ d.ver \in Nat
      /\ remote' = AfterWatch(d, remote) /\ resume' = d.ver /\ watch' = Tail(watch)
      /\ UNCHANGED <<queue, server, clock, acks, sent>>
  BY <1>1, Typed DEF ApplyRemoteEvent
<1>3. /\ Len(watch') = Len(watch) - 1
      /\ \A i \in 1..Len(watch') : i + 1 \in 1..Len(watch) /\ watch'[i] = watch[i + 1]
  BY <1>2, Typed
<1>4. /\ resume <= d.ver /\ d.ver <= server.ver
      /\ d.ver = server.ver => Content(d) = Content(server)
      /\ \A j \in 1..Len(watch) : d.ver <= watch[j].ver
      /\ ~d.exists => d.places = {}
  BY <1>2 DEF Known, WatchKnown, ContentsOK
<1>5. \/ /\ remote'.ver = d.ver /\ ~remote'.pending /\ remote'.places = d.places
         /\ remote'.kind = IF d.exists THEN "doc" ELSE "nodoc"
      \/ /\ remote' = remote /\ d.ver <= remote.ver
         /\ remote.pending => d.ver < remote.ver
  BY <1>2, Typed DEF AfterWatch, IsNews, Cached
<1>6. ContentsOK'
  <2>1. remote'.kind # "doc" => remote'.places = {}
    BY <1>4, <1>5 DEF Known, ContentsOK
  <2> QED  BY <1>2, <1>3, <2>1 DEF Known, ContentsOK
<1>7. CacheKnown'
  <2>1. CASE remote' = remote
    BY <1>2, <2>1 DEF Known, CacheKnown
  <2>2. CASE /\ remote'.ver = d.ver /\ ~remote'.pending /\ remote'.places = d.places
             /\ remote'.kind = IF d.exists THEN "doc" ELSE "nodoc"
    <3>1. CacheContent(remote') = Content(d)
      BY <1>2, <2>2 DEF CacheContent, Content, DocType
    <3> QED  BY <1>2, <1>4, <2>2, <3>1 DEF CacheKnown
  <2> QED  BY <1>5, <2>1, <2>2
<1>8. WatchKnown'
  <2>1. \A i \in 1..Len(watch') :
           /\ d.ver <= watch'[i].ver /\ watch'[i].ver <= server.ver
           /\ watch'[i].ver = server.ver => Content(watch'[i]) = Content(server)
    BY <1>3, <1>4 DEF Known, WatchKnown
  <2>2. \A i \in 1..Len(watch') : \A j \in i..Len(watch') : watch'[i].ver <= watch'[j].ver
    <3> SUFFICES ASSUME NEW i \in 1..Len(watch'), NEW j \in i..Len(watch')
                 PROVE  watch'[i].ver <= watch'[j].ver
      OBVIOUS
    <3>1. j \in 1..Len(watch') /\ i + 1 \in 1..Len(watch) /\ j + 1 \in (i + 1)..Len(watch)
      BY <1>3, Typed
    <3> QED  BY <1>3, <3>1 DEF Known, WatchKnown
  <2>3. IF watch' = <<>> THEN sent <= d.ver ELSE sent = watch'[Len(watch')].ver
    <3>1. sent = watch[Len(watch)].ver
      BY <1>2 DEF Known, WatchKnown
    <3>2. CASE watch' = <<>>
      <4>1. Len(watch) = 1
        BY <1>3, <3>2, Typed
      <4> QED  BY <1>2, <3>1, <3>2, <4>1
    <3>3. CASE watch' # <<>>
      <4>1. watch'[Len(watch')] = watch[Len(watch)]
        BY <1>2, <1>3, <3>3, Typed
      <4> QED  BY <3>1, <3>3, <4>1
    <3> QED  BY <3>2, <3>3
  <2>4. d.ver <= remote'.ver /\ (remote'.pending => d.ver < remote'.ver)
    BY <1>2, <1>5
  <2> QED  BY <1>2, <1>4, <2>1, <2>2, <2>3, <2>4 DEF WatchKnown
<1> QED
  BY <1>2, <1>6, <1>7, <1>8 DEF Known, AcksKnown

LEMMA KnownBreaks ==
  ASSUME IInv, Known, BreakWrites \/ BreakWatch
  PROVE  Known'
<1>1. CASE BreakWrites
  <2>1. /\ acks' = <<>>
        /\ UNCHANGED <<queue, remote, server, clock, watch, sent, resume>>
    BY <1>1 DEF BreakWrites
  <2> QED
    BY <2>1 DEF Known, ContentsOK, AcksKnown, CacheKnown, WatchKnown
<1>2. CASE BreakWatch
  <2>1. /\ watch' = <<>> /\ sent' \in 0..resume
        /\ UNCHANGED <<queue, remote, server, clock, acks, resume>>
    BY <1>2 DEF BreakWatch
  <2> QED
    BY <2>1, Typed DEF Known, ContentsOK, AcksKnown, CacheKnown, WatchKnown
<1> QED  BY <1>1, <1>2

LEMMA KnownStep == IInv /\ Known /\ [Next]_vars => Known'
<1> SUFFICES ASSUME IInv, Known, [Next]_vars PROVE Known'
  OBVIOUS
<1>1. CASE UNCHANGED vars
  BY <1>1 DEF vars, Known, ContentsOK, AcksKnown, CacheKnown, WatchKnown
<1> QED
  BY <1>1, KnownWrite, KnownDecides, KnownAcknowledge, KnownReject, KnownOthers,
     KnownSends, KnownApplies, KnownBreaks DEF Next

\* LocalDocumentsView over no mutation shows the cached document.
LEMMA ShownAlone ==
  ASSUME NEW r
  PROVE  LocalView(r, <<>>) = CacheContent(r)
<1>1. DOMAIN <<>> = {}
  OBVIOUS
<1>2. SUBSET {} = {{}}
  OBVIOUS
<1> QED
  BY <1>1, <1>2 DEF LocalView, FoldLeft, MapThenFoldSet

LEMMA KnownCaughtUp == IInv /\ Known => CaughtUp
<1> SUFFICES ASSUME IInv, Known, queue = <<>>, watch = <<>>, sent = server.ver
             PROVE  Shown = Content(server)
  BY DEF CaughtUp
<1>1. Shown = CacheContent(remote)
  BY ShownAlone DEF Shown
<1>2. resume = server.ver /\ server.ver <= remote.ver
  BY Typed DEF Known, WatchKnown
<1>3. CASE remote.ver = server.ver
  <2>1. ~remote.pending
    BY <1>2, <1>3, Typed DEF Known, WatchKnown
  <2> QED  BY <1>1, <1>3, <2>1 DEF Known, CacheKnown
<1>4. CASE remote.ver # server.ver
  <2>1. remote.kind # "doc" /\ ~server.exists
    BY <1>2, <1>4, Typed DEF Known, CacheKnown
  <2>2. remote.places = {} /\ server.places = {}
    BY <2>1 DEF Known, ContentsOK
  <2>3. server.exists = FALSE
    BY <2>1, Typed DEF DocType
  <2> QED  BY <1>1, <2>1, <2>2, <2>3 DEF CacheContent, Content
<1> QED  BY <1>3, <1>4

\* Once the queue is empty and the watch stream has brought all it had to, the
\* app sees what the backend has: whatever the client had guessed of its own
\* writes, in whatever order replies and documents came, and whatever breaks
\* there were.
THEOREM InTheEndCaughtUp == Spec => []CaughtUp
<1>1. Init => IInv /\ Known
  BY InitIInv, KnownInit
<1>2. IInv /\ Known /\ [Next]_vars => IInv' /\ Known'
  BY NextIInv, KnownStep
<1>3. IInv /\ Known => CaughtUp
  BY KnownCaughtUp
<1> QED  BY <1>1, <1>2, <1>3, PTL DEF Spec
-----------------------------------------------------------------------------
(* AckDoesNotFlicker.  FoldLeft is a recursive function of the sets of        *)
(* positions; that there is such a function, and what it is at 1..n, follows  *)
(* from the least position for which it would not.                            *)

LEMMA LeastOf ==
  ASSUME NEW T \in SUBSET Nat, T # {}
  PROVE  \E n \in T : \A k \in T : n <= k
<1>1. PICK n \in T : \A k \in T : ~(<<k, n>> \in OpToRel(<, Nat))
  BY NatLessThanWellFounded, WFMin
<1>2. \A k \in T : ~(k < n)
  BY <1>1 DEF OpToRel
<1> QED  BY <1>2

LEMMA MaxIsLast ==
  ASSUME NEW n \in Nat, NEW s \in SUBSET (1..(n + 1)), n + 1 \in s
  PROVE  Max(s) = n + 1
<1> DEFINE Top(x) == x \in s /\ \A y \in s : x >= y
<1>1. Top(n + 1)
  OBVIOUS
<1>2. \A x : Top(x) => x = n + 1
  OBVIOUS
<1>3. Max(s) = CHOOSE x : Top(x)
  BY DEF Max
<1> QED
  <2> HIDE DEF Top
  <2> QED  BY <1>1, <1>2, <1>3

\* The recursive function that MapThenFoldSet stands for, when its operator is
\* given as a function f of a set X.
IsFold(G, b, f, n) ==
    G = [s \in SUBSET (1..n) |->
            IF s = {} THEN b ELSE f[<<G[s \ {Max(s)}], Max(s)>>]]

LEMMA FoldExists ==
  ASSUME NEW X, NEW b \in X, NEW n \in Nat, NEW f \in [X \X (1..n) -> X]
  PROVE  \E G \in [SUBSET (1..n) -> X] : IsFold(G, b, f, n)
<1> DEFINE Good(k) == \E G \in [SUBSET (1..k) -> X] : IsFold(G, b, f, k)
           bad == {k \in 0..n : ~Good(k)}
<1> SUFFICES ASSUME bad # {} PROVE FALSE
  <2>1. (bad = {}) => Good(n)
    <3> HIDE DEF Good
    <3> QED  OBVIOUS
  <2>2. Good(n) => \E G \in [SUBSET (1..n) -> X] : IsFold(G, b, f, n)
    OBVIOUS
  <2> HIDE DEF bad, Good
  <2> QED  BY <2>1, <2>2
<1>1. PICK k \in bad : \A j \in bad : k <= j
  <2>1. bad \in SUBSET Nat
    OBVIOUS
  <2> HIDE DEF bad
  <2> QED  BY <2>1, LeastOf
<1>2. CASE k = 0
  <2>1. SUBSET (1..0) = {{}}
    OBVIOUS
  <2> DEFINE G == [s \in SUBSET (1..0) |-> b]
  <2>2. G \in [SUBSET (1..0) -> X]
    OBVIOUS
  <2>3. IsFold(G, b, f, 0)
    BY <2>1 DEF IsFold
  <2> QED  BY <1>1, <1>2, <2>2, <2>3
<1>3. CASE k # 0
  <2>1. k - 1 \in 0..n /\ k - 1 \in Nat /\ k \in 1..n
    BY <1>3
  <2>2. PICK G \in [SUBSET (1..(k - 1)) -> X] : IsFold(G, b, f, k - 1)
    <3>1. Good(k - 1)
      <4> HIDE DEF Good
      <4> QED  BY <1>1, <2>1
    <3> QED  BY <3>1
  <2> DEFINE H == [s \in SUBSET (1..k) |->
                      IF k \in s THEN f[<<G[s \ {k}], k>>] ELSE G[s]]
  <2>3. \A s \in SUBSET (1..k) : /\ s \ {k} \in SUBSET (1..(k - 1))
                                 /\ k \notin s => s \in SUBSET (1..(k - 1))
    BY <2>1
  <2>4. H \in [SUBSET (1..k) -> X]
    BY <2>1, <2>2, <2>3
  <2>5. \A s \in SUBSET (1..(k - 1)) : H[s] = G[s]
    BY <2>1
  <2>6. ASSUME NEW s \in SUBSET (1..k)
        PROVE  H[s] = IF s = {} THEN b ELSE f[<<H[s \ {Max(s)}], Max(s)>>]
    <3>1. CASE k \in s
      <4>1. Max(s) = k
        BY <2>1, <3>1, MaxIsLast
      <4>2. H[s \ {k}] = G[s \ {k}]
        BY <2>3, <2>5
      <4> QED  BY <3>1, <4>1, <4>2
    <3>2. CASE k \notin s
      <4>1. s \in SUBSET (1..(k - 1)) /\ H[s] = G[s]
        BY <2>3, <3>2
      <4>2. G[s] = IF s = {} THEN b ELSE f[<<G[s \ {Max(s)}], Max(s)>>]
        BY <2>2, <4>1 DEF IsFold
      <4>3. s \ {Max(s)} \in SUBSET (1..(k - 1))
        BY <4>1
      <4>4. H[s \ {Max(s)}] = G[s \ {Max(s)}]
        BY <2>5, <4>3
      <4> QED  BY <4>1, <4>2, <4>4
    <3> QED  BY <3>1, <3>2
  <2>7. IsFold(H, b, f, k)
    <3> HIDE DEF H
    <3> QED  BY <2>4, <2>6 DEF IsFold
  <2> QED  BY <1>1, <2>4, <2>7
<1> QED  BY <1>2, <1>3
LEMMA MaxIsIn ==
  ASSUME NEW n \in Nat, NEW s \in SUBSET (1..n), s # {}
  PROVE  Max(s) \in s
<1> DEFINE T == {n - x : x \in s}
<1>1. PICK t \in T : \A u \in T : t <= u
  <2>1. \A x \in s : n - x \in Nat
    OBVIOUS
  <2>2. T \in SUBSET Nat
    BY <2>1
  <2>3. PICK x : x \in s
    OBVIOUS
  <2>4. n - x \in T
    BY <2>3
  <2> HIDE DEF T
  <2> QED  BY <2>2, <2>4, LeastOf
<1>2. PICK x \in s : t = n - x
  OBVIOUS
<1>3. \A y \in s : x >= y
  <2> SUFFICES ASSUME NEW y \in s PROVE x >= y
    OBVIOUS
  <2>1. t <= n - y
    BY <1>1
  <2> QED  BY <1>2, <2>1
<1> QED  BY <1>2, <1>3 DEF Max

Contents == [exists : BOOLEAN, places : SUBSET Places]

LEMMA AppliesToContents ==
  ASSUME NEW c \in Contents, NEW m \in Mutations
  PROVE  ApplyToLocalView(c, m) \in Contents
<1>1. c.exists \in BOOLEAN /\ c.places \in SUBSET Places
  BY DEF Contents
<1>2. CASE m.op \in {"set", "delete"}
  BY <1>2 DEF ApplyToLocalView, IsValidFor, Outcome, Missing, Contents
<1>3. CASE m.op = "union" /\ m.e \in Places
  BY <1>1, <1>3 DEF ApplyToLocalView, IsValidFor, Outcome, Contents
<1>4. CASE m.op = "remove" /\ m.e \in Places
  BY <1>1, <1>4 DEF ApplyToLocalView, IsValidFor, Outcome, Contents
<1> QED  BY <1>2, <1>3, <1>4 DEF Mutations

\* What LocalDocumentsView shows is reached one mutation at a time.
LEMMA ViewOf ==
  ASSUME NEW r, CacheContent(r) \in Contents, NEW q \in Seq(Mutations)
  PROVE  \E d \in [0..Len(q) -> Contents] :
            /\ d[0] = CacheContent(r)
            /\ \A i \in 1..Len(q) : d[i] = ApplyToLocalView(d[i - 1], q[i])
            /\ LocalView(r, q) = d[Len(q)]
<1> DEFINE n == Len(q)
           b == CacheContent(r)
           f == [p \in Contents \X (1..n) |-> ApplyToLocalView(p[1], q[p[2]])]
           Eq(G) == G = [s \in SUBSET DOMAIN q |->
                           IF s = {} THEN b
                           ELSE ApplyToLocalView(G[s \ {Max(s)}], q[Max(s)])]
           Fold == CHOOSE G : Eq(G)
<1>1. n \in Nat /\ DOMAIN q = 1..n /\ \A i \in 1..n : q[i] \in Mutations
  OBVIOUS
<1>2. f \in [Contents \X (1..n) -> Contents]
  BY <1>1, AppliesToContents
<1>3. PICK F \in [SUBSET (1..n) -> Contents] : IsFold(F, b, f, n)
  <2> HIDE DEF f, b, n
  <2> QED  BY <1>1, <1>2, FoldExists DEF b
<1>4. Eq(F)
  <2>1. ASSUME NEW s \in SUBSET (1..n), s # {}
        PROVE  f[<<F[s \ {Max(s)}], Max(s)>>] = ApplyToLocalView(F[s \ {Max(s)}], q[Max(s)])
    <3>1. Max(s) \in 1..n
      BY <1>1, <2>1, MaxIsIn
    <3>2. F[s \ {Max(s)}] \in Contents
      BY <1>3
    <3> QED  BY <3>1, <3>2
  <2> HIDE DEF f, b, n
  <2> QED  BY <1>1, <1>3, <2>1 DEF IsFold
<1>5. Eq(Fold)
  <2> HIDE DEF Eq
  <2> QED  BY <1>4
<1>6. LocalView(r, q) = Fold[1..n]
  <2>1. LocalView(r, q) = Fold[DOMAIN q]
    BY DEF LocalView, FoldLeft, MapThenFoldSet
  <2> HIDE DEF Fold, n
  <2> QED  BY <1>1, <2>1
<1> DEFINE d == [i \in 0..n |-> Fold[1..i]]
<1>7. d[0] = b
  <2>1. d[0] = Fold[{}]
    <3>1. 1..0 = {}
      OBVIOUS
    <3> HIDE DEF Fold
    <3> QED  BY <1>1, <3>1
  <2> HIDE DEF Fold, d, b
  <2> QED  BY <1>5, <2>1
<1>8. \A i \in 1..n : d[i] = ApplyToLocalView(d[i - 1], q[i])
  <2> SUFFICES ASSUME NEW i \in 1..n PROVE d[i] = ApplyToLocalView(d[i - 1], q[i])
    OBVIOUS
  <2>1. 1..i \in SUBSET (1..n) /\ 1..i # {} /\ (1..i) \ {i} = 1..(i - 1)
    BY <1>1
  <2>2. Max(1..i) = i
    <3>1. i - 1 \in Nat /\ i = (i - 1) + 1 /\ 1..i \in SUBSET (1..((i - 1) + 1))
      BY <1>1
    <3>2. (i - 1) + 1 \in 1..i
      BY <1>1
    <3> QED  BY <3>1, <3>2, MaxIsLast
  <2>3. Fold[1..i] = ApplyToLocalView(Fold[1..(i - 1)], q[i])
    <3> HIDE DEF Fold, b, n
    <3> QED  BY <1>1, <1>5, <2>1, <2>2
  <2>4. d[i] = Fold[1..i] /\ d[i - 1] = Fold[1..(i - 1)]
    <3> HIDE DEF Fold
    <3> QED  BY <1>1
  <2> HIDE DEF Fold, d
  <2> QED  BY <2>3, <2>4
<1>9. d \in [0..n -> Contents]
  <2> DEFINE bad == {i \in 0..n : d[i] \notin Contents}
  <2>1. CASE bad = {}
    <3> HIDE DEF Fold
    <3> QED  BY <2>1
  <2>2. CASE bad # {}
    <3>1. bad \in SUBSET Nat
      BY <1>1
    <3>2. PICK k \in bad : \A j \in bad : k <= j
      <4> HIDE DEF bad
      <4> QED  BY <2>2, <3>1, LeastOf
    <3>3. k \in 0..n /\ k # 0 /\ d[k] \notin Contents
      <4> HIDE DEF d
      <4> QED  BY <1>7
    <3>4. k - 1 \in 0..n /\ k \in 1..n /\ k - 1 < k
      BY <1>1, <3>3
    <3>5. d[k - 1] \in Contents
      <4> HIDE DEF d
      <4> QED  BY <3>2, <3>4
    <3>6. d[k] = ApplyToLocalView(d[k - 1], q[k])
      <4> HIDE DEF d
      <4> QED  BY <1>8, <3>4
    <3>7. d[k] \in Contents
      <4> HIDE DEF d
      <4> QED  BY <1>1, <3>4, <3>5, <3>6, AppliesToContents
    <3> QED  BY <3>3, <3>7
  <2> QED  BY <2>1, <2>2
<1>10. LocalView(r, q) = d[n]
  <2>1. n \in 0..n
    BY <1>1
  <2> HIDE DEF Fold
  <2> QED  BY <1>6, <2>1
<1> QED
  <2> HIDE DEF d, b
  <2>1. /\ d \in [0..Len(q) -> Contents] /\ d[0] = CacheContent(r)
        /\ \A i \in 1..Len(q) : d[i] = ApplyToLocalView(d[i - 1], q[i])
        /\ LocalView(r, q) = d[Len(q)]
    BY <1>7, <1>8, <1>9, <1>10 DEF b
  <2> QED  BY <2>1

\* The first mutation may as well be applied to the cache.
LEMMA SameView ==
  ASSUME NEW r, NEW r2, NEW q \in Seq(Mutations), q # <<>>,
         CacheContent(r) \in Contents, CacheContent(r2) \in Contents,
         CacheContent(r2) = ApplyToLocalView(CacheContent(r), Head(q))
  PROVE  LocalView(r2, Tail(q)) = LocalView(r, q)
<1> DEFINE n == Len(q)
<1>1. /\ n \in Nat /\ n >= 1 /\ Head(q) = q[1]
      /\ Tail(q) \in Seq(Mutations) /\ Len(Tail(q)) = n - 1
      /\ \A i \in 1..(n - 1) : Tail(q)[i] = q[i + 1]
  BY HeadTailProperties
<1>2. PICK d \in [0..n -> Contents] :
            /\ d[0] = CacheContent(r)
            /\ \A i \in 1..n : d[i] = ApplyToLocalView(d[i - 1], q[i])
            /\ LocalView(r, q) = d[n]
  BY ViewOf
<1>3. PICK e \in [0..(n - 1) -> Contents] :
            /\ e[0] = CacheContent(r2)
            /\ \A i \in 1..(n - 1) : e[i] = ApplyToLocalView(e[i - 1], Tail(q)[i])
            /\ LocalView(r2, Tail(q)) = e[n - 1]
  <2> HIDE DEF n
  <2> QED  BY <1>1, ViewOf
<1> HIDE DEF n
<1> DEFINE bad == {i \in 0..(n - 1) : e[i] # d[i + 1]}
<1>4. CASE bad = {}
  <2>1. n - 1 \in 0..(n - 1) /\ (n - 1) + 1 = n
    BY <1>1
  <2> QED  BY <1>2, <1>3, <1>4, <2>1
<1>5. CASE bad # {}
  <2>1. bad \in SUBSET Nat
    BY <1>1
  <2>2. PICK k \in bad : \A j \in bad : k <= j
    <3> HIDE DEF bad
    <3> QED  BY <1>5, <2>1, LeastOf
  <2>3. e[0] = d[1]
    <3>1. 1 \in 1..n /\ 1 - 1 = 0
      BY <1>1
    <3> QED  BY <1>1, <1>2, <1>3, <3>1
  <2>4. k \in 1..(n - 1) /\ e[k] # d[k + 1]
    BY <2>2, <2>3, <1>1
  <2>5. k - 1 \in 0..(n - 1) /\ k - 1 < k /\ k + 1 \in 1..n /\ (k + 1) - 1 = k /\ (k - 1) + 1 = k
    BY <1>1, <2>4
  <2>6. e[k - 1] = d[k]
    BY <2>2, <2>5
  <2>7. e[k] = ApplyToLocalView(e[k - 1], q[k + 1])
    BY <1>1, <1>3, <2>4
  <2>8. d[k + 1] = ApplyToLocalView(d[k], q[k + 1])
    BY <1>2, <2>5
  <2> QED  BY <2>4, <2>6, <2>7, <2>8
<1> QED  BY <1>4, <1>5
\* What an acknowledgement writes to the cache is what the view made of it.
LEMMA AckAppliesToCache ==
  ASSUME NEW m \in Mutations, NEW r \in CacheType, NEW ver \in Nat,
         r.kind # "doc" => r.places = {},
         r.kind = "absent" \/ r.ver < ver
  PROVE  CacheContent(AfterAck(m, r, ver)) = ApplyToLocalView(CacheContent(r), m)
<1>1. AfterAck(m, r, ver) = ApplyToRemoteDocument(m, r, ver)
  BY DEF AfterAck
<1>2. CASE ~IsValidFor(m, r.kind = "doc")
  <2>1. AfterAck(m, r, ver) = Cached("unknown", Missing, ver, TRUE)
    BY <1>1, <1>2 DEF ApplyToRemoteDocument
  <2>2. r.kind # "doc" /\ r.places = {}
    BY <1>2 DEF IsValidFor
  <2>3. ApplyToLocalView(CacheContent(r), m) = CacheContent(r)
    BY <1>2 DEF ApplyToLocalView, CacheContent
  <2> QED  BY <2>1, <2>2, <2>3 DEF CacheContent, Cached, Missing
<1>3. CASE IsValidFor(m, r.kind = "doc")
  <2> DEFINE c == Outcome(m, CacheContent(r))
  <2>1. AfterAck(m, r, ver) = Cached(IF c.exists THEN "doc" ELSE "nodoc", c, ver, TRUE)
    BY <1>1, <1>3 DEF ApplyToRemoteDocument
  <2>2. CacheContent(r) \in Contents
    BY DEF CacheContent, Contents, CacheType
  <2>3. ApplyToLocalView(CacheContent(r), m) = c
    BY <1>3 DEF ApplyToLocalView, CacheContent
  <2>4. c \in Contents
    BY <2>2, <2>3, AppliesToContents
  <2>5. c = [exists |-> c.exists, places |-> c.places] /\ c.exists \in BOOLEAN
    <3> HIDE DEF c
    <3> QED  BY <2>4 DEF Contents
  <2>6. CacheContent(AfterAck(m, r, ver)) = [exists |-> c.exists, places |-> c.places]
    <3> HIDE DEF c
    <3> QED  BY <2>1, <2>5 DEF CacheContent, Cached
  <2> QED  BY <2>3, <2>5, <2>6
<1> QED  BY <1>2, <1>3

LEMMA AckKeepsView ==
  ASSUME IInv, IInv', Known, AcknowledgeBatch,
         remote.kind = "absent" \/ remote.ver < Head(acks)
  PROVE  Shown' = Shown
<1>1. /\ queue \in Seq(Mutations) /\ queue # <<>> /\ Head(queue) \in Mutations
      /\ Head(acks) \in Nat
  <2>1. acks # <<>> /\ Len(acks) <= Len(queue) /\ queue \in Seq(Mutations) /\ acks \in Seq(Nat)
    BY Typed DEF AcknowledgeBatch, IInv
  <2>2. queue # <<>>
    BY <2>1
  <2> QED  BY <2>1, <2>2
<1>2. remote \in CacheType /\ (remote.kind # "doc" => remote.places = {})
  BY Typed DEF Known, ContentsOK
<1>3. /\ remote' = AfterAck(Head(queue), remote, Head(acks))
      /\ queue' = Tail(queue)
  BY DEF AcknowledgeBatch
<1>4. remote' \in CacheType
  BY DEF IInv, TypeOK
<1>5. CacheContent(remote) \in Contents /\ CacheContent(remote') \in Contents
  BY <1>2, <1>4 DEF CacheContent, Contents, CacheType
<1>6. CacheContent(remote') = ApplyToLocalView(CacheContent(remote), Head(queue))
  BY <1>1, <1>2, <1>3, AckAppliesToCache
<1>7. LocalView(remote', Tail(queue)) = LocalView(remote, queue)
  BY <1>1, <1>5, <1>6, SameView
<1> QED  BY <1>3, <1>7 DEF Shown

\* When a write is acknowledged and leaves the queue, the app goes on seeing
\* what it saw: the client has put into the cache what it showed over it.
THEOREM AcksDoNotFlicker == Spec => AckDoesNotFlicker
<1>1. IInv /\ IInv' /\ Known /\ [Next]_vars
        => [AcknowledgeBatch /\ (remote.kind = "absent" \/ remote.ver < Head(acks))
              => Shown' = Shown]_vars
  BY AckKeepsView
<1>2. Init => IInv /\ Known
  BY InitIInv, KnownInit
<1>3. IInv /\ Known /\ [Next]_vars => IInv' /\ Known'
  BY NextIInv, KnownStep
<1> QED  BY <1>1, <1>2, <1>3, PTL DEF Spec, AckDoesNotFlicker
============================================================================
