----------------------- MODULE FirestoreWritesProofs -----------------------
(* Proofs about FirestoreWrites, for any users, any pipeline and any number  *)
(* of writes and faults: its invariants, and that it implements WriteLog.    *)
EXTENDS FirestoreWrites, FiniteSetTheorems, SequenceTheorems, NaturalsInduction,
        WellFoundedInduction, TLAPS

\* The handshake of the call that is open is done.
Shaken(n) == IsOpen(n.stream) /\ n.handshake

\* The pipeline is the front of the queue q.
PipeIsFront(n, q) ==
    /\ Len(n.pipe) <= Len(q)
    /\ \A i \in 1..Len(n.pipe) : n.pipe[i] = q[i]

\* No assertion of the stream fails, now or at its next step: a timer runs
\* only in the state it is for, and there is a write for whom the stream
\* starts.
StreamOK(n) ==
    /\ n.stream.ok
    /\ n.stream.backoff => n.stream.state = "Backoff"
    /\ n.stream.idle => IsOpen(n.stream) /\ n.pipe = <<>>
    /\ n.stream.asked \subseteq 0..n.stream.count
    /\ n.stream.count \in n.stream.asked => n.stream.state = "Starting"
    /\ IsStarted(n.stream) /\ ~Shaken(n) => n.pipe # <<>>
    /\ ~n.enabled => n.pipe = <<>> /\ ~IsStarted(n.stream)

\* Replies and messages not yet read, in that order, are those of the pipeline
\* p, one for one; after a refusal those between the two are gone.
Matches(replies, wire, p, refusal) ==
    /\ ~refusal => Len(replies) + Len(wire) = Len(p)
    /\ refusal => Len(replies) + Len(wire) < Len(p)
    /\ \A i \in 1..Len(replies) : replies[i] = p[i].w
    /\ \A i \in 1..Len(wire) : wire[i] = p[Len(p) - Len(wire) + i].w

\* What is on the call belongs, message by message, to the pipeline.
CallOK(n) ==
    /\ ~IsOpen(n.stream) => n.wire = <<>> /\ n.replies = <<>>
    /\ IsOpen(n.stream) /\ ~n.handshake =>
          \/ n.wire = <<Handshake>> /\ n.replies = <<>>
          \/ n.wire = <<>> /\ n.replies = <<Handshake>>
    /\ n.refusal => Shaken(n)
    /\ Shaken(n) => Matches(n.replies, n.wire, n.pipe, n.refusal)

NetOK(n, q) == n \in NetType /\ PipeIsFront(n, q) /\ StreamOK(n) /\ CallOK(n)

\* What the backend has said of the pipeline is true.
AnswersOf(n, c, r) ==
    Shaken(n) =>
        /\ \A i \in 1..Len(n.replies) : n.pipe[i].w \in c
        /\ n.refusal => n.pipe[Len(n.replies) + 1].w \in r

AnswersOK == AnswersOf(net, committed, refused)

\* A write of the queue is refused, and those before it are committed.
RefusedIn(q, c, r) ==
    \E i \in 1..Len(q) : q[i].w \in r /\ \A j \in 1..(i - 1) : q[j].w \in c

MailType == [kind : {"user", "token"}, user : Users \union {NoUser}, count : Nat]

\* One token at most is for the start under way, and none unless there is one.
TokensOK(s, m) ==
    /\ \A i \in 1..Len(m) : m[i].kind = "token" =>
          /\ m[i].count <= s.count
          /\ m[i].count = s.count => s.state = "Starting" /\ s.count \notin s.asked
    /\ \A i, j \in 1..Len(m) :
          /\ m[i].kind = "token" /\ m[i].count = s.count
          /\ m[j].kind = "token" /\ m[j].count = s.count
          => i = j

\* The user change that is in force before the i-th item of the mail.
InForce(m, j, i) ==
    /\ m[j].kind = "user"
    /\ \A k \in (j + 1)..(i - 1) : m[k].kind # "user"

\* The user who will be SyncEngine's when the items before the i-th are done.
UserBefore(m, u, i, v) ==
    /\ (\A k \in 1..(i - 1) : m[k].kind # "user") => v = u
    /\ \A j \in 1..(i - 1) : InForce(m, j, i) => v = m[j].user

\* A token is of the user who will be SyncEngine's when it is read.
MailOK(m, u, a) ==
    /\ UserBefore(m, u, Len(m) + 1, a)
    /\ \A i \in 1..Len(m) :
          m[i].kind = "token" /\ Came(m[i]) => UserBefore(m, u, i, m[i].user)

\* A credential change is to a user.
UsersOK(m) == \A i \in 1..Len(m) : m[i].kind = "user" => m[i].user \in Users

SpeaksForUser == IsOpen(net.stream) => net.as = user

\* A queue is in the order of its ids.
InOrder(q) ==
    /\ \A i \in 1..Len(q) : q[i].id > 0
    /\ \A i, j \in 1..Len(q) : i < j => q[i].id < q[j].id

\* Batches are numbered upwards, and each write is in one batch.
QueuesOK ==
    /\ nextId \in Nat \ {0}
    /\ \A u \in Users : InOrder(queue[u])
    /\ \A u \in Users : \A i \in 1..Len(queue[u]) :
          queue[u][i].id < nextId /\ queue[u][i].w <= issued
    /\ \A u, v \in Users : \A i \in 1..Len(queue[u]), j \in 1..Len(queue[v]) :
          queue[u][i].w = queue[v][j].w => u = v /\ i = j

\* Who waits for the outcome of a batch waits for one in the queue.
CallbacksOK ==
    \A u \in Users : \A b \in callbacks[u] : \E i \in 1..Len(queue[u]) : queue[u][i] = b

\* Nothing of a write before it is made.
IssuedOK ==
    /\ committed \subseteq 1..issued /\ refused \subseteq 1..issued
    /\ \A k \in WaitNames : awaited[k] \subseteq 1..issued

\* A call that still waits waits for a batch of the queue, behind which none
\* of its writes is left; and it has not been answered.
WaitersOK ==
    /\ \A x \in waiters :
          /\ x.k \in 1..waits
          /\ \A a \in heard : a[1] # x.k
          /\ \E i \in 1..Len(queue[user]) :
                /\ queue[user][i].id = x.id
                /\ \A u \in Users : \A j \in 1..Len(queue[u]) :
                      queue[u][j].w \in awaited[x.k] => u = user /\ j <= i
    /\ \A x, y \in waiters : x.k = y.k => x = y

HeardOK ==
    /\ \A a \in heard : a[1] \in 1..waits
    /\ \A a, b \in heard : a[1] = b[1] => a = b
    /\ \A k \in WaitNames : <<k, "ok">> \in heard =>
          \A u \in Users : \A j \in 1..Len(queue[u]) : queue[u][j].w \notin awaited[k]

LocalInv == QueuesOK /\ CallbacksOK /\ IssuedOK /\ WaitersOK /\ HeardOK

MailInv == TokensOK(net.stream, mail) /\ MailOK(mail, user, authUser) /\ UsersOK(mail)

IInv ==
    /\ TypeOK
    /\ NetOK(net, queue[user]) /\ (net.handshake => IsOpen(net.stream))
    /\ AnswersOK /\ SpeaksForUser
    /\ MailInv
    /\ LocalInv

-----------------------------------------------------------------------------
(* The stream.                                                             *)

\* No operation but the reading of a token keeps a token in time that comes
\* when it is no longer, or not yet, asked for.
Calm(s, t) ==
    \/ t.count > s.count
    \/ /\ t.count = s.count
       /\ s.state = "Starting" => t.state = "Starting" /\ t.asked = s.asked

LEMMA CalmReflexive ==
  ASSUME NEW s \in StreamType
  PROVE  Calm(s, s)
BY DEF Calm

LEMMA CalmTransitive ==
  ASSUME NEW s \in StreamType, NEW t \in StreamType, NEW r \in StreamType,
         Calm(s, t), Calm(t, r)
  PROVE  Calm(s, r)
BY DEF Calm, StreamType

LEMMA CalmKeepsTokens ==
  ASSUME NEW s \in StreamType, NEW t \in StreamType, Calm(s, t),
         NEW m \in Seq(MailType),
         TokensOK(s, m)
  PROVE  TokensOK(t, m)
<1>1. s.count \in Nat /\ t.count \in Nat
  BY DEF StreamType
<1>2. ASSUME NEW i \in 1..Len(m) PROVE m[i].count \in Nat
  <2>1. m[i] \in MailType
    BY ElementOfSeq
  <2> QED  BY <2>1 DEF MailType
<1>3. CASE t.count > s.count
  BY <1>1, <1>2, <1>3 DEF TokensOK
<1>4. CASE t.count = s.count /\ (s.state = "Starting" => t.state = "Starting" /\ t.asked = s.asked)
  BY <1>1, <1>2, <1>4 DEF TokensOK
<1> QED  BY <1>3, <1>4 DEF Calm

\* What the operations of a stream change.
LEMMA StartEffect ==
  ASSUME NEW s \in StreamType, ~IsStarted(s), s.ok, s.asked \subseteq 0..s.count,
         ~s.backoff
  PROVE  /\ Start(s) \in StreamType
         /\ Start(s).ok /\ Start(s).idle = s.idle /\ Start(s).count = s.count
         /\ Start(s).asked \subseteq 0..s.count
         /\ \/ Start(s).state = "Backoff" /\ Start(s).asked = s.asked
            \/ Start(s).state = "Starting" /\ ~Start(s).backoff
<1>1. CASE s.state = "Error"
  BY <1>1 DEF Start, StreamType
<1>2. CASE s.state = "Initial"
  <2>1. HardAssert(s, s.state = "Initial") = s
    BY <1>2 DEF HardAssert, StreamType
  <2>2. Start(s) = [s EXCEPT !.state = "Starting", !.asked = s.asked \union {s.count}]
    BY <1>2, <2>1 DEF Start, StartNow
  <2>3. s.asked \union {s.count} \subseteq 0..s.count /\ s.asked \union {s.count} \subseteq Nat
    BY DEF StreamType
  <2>4. Start(s) \in StreamType
    BY <2>2, <2>3 DEF StreamType
  <2>5. /\ Start(s).ok = s.ok /\ Start(s).idle = s.idle /\ Start(s).count = s.count
        /\ Start(s).asked = s.asked \union {s.count}
        /\ Start(s).state = "Starting" /\ Start(s).backoff = s.backoff
    BY <2>2 DEF StreamType
  <2> QED  BY <2>3, <2>4, <2>5
<1> QED  BY <1>1, <1>2 DEF IsStarted, StreamType

LEMMA CloseEffect ==
  ASSUME NEW s \in StreamType, IsStarted(s), s.ok, s.asked \subseteq 0..s.count,
         NEW graceful \in BOOLEAN
  PROVE  /\ Close(s, graceful) \in StreamType
         /\ Close(s, graceful).ok
         /\ ~Close(s, graceful).backoff /\ ~Close(s, graceful).idle
         /\ Close(s, graceful).count = s.count + 1
         /\ Close(s, graceful).asked = s.asked
         /\ Close(s, graceful).state = IF graceful THEN "Initial" ELSE "Error"
<1>1. HardAssert(s, IsStarted(s)) = s
  BY DEF HardAssert, StreamType
<1>2. Close(s, graceful) =
        [s EXCEPT !.state = IF graceful THEN "Initial" ELSE "Error",
                  !.backoff = FALSE, !.idle = FALSE, !.count = s.count + 1]
  BY <1>1 DEF Close
<1>3. s.count + 1 \in Nat
  BY DEF StreamType
<1> QED  BY <1>2, <1>3 DEF StreamType

LEMMA WriteEffect ==
  ASSUME NEW s \in StreamType, IsOpen(s)
  PROVE  /\ Write(s) \in StreamType
         /\ Write(s) = [s EXCEPT !.idle = FALSE]
<1>1. HardAssert(s, IsOpen(s)) = s
  BY DEF HardAssert, StreamType
<1> QED  BY <1>1 DEF Write, StreamType

LEMMA MarkIdleEffect ==
  ASSUME NEW s \in StreamType
  PROVE  /\ MarkIdle(s) \in StreamType
         /\ MarkIdle(s) = [s EXCEPT !.idle = s.idle \/ IsOpen(s)]
BY DEF MarkIdle, StreamType, IsOpen

-----------------------------------------------------------------------------
(* The queue and the pipeline.                                             *)

LEMMA SeekFinds ==
  ASSUME NEW q \in Seq(Batch), NEW k \in 0..Len(q), NEW id \in Nat,
         \A i \in 1..Len(q) : q[i].id <= id <=> i <= k
  PROVE  Seek(q, id) = k
<1>1. {i \in DOMAIN q : q[i].id <= id} = 1..k
  OBVIOUS
<1>2. Cardinality(1..k) = k
  BY FS_Interval
<1> QED  BY <1>1, <1>2 DEF Seek

LEMMA BatchOf ==
  ASSUME NEW q \in Seq(Batch), NEW i \in 1..Len(q)
  PROVE  q[i] \in Batch /\ q[i].id \in Nat /\ q[i].w \in WriteNames
<1>1. q[i] \in Batch
  BY ElementOfSeq
<1> QED  BY <1>1 DEF Batch

LEMMA WritesOfSeq ==
  ASSUME NEW q \in Seq(Batch)
  PROVE  /\ WritesOf(q) \in Seq(Messages)
         /\ Len(WritesOf(q)) = Len(q)
         /\ \A i \in 1..Len(q) : WritesOf(q)[i] = q[i].w
<1>1. DOMAIN q = 1..Len(q) /\ Len(q) \in Nat
  BY LenProperties
<1>2. \A i \in 1..Len(q) : q[i].w \in Messages
  BY BatchOf DEF Messages
<1> QED  BY <1>1, <1>2 DEF WritesOf

LEMMA SliceProperties ==
  ASSUME NEW S, NEW s \in Seq(S), NEW a \in Nat, NEW b \in Int, b <= Len(s)
  PROVE  /\ SubSeq(s, a + 1, b) \in Seq(S)
         /\ a <= Len(s) => a + Len(SubSeq(s, a + 1, b)) <= Len(s)
         /\ \A i \in 1..Len(SubSeq(s, a + 1, b)) : SubSeq(s, a + 1, b)[i] = s[a + i]
<1> DEFINE m == a + 1
           t == SubSeq(s, m, b)
<1>1. m \in Int /\ Len(s) \in Nat
  OBVIOUS
<1>2. \A i \in m..b : s[i] \in S
  BY <1>1, ElementOfSeq
<1> HIDE DEF m
<1>3. /\ t \in Seq(S)
      /\ Len(t) = IF m <= b THEN b - m + 1 ELSE 0
      /\ \A i \in 1..(b - m + 1) : t[i] = s[m + i - 1]
  BY <1>1, <1>2, SubSeqProperties
<1> HIDE DEF t
<1> USE DEF m
<1>4. a <= Len(s) => a + Len(t) <= Len(s)
  BY <1>1, <1>3
<1>5. ASSUME NEW i \in 1..Len(t) PROVE t[i] = s[a + i]
  <2>1. i \in 1..(b - m + 1) /\ m + i - 1 = a + i
    BY <1>1, <1>3
  <2> QED  BY <2>1, <1>3
<1> QED  BY <1>3, <1>4, <1>5 DEF t

\* A pipeline that is the front of its queue goes on with the batches that
\* stand behind it.
LEMMA TakenIsNext ==
  ASSUME NEW n \in NetType, NEW q \in Seq(Batch), InOrder(q), PipeIsFront(n, q)
  PROVE  /\ NextBatches(n, q) \in Seq(Batch)
         /\ Len(n.pipe) + Len(NextBatches(n, q)) <= Len(q)
         /\ \A i \in 1..Len(NextBatches(n, q)) : NextBatches(n, q)[i] = q[Len(n.pipe) + i]
         /\ ~n.enabled => NextBatches(n, q) = <<>>
<1> DEFINE last == IF n.pipe = <<>> THEN 0 ELSE Last(n.pipe).id
           room == MaxPending - Len(n.pipe)
           upto == IF Len(n.pipe) + room < Len(q) THEN Len(n.pipe) + room ELSE Len(q)
<1>1. n.pipe \in Seq(Batch) /\ Len(n.pipe) \in Nat /\ Len(q) \in Nat /\ Len(n.pipe) <= Len(q)
  BY LenProperties DEF NetType, PipeIsFront
<1>2. Seek(q, last) = Len(n.pipe)
  <2>1. CASE n.pipe = <<>>
    <3>1. \A i \in 1..Len(q) : q[i].id <= 0 <=> i <= 0
      BY BatchOf DEF InOrder
    <3> QED  BY <2>1, <3>1, <1>1, SeekFinds
  <2>2. CASE n.pipe # <<>>
    <3>1. Len(n.pipe) \in 1..Len(n.pipe) /\ Len(n.pipe) \in 1..Len(q)
      BY <2>2, <1>1, EmptySeq
    <3>2. last = q[Len(n.pipe)].id
      BY <2>2, <3>1 DEF Last, PipeIsFront
    <3>3. last \in Nat
      BY <3>1, <3>2, BatchOf
    <3>4. ASSUME NEW i \in 1..Len(q)
          PROVE  q[i].id <= last <=> i <= Len(n.pipe)
      <4>1. q[i].id \in Nat
        BY BatchOf
      <4> QED  BY <1>1, <3>1, <3>2, <3>3, <4>1 DEF InOrder
    <3>5. Len(n.pipe) \in 0..Len(q)
      BY <1>1
    <3> HIDE DEF last
    <3> QED  BY <3>3, <3>4, <3>5, SeekFinds
  <2> QED  BY <2>1, <2>2
<1>3. CASE ~n.enabled
  <2>1. NextBatches(n, q) = <<>>
    BY <1>3 DEF NextBatches
  <2> QED  BY <1>1, <2>1
<1>4. CASE n.enabled
  <2>1. NextBatches(n, q) = SubSeq(q, Len(n.pipe) + 1, upto)
    BY <1>2, <1>4 DEF NextBatches
  <2>2. MaxPending \in Nat /\ upto \in Int /\ upto <= Len(q)
    BY <1>1, WritesAssumption
  <2> HIDE DEF upto
  <2>3. /\ SubSeq(q, Len(n.pipe) + 1, upto) \in Seq(Batch)
        /\ Len(n.pipe) + Len(SubSeq(q, Len(n.pipe) + 1, upto)) <= Len(q)
        /\ \A i \in 1..Len(SubSeq(q, Len(n.pipe) + 1, upto)) :
              SubSeq(q, Len(n.pipe) + 1, upto)[i] = q[Len(n.pipe) + i]
    BY <1>1, <2>2, SliceProperties
  <2> QED  BY <1>4, <2>1, <2>3
<1> QED  BY <1>3, <1>4 DEF NetType

-----------------------------------------------------------------------------
(* Replies, messages and the pipeline.                                     *)

\* The pipeline and the stream grow by the same batches.
LEMMA MatchesMore ==
  ASSUME NEW r \in Seq(Messages), NEW w \in Seq(Messages), NEW p \in Seq(Batch),
         NEW t \in Seq(Batch), NEW f \in BOOLEAN, Matches(r, w, p, f)
  PROVE  Matches(r, w \o WritesOf(t), p \o t, f)
<1> DEFINE ws == WritesOf(t)
           v == w \o ws
           o == p \o t
<1>1. /\ Len(r) \in Nat /\ Len(w) \in Nat /\ Len(p) \in Nat /\ Len(t) \in Nat
  OBVIOUS
<1>2. /\ ws \in Seq(Messages) /\ Len(ws) = Len(t)
      /\ \A i \in 1..Len(t) : ws[i] = t[i].w
  BY WritesOfSeq
<1> HIDE DEF ws
<1>3. /\ Len(v) = Len(w) + Len(ws)
      /\ \A i \in 1..(Len(w) + Len(ws)) :
            v[i] = IF i <= Len(w) THEN w[i] ELSE ws[i - Len(w)]
  BY <1>2, ConcatProperties
<1>4. /\ Len(o) = Len(p) + Len(t)
      /\ \A i \in 1..(Len(p) + Len(t)) :
            o[i] = IF i <= Len(p) THEN p[i] ELSE t[i - Len(p)]
  BY ConcatProperties
<1> HIDE DEF v, o
<1>5. /\ ~f => Len(r) + Len(v) = Len(o)
      /\ f => Len(r) + Len(v) < Len(o)
  <2>1. /\ ~f => Len(r) + Len(w) = Len(p)
        /\ f => Len(r) + Len(w) < Len(p)
    BY DEF Matches
  <2>2. Len(v) = Len(w) + Len(t) /\ Len(o) = Len(p) + Len(t)
    BY <1>2, <1>3, <1>4
  <2> DEFINE nr == Len(r)
             nw == Len(w)
             np == Len(p)
             nt == Len(t)
  <2>3. nr \in Nat /\ nw \in Nat /\ np \in Nat /\ nt \in Nat
    OBVIOUS
  <2>4. (~f => nr + nw = np) /\ (f => nr + nw < np)
    BY <2>1
  <2> HIDE DEF nr, nw, np, nt
  <2>5. (~f => nr + (nw + nt) = np + nt) /\ (f => nr + (nw + nt) < np + nt)
    BY <2>3, <2>4
  <2> QED  BY <2>2, <2>5 DEF nr, nw, np, nt
<1>6. Len(r) <= Len(p) /\ Len(w) <= Len(p)
  BY <1>1 DEF Matches
<1>7. ASSUME NEW i \in 1..Len(r) PROVE r[i] = o[i].w
  BY <1>1, <1>4, <1>6, <1>7 DEF Matches
<1>8. ASSUME NEW i \in 1..Len(v) PROVE v[i] = o[Len(o) - Len(v) + i].w
  <2> DEFINE k == Len(o) - Len(v) + i
  <2>1. k = Len(p) - Len(w) + i /\ k \in 1..(Len(p) + Len(t)) /\ i \in 1..(Len(w) + Len(ws))
    BY <1>1, <1>2, <1>3, <1>4, <1>6
  <2>2. CASE i <= Len(w)
    <3>1. v[i] = w[i] /\ k <= Len(p) /\ i \in 1..Len(w)
      BY <1>1, <1>3, <2>1, <2>2
    <3>2. o[k] = p[Len(p) - Len(w) + i]
      BY <1>4, <2>1, <3>1
    <3> QED  BY <3>1, <3>2 DEF Matches
  <2>3. CASE i > Len(w)
    <3>1. k > Len(p) /\ k - Len(p) = i - Len(w) /\ i - Len(w) \in 1..Len(t)
      BY <1>1, <1>2, <2>1, <2>3
    <3> HIDE DEF k
    <3>2. v[i] = ws[i - Len(w)]
      BY <1>1, <1>3, <2>1, <2>3
    <3>3. o[k] = t[i - Len(w)]
      <4>1. ~(k <= Len(p))
        BY <1>1, <2>1, <3>1
      <4> QED  BY <1>4, <2>1, <3>1, <4>1
    <3> QED  BY <1>2, <3>1, <3>2, <3>3 DEF k
  <2> QED  BY <1>1, <2>2, <2>3
<1> QED  BY <1>5, <1>7, <1>8 DEF Matches, v, o, ws

\* The stream that is shaken carries the whole pipeline.
LEMMA MatchesAll ==
  ASSUME NEW p \in Seq(Batch)
  PROVE  Matches(<<>>, WritesOf(p), p, FALSE)
BY WritesOfSeq DEF Matches

\* The backend reads a message and replies.
LEMMA MatchesReply ==
  ASSUME NEW r \in Seq(Messages), NEW w \in Seq(Messages), NEW p \in Seq(Batch),
         Matches(r, w, p, FALSE), w # <<>>
  PROVE  /\ Matches(Append(r, Head(w)), Tail(w), p, FALSE)
         /\ Len(r) + 1 \in 1..Len(p) /\ Head(w) = p[Len(r) + 1].w
<1> DEFINE v == Tail(w)
           a == Append(r, Head(w))
<1>1. Len(r) \in Nat /\ Len(w) \in Nat /\ Len(p) \in Nat /\ Len(w) # 0
  BY EmptySeq
<1>2. /\ Len(v) = Len(w) - 1
      /\ \A i \in 1..Len(v) : v[i] = w[i + 1]
  BY HeadTailProperties
<1>3. Len(r) + Len(w) = Len(p)
  BY DEF Matches
<1>4. Head(w) = w[1] /\ w[1] = p[Len(p) - Len(w) + 1].w /\ Head(w) \in Messages
  BY <1>1, HeadTailProperties DEF Matches
<1>5. Head(w) = p[Len(r) + 1].w /\ Len(r) + 1 \in 1..Len(p)
  BY <1>1, <1>3, <1>4
<1>6. /\ Len(a) = Len(r) + 1
      /\ \A i \in 1..Len(r) : a[i] = r[i]
      /\ a[Len(r) + 1] = Head(w)
  BY <1>4, AppendProperties
<1> HIDE DEF v, a
<1>7. Len(a) + Len(v) = Len(p)
  BY <1>1, <1>2, <1>3, <1>6
<1>8. ASSUME NEW i \in 1..Len(a) PROVE a[i] = p[i].w
  <2>1. CASE i \in 1..Len(r)
    <3>1. r[i] = p[i].w
      BY <2>1 DEF Matches
    <3> QED  BY <1>6, <2>1, <3>1
  <2>2. CASE i = Len(r) + 1
    BY <1>5, <1>6, <2>2
  <2> QED  BY <1>1, <1>6, <2>1, <2>2
<1>9. ASSUME NEW i \in 1..Len(v) PROVE v[i] = p[Len(p) - Len(v) + i].w
  <2>1. i + 1 \in 1..Len(w) /\ Len(p) - Len(v) + i = Len(p) - Len(w) + (i + 1)
    BY <1>1, <1>2
  <2> QED  BY <1>2, <2>1 DEF Matches
<1> QED  BY <1>5, <1>7, <1>8, <1>9 DEF Matches, v, a

\* The backend refuses a message, and reads no more.
LEMMA MatchesRefusal ==
  ASSUME NEW r \in Seq(Messages), NEW w \in Seq(Messages), NEW p \in Seq(Batch),
         Matches(r, w, p, FALSE), w # <<>>
  PROVE  Matches(r, <<>>, p, TRUE)
<1>1. Len(r) \in Nat /\ Len(w) \in Nat /\ Len(p) \in Nat /\ Len(w) # 0
  BY EmptySeq
<1> QED  BY <1>1 DEF Matches

\* The client reads a reply, and takes the batch off the pipeline.
LEMMA MatchesResult ==
  ASSUME NEW r \in Seq(Messages), NEW w \in Seq(Messages), NEW p \in Seq(Batch),
         NEW f \in BOOLEAN, Matches(r, w, p, f), r # <<>>
  PROVE  p # <<>> /\ Matches(Tail(r), w, Tail(p), f)
<1> DEFINE v == Tail(r)
           o == Tail(p)
<1>1. Len(r) \in Nat /\ Len(w) \in Nat /\ Len(p) \in Nat /\ Len(r) # 0
  BY EmptySeq
<1>2. Len(p) # 0 /\ p # <<>> /\ Len(w) < Len(p)
  BY <1>1 DEF Matches
<1>3. /\ Len(v) = Len(r) - 1
      /\ \A i \in 1..Len(v) : v[i] = r[i + 1]
  BY HeadTailProperties
<1>4. /\ Len(o) = Len(p) - 1
      /\ \A i \in 1..Len(o) : o[i] = p[i + 1]
  BY <1>2, HeadTailProperties
<1> HIDE DEF v, o
<1>5. /\ ~f => Len(v) + Len(w) = Len(o)
      /\ f => Len(v) + Len(w) < Len(o)
  BY <1>1, <1>2, <1>3, <1>4 DEF Matches
<1>6. ASSUME NEW i \in 1..Len(v) PROVE v[i] = o[i].w
  <2>0. Len(r) <= Len(p)
    BY <1>1 DEF Matches
  <2>1. i + 1 \in 1..Len(r) /\ i \in 1..Len(o)
    BY <1>1, <1>2, <1>3, <1>4, <2>0
  <2> QED  BY <1>3, <1>4, <2>1 DEF Matches
<1>7. ASSUME NEW i \in 1..Len(w) PROVE w[i] = o[Len(o) - Len(w) + i].w
  <2>1. Len(o) - Len(w) + i \in 1..Len(o) /\ Len(o) - Len(w) + i + 1 = Len(p) - Len(w) + i
    BY <1>1, <1>2, <1>4
  <2> QED  BY <1>4, <2>1 DEF Matches
<1> QED  BY <1>2, <1>5, <1>6, <1>7 DEF Matches, v, o

-----------------------------------------------------------------------------
(* RemoteStore's write half.                                               *)

\* The two states have the call, and what rests on it, in common.
SameCall(n, m) ==
    /\ m.enabled = n.enabled /\ m.handshake = n.handshake /\ m.as = n.as
    /\ m.replies = n.replies /\ m.refusal = n.refusal
    /\ IsOpen(m.stream) <=> IsOpen(n.stream)

LEMMA StreamOf ==
  ASSUME NEW n \in NetType
  PROVE  /\ n.stream \in StreamType /\ n.stream.count \in Nat
         /\ n.pipe \in Seq(Batch) /\ n.wire \in Seq(Messages) /\ n.replies \in Seq(Messages)
         /\ Len(n.pipe) \in Nat /\ Len(n.wire) \in Nat /\ Len(n.replies) \in Nat
BY DEF NetType, StreamType

LEMMA StartIfNeededOK ==
  ASSUME NEW n, NEW q \in Seq(Batch), NetOK(n, q)
  PROVE  /\ NetOK(StartIfNeeded(n), q)
         /\ Calm(n.stream, StartIfNeeded(n).stream)
         /\ SameCall(n, StartIfNeeded(n))
         /\ StartIfNeeded(n).pipe = n.pipe
<1> DEFINE m == StartIfNeeded(n)
<1>1. CASE ~ShouldStartWriteStream(n)
  BY <1>1, StreamOf, CalmReflexive DEF StartIfNeeded, NetOK, SameCall
<1>2. CASE ShouldStartWriteStream(n)
  <2>1. n \in NetType /\ n.stream \in StreamType /\ ~IsStarted(n.stream) /\ n.enabled /\ n.pipe # <<>>
    BY <1>2, StreamOf DEF ShouldStartWriteStream, NetOK
  <2>2. n.stream.ok /\ n.stream.asked \subseteq 0..n.stream.count /\ ~n.stream.backoff /\ ~n.stream.idle
    BY <2>1 DEF NetOK, StreamOK, IsStarted, IsOpen
  <2>3. /\ Start(n.stream) \in StreamType
        /\ Start(n.stream).ok /\ ~Start(n.stream).idle
        /\ Start(n.stream).count = n.stream.count
        /\ Start(n.stream).asked \subseteq 0..n.stream.count
        /\ \/ Start(n.stream).state = "Backoff" /\ Start(n.stream).asked = n.stream.asked
           \/ Start(n.stream).state = "Starting" /\ ~Start(n.stream).backoff
    BY <2>1, <2>2, StartEffect
  <2>4. m = [n EXCEPT !.stream = Start(n.stream)]
    BY <1>2 DEF StartIfNeeded
  <2>5. /\ m \in NetType /\ m.stream = Start(n.stream)
        /\ m.enabled = n.enabled /\ m.handshake = n.handshake /\ m.as = n.as
        /\ m.replies = n.replies /\ m.refusal = n.refusal /\ m.wire = n.wire /\ m.pipe = n.pipe
    BY <2>1, <2>3, <2>4 DEF NetType
  <2> HIDE DEF m
  <2>6. ~IsOpen(m.stream) /\ ~IsOpen(n.stream)
    BY <2>1, <2>3, <2>5 DEF IsOpen, IsStarted
  <2>7. StreamOK(m)
    BY <2>1, <2>2, <2>3, <2>5, <2>6 DEF StreamOK, NetOK, IsStarted
  <2>8. CallOK(m) /\ PipeIsFront(m, q)
    BY <2>5, <2>6 DEF CallOK, NetOK, PipeIsFront, Shaken
  <2>9. Calm(n.stream, m.stream)
    BY <2>1, <2>3, <2>5 DEF Calm, IsStarted
  <2> QED  BY <2>5, <2>6, <2>7, <2>8, <2>9 DEF NetOK, SameCall, m
<1> QED  BY <1>1, <1>2

\* The pipeline with the batches taken, before anything is sent.
LEMMA ExtendedPipe ==
  ASSUME NEW n \in NetType, NEW q \in Seq(Batch), InOrder(q), PipeIsFront(n, q)
  PROVE  LET p == n.pipe \o NextBatches(n, q)
         IN  /\ p \in Seq(Batch)
             /\ Len(p) = Len(n.pipe) + Len(NextBatches(n, q)) /\ Len(p) <= Len(q)
             /\ \A i \in 1..Len(p) : p[i] = q[i]
             /\ p = <<>> <=> n.pipe = <<>> /\ NextBatches(n, q) = <<>>
             /\ NextBatches(n, q) = <<>> => p = n.pipe
<1> DEFINE taken == NextBatches(n, q)
           p == n.pipe \o taken
<1>1. n.pipe \in Seq(Batch) /\ Len(n.pipe) \in Nat /\ Len(q) \in Nat
  BY StreamOf
<1>2. /\ taken \in Seq(Batch) /\ Len(taken) \in Nat
      /\ Len(n.pipe) + Len(taken) <= Len(q)
      /\ \A i \in 1..Len(taken) : taken[i] = q[Len(n.pipe) + i]
  BY TakenIsNext
<1> HIDE DEF taken
<1>3. /\ p \in Seq(Batch) /\ Len(p) = Len(n.pipe) + Len(taken)
      /\ \A i \in 1..(Len(n.pipe) + Len(taken)) :
            p[i] = IF i <= Len(n.pipe) THEN n.pipe[i] ELSE taken[i - Len(n.pipe)]
  BY <1>1, <1>2, ConcatProperties
<1>4. /\ p = <<>> <=> n.pipe = <<>> /\ taken = <<>>
      /\ taken = <<>> => p = n.pipe
  BY <1>1, <1>2, ConcatEqualIffEmpty, ConcatEmptySeq
<1> HIDE DEF p
<1>5. ASSUME NEW i \in 1..Len(p) PROVE p[i] = q[i]
  <2>1. CASE i <= Len(n.pipe)
    BY <1>1, <1>3, <2>1 DEF PipeIsFront
  <2>2. CASE i > Len(n.pipe)
    <3>1. i - Len(n.pipe) \in 1..Len(taken) /\ Len(n.pipe) + (i - Len(n.pipe)) = i
      BY <1>1, <1>2, <1>3, <2>2
    <3>2. taken[i - Len(n.pipe)] = q[i]
      BY <1>2, <3>1
    <3>3. i \in 1..(Len(n.pipe) + Len(taken)) /\ ~(i <= Len(n.pipe))
      BY <1>1, <1>3, <2>2
    <3>4. p[i] = taken[i - Len(n.pipe)]
      BY <1>3, <3>3
    <3> QED  BY <3>2, <3>4
  <2> QED  BY <1>1, <2>1, <2>2
<1> QED  BY <1>2, <1>3, <1>4, <1>5 DEF p, taken

\* Filling the pipeline keeps what is on the call in step with it, whether
\* the new batches are sent at once or wait for the handshake.
LEMMA FillOK ==
  ASSUME NEW n, NEW q \in Seq(Batch), NetOK(n, q), InOrder(q)
  PROVE  /\ NetOK(FillWritePipeline(n, q), q)
         /\ Calm(n.stream, FillWritePipeline(n, q).stream)
         /\ SameCall(n, FillWritePipeline(n, q))
         /\ Len(n.pipe) <= Len(FillWritePipeline(n, q).pipe)
<1> DEFINE taken == NextBatches(n, q)
           p == n.pipe \o taken
           marked == IF n.enabled /\ p = <<>> THEN MarkIdle(n.stream) ELSE n.stream
           filled == [n EXCEPT !.pipe = p, !.stream = marked]
           g == IF IsOpen(n.stream) /\ n.handshake THEN Send(filled, WritesOf(taken)) ELSE filled
<1>1. FillWritePipeline(n, q) = StartIfNeeded(g)
  BY DEF FillWritePipeline
<1>2. n \in NetType /\ PipeIsFront(n, q) /\ StreamOK(n) /\ CallOK(n)
  BY DEF NetOK
<1>3. /\ n.stream \in StreamType /\ n.stream.count \in Nat
      /\ n.pipe \in Seq(Batch) /\ n.wire \in Seq(Messages) /\ n.replies \in Seq(Messages)
      /\ Len(n.pipe) \in Nat /\ Len(n.wire) \in Nat /\ Len(n.replies) \in Nat
  BY <1>2, StreamOf
<1>4. /\ p \in Seq(Batch)
      /\ Len(p) = Len(n.pipe) + Len(taken) /\ Len(p) <= Len(q)
      /\ \A i \in 1..Len(p) : p[i] = q[i]
      /\ p = <<>> <=> n.pipe = <<>> /\ taken = <<>>
      /\ taken = <<>> => p = n.pipe
  BY <1>2, ExtendedPipe
<1>5. /\ taken \in Seq(Batch) /\ Len(taken) \in Nat
      /\ \A i \in 1..Len(taken) : taken[i] = q[Len(n.pipe) + i]
      /\ ~n.enabled => taken = <<>>
  BY <1>2, TakenIsNext
<1> HIDE DEF taken, p
<1>6. \A i \in 1..Len(n.pipe) : n.pipe[i] = p[i]
  BY <1>2, <1>3, <1>4, <1>5 DEF PipeIsFront
<1>7. /\ marked \in StreamType
      /\ marked = [n.stream EXCEPT !.idle = marked.idle]
      /\ marked.idle => IsOpen(n.stream) /\ (p = <<>> \/ (Shaken(n) /\ taken # <<>>))
  <2>1. CASE n.enabled /\ p = <<>>
    <3>1. /\ marked \in StreamType
          /\ marked = [n.stream EXCEPT !.idle = n.stream.idle \/ IsOpen(n.stream)]
      BY <1>3, <2>1, MarkIdleEffect
    <3>2. marked.idle = (n.stream.idle \/ IsOpen(n.stream))
      BY <1>3, <3>1 DEF StreamType
    <3>3. n.stream.idle => IsOpen(n.stream)
      BY <1>2 DEF StreamOK
    <3>4. marked = [n.stream EXCEPT !.idle = marked.idle]
      BY <3>1, <3>2
    <3>5. marked.idle => IsOpen(n.stream)
      BY <3>2, <3>3, Zenon
    <3> HIDE DEF marked
    <3> QED  BY <2>1, <3>1, <3>4, <3>5, Zenon
  <2>2. CASE ~(n.enabled /\ p = <<>>)
    <3>1. marked = n.stream
      BY <2>2
    <3>2. n.stream.idle => IsOpen(n.stream) /\ n.pipe = <<>> /\ (Shaken(n) \/ ~IsStarted(n.stream))
      BY <1>2 DEF StreamOK
    <3>3. n.stream.idle => Shaken(n)
      BY <3>2 DEF IsOpen, IsStarted
    <3>4. p = <<>> \/ taken # <<>> \/ n.pipe # <<>>
      BY <1>4
    <3>5. marked \in StreamType /\ marked = [n.stream EXCEPT !.idle = marked.idle]
      BY <1>3, <3>1 DEF StreamType
    <3>6. marked.idle => IsOpen(n.stream) /\ (p = <<>> \/ (Shaken(n) /\ taken # <<>>))
      <4>1. marked.idle = n.stream.idle
        BY <3>1
      <4>2. n.stream.idle => IsOpen(n.stream) /\ (p = <<>> \/ (Shaken(n) /\ taken # <<>>))
        BY <3>2, <3>3, <3>4
      <4> HIDE DEF marked
      <4> QED  BY <4>1, <4>2, Zenon
    <3> QED  BY <3>5, <3>6
  <2> QED  BY <2>1, <2>2
<1> HIDE DEF marked
<1>8. /\ filled \in NetType
      /\ filled.pipe = p /\ filled.stream = marked
      /\ SameCall(n, filled) /\ filled.wire = n.wire
  <2>1. IsOpen(marked) <=> IsOpen(n.stream)
    BY <1>3, <1>7 DEF IsOpen, StreamType
  <2> QED  BY <1>2, <1>4, <1>7, <2>1 DEF NetType, SameCall
<1> HIDE DEF filled
<1>9. /\ g \in NetType /\ g.pipe = p /\ SameCall(n, g)
      /\ g.stream = [n.stream EXCEPT !.idle = g.stream.idle]
      /\ g.stream.idle => IsOpen(n.stream) /\ p = <<>>
      /\ g.wire = IF Shaken(n) THEN n.wire \o WritesOf(taken) ELSE n.wire
  <2>1. CASE ~Shaken(n)
    BY <1>7, <1>8, <2>1 DEF Shaken
  <2>2. CASE Shaken(n) /\ taken = <<>>
    <3>1. WritesOf(taken) = <<>>
      BY <1>5, <2>2, WritesOfSeq, EmptySeq
    <3>2. g = filled
      BY <2>2, <3>1 DEF Send, Shaken
    <3>3. n.wire \o <<>> = n.wire
      BY <1>3, ConcatEmptySeq
    <3> QED  BY <1>7, <1>8, <2>2, <3>1, <3>2, <3>3
  <2>3. CASE Shaken(n) /\ taken # <<>>
    <3>1. /\ WritesOf(taken) \in Seq(Messages) /\ WritesOf(taken) # <<>>
      BY <1>5, <2>3, WritesOfSeq, EmptySeq
    <3>2. g = [filled EXCEPT !.stream = Write(marked), !.wire = n.wire \o WritesOf(taken)]
      BY <1>8, <2>3, <3>1 DEF Send, Shaken
    <3>3. IsOpen(marked)
      BY <1>3, <1>7, <2>3 DEF Shaken, IsOpen, StreamType
    <3>4. Write(marked) \in StreamType /\ Write(marked) = [marked EXCEPT !.idle = FALSE]
      BY <1>7, <3>3, WriteEffect
    <3>5. n.wire \o WritesOf(taken) \in Seq(Messages)
      BY <1>3, <3>1, ConcatProperties
    <3>6. Write(marked) = [n.stream EXCEPT !.idle = FALSE] /\ Write(marked).idle = FALSE
      BY <1>3, <1>7, <3>4 DEF StreamType
    <3>7. IsOpen(Write(marked))
      BY <3>3, <3>4, <1>7 DEF IsOpen, StreamType
    <3>8. /\ g \in NetType /\ g.pipe = p /\ g.stream = Write(marked)
          /\ g.wire = n.wire \o WritesOf(taken)
          /\ g.enabled = filled.enabled /\ g.handshake = filled.handshake /\ g.as = filled.as
          /\ g.replies = filled.replies /\ g.refusal = filled.refusal
      BY <1>8, <3>2, <3>4, <3>5 DEF NetType
    <3> QED  BY <1>8, <2>3, <3>3, <3>6, <3>7, <3>8 DEF SameCall
  <2> QED  BY <2>1, <2>2, <2>3
<1> HIDE DEF g
<1>10. /\ g.stream.ok = n.stream.ok /\ g.stream.state = n.stream.state
       /\ g.stream.count = n.stream.count /\ g.stream.asked = n.stream.asked
       /\ g.stream.backoff = n.stream.backoff /\ g.stream \in StreamType
  BY <1>3, <1>9 DEF StreamType, NetType
<1>11. Shaken(g) <=> Shaken(n)
  BY <1>9 DEF Shaken, SameCall
<1>12. StreamOK(g)
  BY <1>2, <1>4, <1>5, <1>9, <1>10, <1>11 DEF StreamOK, SameCall, IsOpen, IsStarted
<1>13. CallOK(g)
  <2>1. CASE ~Shaken(n)
    BY <1>2, <1>9, <1>11, <2>1 DEF CallOK, SameCall, Shaken
  <2>2. CASE Shaken(n)
    <3>1. /\ n.refusal \in BOOLEAN /\ Matches(n.replies, n.wire, n.pipe, n.refusal)
      BY <1>2, <2>2 DEF CallOK, NetType
    <3>2. Matches(n.replies, n.wire \o WritesOf(taken), n.pipe \o taken, n.refusal)
      BY <1>3, <1>5, <3>1, MatchesMore
    <3>3. Matches(g.replies, g.wire, g.pipe, g.refusal)
      BY <1>9, <2>2, <3>2 DEF SameCall, p
    <3>4. IsOpen(g.stream) /\ g.handshake
      BY <1>11, <2>2 DEF Shaken
    <3> QED  BY <1>11, <2>2, <3>3, <3>4 DEF CallOK
  <2> QED  BY <2>1, <2>2
<1>14. NetOK(g, q)
  BY <1>4, <1>9, <1>12, <1>13 DEF NetOK, PipeIsFront
<1>15. /\ NetOK(StartIfNeeded(g), q) /\ Calm(g.stream, StartIfNeeded(g).stream)
       /\ SameCall(g, StartIfNeeded(g)) /\ StartIfNeeded(g).pipe = g.pipe
  BY <1>14, StartIfNeededOK
<1>16. Calm(n.stream, StartIfNeeded(g).stream)
  BY <1>10, <1>15 DEF Calm
<1>17. SameCall(n, StartIfNeeded(g))
  BY <1>9, <1>15 DEF SameCall
<1> QED  BY <1>1, <1>3, <1>4, <1>5, <1>9, <1>15, <1>16, <1>17
-----------------------------------------------------------------------------
(* Closing the stream, and starting afresh.                                *)

\* No stream, no timer, no call: nothing under way but outdated token requests.
AtRest(n) ==
    /\ n \in NetType
    /\ ~IsStarted(n.stream) /\ n.stream.ok /\ ~n.stream.backoff /\ ~n.stream.idle
    /\ n.stream.asked \subseteq 0..n.stream.count /\ n.stream.count \notin n.stream.asked
    /\ n.wire = <<>> /\ n.replies = <<>> /\ ~n.refusal

LEMMA AtRestOK ==
  ASSUME NEW n, NEW q \in Seq(Batch), AtRest(n), PipeIsFront(n, q),
         n.enabled \/ n.pipe = <<>>
  PROVE  NetOK(n, q)
<1>1. n \in NetType /\ ~IsOpen(n.stream) /\ ~IsStarted(n.stream) /\ ~Shaken(n)
  BY DEF AtRest, IsOpen, IsStarted, Shaken
<1>2. StreamOK(n) /\ CallOK(n)
  BY <1>1 DEF AtRest, StreamOK, CallOK
<1> QED  BY <1>1, <1>2 DEF NetOK

LEMMA NotStartedAtRest ==
  ASSUME NEW n, NEW q \in Seq(Batch), NetOK(n, q), ~IsStarted(n.stream)
  PROVE  AtRest(n)
<1>1. n \in NetType /\ ~IsOpen(n.stream) /\ ~Shaken(n)
  BY DEF NetOK, IsOpen, IsStarted, Shaken
<1>2. n.stream.state # "Backoff" /\ n.stream.state # "Starting"
  BY DEF IsStarted
<1> QED  BY <1>1, <1>2 DEF AtRest, NetOK, StreamOK, CallOK

LEMMA ClosedEffect ==
  ASSUME NEW n \in NetType, IsStarted(n.stream), n.stream.ok,
         n.stream.asked \subseteq 0..n.stream.count, NEW graceful \in BOOLEAN
  PROVE  LET m == Closed(n, graceful)
         IN  /\ AtRest(m) /\ m.stream.count > n.stream.count
             /\ m.pipe = n.pipe /\ m.enabled = n.enabled /\ m.as = n.as
             /\ m.handshake = n.handshake
<1> DEFINE m == Closed(n, graceful)
<1>1. n.stream \in StreamType /\ n.stream.count \in Nat
  BY StreamOf
<1>2. /\ Close(n.stream, graceful) \in StreamType
      /\ Close(n.stream, graceful).ok
      /\ ~Close(n.stream, graceful).backoff /\ ~Close(n.stream, graceful).idle
      /\ Close(n.stream, graceful).count = n.stream.count + 1
      /\ Close(n.stream, graceful).asked = n.stream.asked
      /\ Close(n.stream, graceful).state = IF graceful THEN "Initial" ELSE "Error"
  BY <1>1, CloseEffect
<1>3. /\ m \in NetType /\ m.stream = Close(n.stream, graceful)
      /\ m.wire = <<>> /\ m.replies = <<>> /\ ~m.refusal
      /\ m.pipe = n.pipe /\ m.enabled = n.enabled /\ m.as = n.as
      /\ m.handshake = n.handshake
  <2> DEFINE c == Close(n.stream, graceful)
  <2>1. m = [n EXCEPT !.stream = c, !.wire = <<>>, !.replies = <<>>, !.refusal = FALSE]
    BY DEF Closed
  <2>2. c \in StreamType
    BY <1>2
  <2> HIDE DEF c, m
  <2>3. m \in NetType
    <3>1. <<>> \in Seq(Messages)
      BY EmptySeq
    <3> DEFINE none == <<>>
    <3> HIDE DEF none
    <3>2. m = [n EXCEPT !.stream = c, !.wire = none, !.replies = none, !.refusal = FALSE]
      BY <2>1 DEF none
    <3>3. none \in Seq(Messages)
      BY <3>1 DEF none
    <3> QED  BY <2>2, <3>2, <3>3 DEF NetType
  <2>4. /\ m.stream = c /\ m.wire = <<>> /\ m.replies = <<>> /\ ~m.refusal
        /\ m.pipe = n.pipe /\ m.enabled = n.enabled /\ m.as = n.as
        /\ m.handshake = n.handshake
    BY <2>1 DEF NetType
  <2> QED  BY <2>3, <2>4 DEF c
<1> HIDE DEF m
<1>4. m.stream.asked \subseteq 0..m.stream.count /\ m.stream.count \notin m.stream.asked
  BY <1>1, <1>2, <1>3
<1>5. ~IsStarted(m.stream)
  BY <1>2, <1>3 DEF IsStarted
<1>6. m.stream.count > n.stream.count
  BY <1>1, <1>2, <1>3
<1> QED  BY <1>2, <1>3, <1>4, <1>5, <1>6 DEF AtRest, m

\* Without an open call it does not matter whether the flag of the last one
\* still stands.
LEMMA ForgetHandshake ==
  ASSUME NEW n, NEW q \in Seq(Batch), NetOK(n, q), ~IsOpen(n.stream)
  PROVE  LET m == [n EXCEPT !.handshake = FALSE]
         IN  /\ NetOK(m, q) /\ ~m.handshake
             /\ m.stream = n.stream /\ m.pipe = n.pipe /\ m.enabled = n.enabled /\ m.as = n.as
<1> DEFINE m == [n EXCEPT !.handshake = FALSE]
<1>1. n \in NetType
  BY DEF NetOK
<1>2. /\ m \in NetType /\ ~m.handshake
      /\ m.stream = n.stream /\ m.pipe = n.pipe /\ m.enabled = n.enabled /\ m.as = n.as
      /\ m.wire = n.wire /\ m.replies = n.replies /\ m.refusal = n.refusal
  BY <1>1 DEF NetType
<1> HIDE DEF m
<1>3. ~Shaken(m) /\ ~Shaken(n)
  BY <1>2 DEF Shaken
<1>4. StreamOK(m) /\ CallOK(m) /\ PipeIsFront(m, q)
  BY <1>2, <1>3 DEF StreamOK, CallOK, PipeIsFront, NetOK
<1> QED  BY <1>2, <1>4 DEF NetOK, m

LEMMA FailOK ==
  ASSUME NEW n, NEW q \in Seq(Batch), NetOK(n, q), IsStarted(n.stream)
  PROVE  /\ NetOK(Fail(n), q) /\ Fail(n).pipe = n.pipe
         /\ ~Fail(n).handshake /\ ~IsOpen(Fail(n).stream)
         /\ Calm(n.stream, Fail(n).stream)
<1> DEFINE m == Closed(n, FALSE)
           s == StartIfNeeded(m)
<1>1. n \in NetType /\ n.stream \in StreamType /\ PipeIsFront(n, q) /\ StreamOK(n)
  BY StreamOf DEF NetOK
<1>2. /\ AtRest(m) /\ m.stream.count > n.stream.count
      /\ m.pipe = n.pipe /\ m.enabled = n.enabled
  BY <1>1, ClosedEffect DEF StreamOK
<1> HIDE DEF m
<1>3. NetOK(m, q)
  BY <1>1, <1>2, AtRestOK DEF PipeIsFront, StreamOK
<1>4. /\ NetOK(s, q) /\ Calm(m.stream, s.stream) /\ SameCall(m, s) /\ s.pipe = m.pipe
  BY <1>3, StartIfNeededOK
<1> HIDE DEF s
<1>5. ~IsOpen(s.stream)
  BY <1>2, <1>4 DEF SameCall, AtRest, IsOpen, IsStarted
<1>6. Fail(n) = [s EXCEPT !.handshake = FALSE]
  BY DEF Fail, m, s
<1>7. /\ NetOK(Fail(n), q) /\ ~Fail(n).handshake
      /\ Fail(n).stream = s.stream /\ Fail(n).pipe = s.pipe
  BY <1>4, <1>5, <1>6, ForgetHandshake
<1>8. m.stream \in StreamType /\ s.stream \in StreamType
  BY <1>3, <1>4, StreamOf DEF NetOK
<1>9. Calm(n.stream, s.stream)
  BY <1>1, <1>2, <1>4, <1>8, CalmTransitive DEF Calm
<1> QED  BY <1>2, <1>4, <1>5, <1>7, <1>9

\* A stop without an error, with nothing to send, leaves the stream closed.
LEMMA StopOK ==
  ASSUME NEW n \in NetType, IsStarted(n.stream), n.stream.ok,
         n.stream.asked \subseteq 0..n.stream.count,
         ~n.enabled \/ n.pipe = <<>>
  PROVE  /\ AtRest(Stop(n)) /\ Stop(n).stream.count > n.stream.count
         /\ Stop(n).pipe = n.pipe /\ Stop(n).enabled = n.enabled
         /\ ~Stop(n).handshake
<1> DEFINE m == Closed(n, TRUE)
<1>1. /\ AtRest(m) /\ m.stream.count > n.stream.count
      /\ m.pipe = n.pipe /\ m.enabled = n.enabled
  BY ClosedEffect
<1>2. Stop(n) = [StartIfNeeded([m EXCEPT !.stream = HardAssert(@, ~ShouldStartWriteStream(m))])
                     EXCEPT !.handshake = FALSE]
  BY DEF Stop
<1> HIDE DEF m
<1>3. ~ShouldStartWriteStream(m)
  BY <1>1 DEF ShouldStartWriteStream
<1>4. m \in NetType /\ m.stream \in StreamType /\ m.stream.ok
  BY <1>1, StreamOf DEF AtRest
<1>5. HardAssert(m.stream, ~ShouldStartWriteStream(m)) = m.stream
  BY <1>3, <1>4 DEF HardAssert, StreamType
<1>6. [m EXCEPT !.stream = HardAssert(@, ~ShouldStartWriteStream(m))] = m
  BY <1>4, <1>5 DEF NetType
<1>7. Stop(n) = [m EXCEPT !.handshake = FALSE]
  BY <1>2, <1>3, <1>6 DEF StartIfNeeded
<1>8. /\ Stop(n) \in NetType /\ ~Stop(n).handshake
      /\ Stop(n).stream = m.stream /\ Stop(n).pipe = m.pipe /\ Stop(n).enabled = m.enabled
      /\ Stop(n).wire = m.wire /\ Stop(n).replies = m.replies /\ Stop(n).refusal = m.refusal
  BY <1>4, <1>7 DEF NetType
<1> QED  BY <1>1, <1>8 DEF AtRest
LEMMA DisableOK ==
  ASSUME NEW n, NEW q \in Seq(Batch), NetOK(n, q), n.handshake => IsOpen(n.stream)
  PROVE  /\ AtRest(DisableNetwork(n)) /\ Calm(n.stream, DisableNetwork(n).stream)
         /\ DisableNetwork(n).pipe = <<>> /\ ~DisableNetwork(n).enabled
         /\ ~DisableNetwork(n).handshake
<1> DEFINE m == [n EXCEPT !.enabled = FALSE]
           s == Stop(m)
           none == <<>>
<1>1. n \in NetType /\ n.stream \in StreamType
  BY StreamOf DEF NetOK
<1>2. /\ m \in NetType /\ ~m.enabled /\ m.stream = n.stream /\ m.handshake = n.handshake
      /\ m.wire = n.wire /\ m.replies = n.replies /\ m.refusal = n.refusal
  BY <1>1 DEF NetType
<1>3. n.stream.ok /\ n.stream.asked \subseteq 0..n.stream.count
  BY DEF NetOK, StreamOK
<1> HIDE DEF m
<1>4. /\ AtRest(s) /\ ~s.enabled /\ ~s.handshake /\ Calm(n.stream, s.stream)
  <2>1. CASE IsStarted(n.stream)
    <3>1. AtRest(s) /\ s.stream.count > n.stream.count /\ ~s.enabled /\ ~s.handshake
      BY <1>2, <1>3, <2>1, StopOK
    <3> QED  BY <3>1 DEF Calm
  <2>2. CASE ~IsStarted(n.stream)
    <3>1. s = m
      BY <1>2, <2>2 DEF Stop
    <3>2. AtRest(n)
      BY <2>2, NotStartedAtRest
    <3>3. ~n.handshake
      BY <2>2 DEF IsOpen, IsStarted
    <3>4. AtRest(m)
      BY <1>2, <3>2 DEF AtRest
    <3> QED  BY <1>1, <1>2, <3>1, <3>3, <3>4, CalmReflexive
  <2> QED  BY <2>1, <2>2
<1> HIDE DEF s
<1>5. none \in Seq(Batch)
  BY EmptySeq
<1>6. DisableNetwork(n) = [s EXCEPT !.pipe = none]
  BY DEF DisableNetwork, s, m
<1> HIDE DEF none
<1>7. s \in NetType
  BY <1>4 DEF AtRest
<1>8. /\ DisableNetwork(n) \in NetType /\ DisableNetwork(n).pipe = none
      /\ DisableNetwork(n).stream = s.stream /\ DisableNetwork(n).enabled = s.enabled
      /\ DisableNetwork(n).handshake = s.handshake /\ DisableNetwork(n).wire = s.wire
      /\ DisableNetwork(n).replies = s.replies /\ DisableNetwork(n).refusal = s.refusal
  BY <1>5, <1>6, <1>7 DEF NetType
<1> QED  BY <1>4, <1>8 DEF AtRest, none

LEMMA EnableOK ==
  ASSUME NEW n, NEW q \in Seq(Batch), InOrder(q), AtRest(n), n.pipe = <<>>, ~n.handshake
  PROVE  /\ NetOK(EnableNetwork(n, q), q) /\ Calm(n.stream, EnableNetwork(n, q).stream)
         /\ ~EnableNetwork(n, q).handshake /\ ~IsOpen(EnableNetwork(n, q).stream)
<1> DEFINE m == [n EXCEPT !.enabled = TRUE]
<1>1. n \in NetType
  BY DEF AtRest
<1>2. /\ m \in NetType /\ m.enabled /\ m.stream = n.stream /\ m.handshake = n.handshake
      /\ m.pipe = n.pipe /\ m.wire = n.wire /\ m.replies = n.replies /\ m.refusal = n.refusal
  BY <1>1 DEF NetType
<1>3. EnableNetwork(n, q) = FillWritePipeline(m, q)
  BY DEF EnableNetwork
<1> HIDE DEF m
<1>4. AtRest(m)
  BY <1>2 DEF AtRest
<1>5. PipeIsFront(m, q)
  BY <1>2 DEF PipeIsFront
<1>6. NetOK(m, q)
  BY <1>2, <1>4, <1>5, AtRestOK
<1>7. /\ NetOK(FillWritePipeline(m, q), q)
      /\ Calm(m.stream, FillWritePipeline(m, q).stream)
      /\ SameCall(m, FillWritePipeline(m, q))
  BY <1>6, FillOK
<1>8. ~IsOpen(m.stream)
  BY <1>4 DEF AtRest, IsOpen, IsStarted
<1> QED  BY <1>2, <1>3, <1>7, <1>8 DEF SameCall

LEMMA RestartNetworkOK ==
  ASSUME NEW n, NEW r \in Seq(Batch), NetOK(n, r), n.handshake => IsOpen(n.stream),
         NEW q \in Seq(Batch), InOrder(q)
  PROVE  /\ NetOK(RestartNetwork(n, q), q) /\ Calm(n.stream, RestartNetwork(n, q).stream)
         /\ ~RestartNetwork(n, q).handshake /\ ~IsOpen(RestartNetwork(n, q).stream)
<1> DEFINE d == DisableNetwork(n)
           m == [d EXCEPT !.stream = InhibitBackoff(d.stream)]
<1>1. /\ AtRest(d) /\ Calm(n.stream, d.stream)
      /\ d.pipe = <<>> /\ ~d.enabled /\ ~d.handshake
  BY DisableOK
<1>2. RestartNetwork(n, q) = EnableNetwork(m, q)
  BY DEF RestartNetwork
<1> HIDE DEF d
<1>3. d \in NetType /\ d.stream \in StreamType
  BY <1>1, StreamOf DEF AtRest
<1>4. InhibitBackoff(d.stream) = [d.stream EXCEPT !.state = "Initial"]
  <2>1. HardAssert(d.stream, ~IsStarted(d.stream)) = d.stream
    BY <1>1, <1>3 DEF HardAssert, StreamType, AtRest
  <2> QED  BY <2>1 DEF InhibitBackoff
<1>5. /\ InhibitBackoff(d.stream) \in StreamType
      /\ InhibitBackoff(d.stream).state = "Initial"
      /\ InhibitBackoff(d.stream).ok = d.stream.ok
      /\ InhibitBackoff(d.stream).backoff = d.stream.backoff
      /\ InhibitBackoff(d.stream).idle = d.stream.idle
      /\ InhibitBackoff(d.stream).count = d.stream.count
      /\ InhibitBackoff(d.stream).asked = d.stream.asked
  BY <1>3, <1>4 DEF StreamType
<1>6. /\ m \in NetType /\ m.stream = InhibitBackoff(d.stream)
      /\ m.pipe = d.pipe /\ m.handshake = d.handshake /\ m.wire = d.wire
      /\ m.replies = d.replies /\ m.refusal = d.refusal
  BY <1>3, <1>5 DEF NetType
<1> HIDE DEF m
<1>7. ~IsStarted(m.stream)
  BY <1>5, <1>6 DEF IsStarted
<1>8. AtRest(m)
  BY <1>1, <1>5, <1>6, <1>7 DEF AtRest
<1>9. /\ NetOK(EnableNetwork(m, q), q) /\ Calm(m.stream, EnableNetwork(m, q).stream)
      /\ ~EnableNetwork(m, q).handshake /\ ~IsOpen(EnableNetwork(m, q).stream)
  BY <1>1, <1>6, <1>8, EnableOK
<1>10. Calm(d.stream, m.stream)
  BY <1>1, <1>5, <1>6 DEF Calm, AtRest, IsStarted
<1>11. /\ n.stream \in StreamType /\ m.stream \in StreamType
       /\ EnableNetwork(m, q).stream \in StreamType
  BY <1>6, <1>9, StreamOf DEF NetOK
<1>12. Calm(n.stream, m.stream)
  BY <1>1, <1>3, <1>10, <1>11, CalmTransitive
<1>13. Calm(n.stream, EnableNetwork(m, q).stream)
  BY <1>9, <1>11, <1>12, CalmTransitive
<1> QED  BY <1>2, <1>9, <1>13

LEMMA UserChangeOK ==
  ASSUME NEW n, NEW r \in Seq(Batch), NetOK(n, r), n.handshake => IsOpen(n.stream),
         NEW q \in Seq(Batch), InOrder(q)
  PROVE  /\ NetOK(OnUserChange(n, q), q) /\ Calm(n.stream, OnUserChange(n, q).stream)
         /\ ~OnUserChange(n, q).handshake /\ ~IsOpen(OnUserChange(n, q).stream)
<1>1. CASE n.enabled
  BY <1>1, RestartNetworkOK DEF OnUserChange
<1>2. CASE ~n.enabled
  <2>1. OnUserChange(n, q) = n /\ n.pipe = <<>> /\ ~IsStarted(n.stream)
    BY <1>2 DEF OnUserChange, NetOK, StreamOK
  <2>2. AtRest(n)
    BY <2>1, NotStartedAtRest
  <2>3. NetOK(n, q)
    BY <2>1, <2>2, AtRestOK DEF PipeIsFront
  <2>4. ~IsOpen(n.stream)
    BY <2>1 DEF IsOpen, IsStarted
  <2> QED  BY <2>1, <2>3, <2>4, StreamOf, CalmReflexive DEF NetOK
<1> QED  BY <1>1, <1>2

LEMMA NewNetAtRest ==
  ASSUME NEW u \in Users
  PROVE  AtRest(NewNet(u)) /\ NewNet(u).pipe = <<>> /\ ~NewNet(u).handshake
<1>1. NewStream \in StreamType
  BY DEF NewStream, StreamType
<1>2. <<>> \in Seq(Batch) /\ <<>> \in Seq(Messages)
  BY EmptySeq
<1>3. NewNet(u) \in NetType
  <2> DEFINE none == <<>>
             s == NewStream
  <2>1. none \in Seq(Batch) /\ none \in Seq(Messages) /\ s \in StreamType
    BY <1>1, <1>2
  <2>2. NewNet(u) = [enabled |-> FALSE, stream |-> s, handshake |-> FALSE, pipe |-> none,
                     wire |-> none, replies |-> none, refusal |-> FALSE, as |-> u]
    BY DEF NewNet
  <2> HIDE DEF none, s
  <2> QED  BY <2>1, <2>2 DEF NetType
<1>4. NewNet(u).stream = NewStream
  BY DEF NewNet
<1>5. ~IsStarted(NewStream)
  BY DEF NewStream, IsStarted
<1> QED  BY <1>3, <1>4, <1>5 DEF AtRest, NewNet, NewStream
-----------------------------------------------------------------------------
(* Credential changes and tokens on the worker queue.                      *)

\* What is put on the mail leaves the places before it as they are.
LEMMA MailAppended ==
  ASSUME NEW m \in Seq(MailType), NEW x \in MailType
  PROVE  /\ Append(m, x) \in Seq(MailType) /\ Len(Append(m, x)) = Len(m) + 1
         /\ Append(m, x)[Len(m) + 1] = x /\ Len(m) \in Nat
         /\ \A i \in 1..Len(m) : Append(m, x)[i] = m[i]
BY AppendProperties

LEMMA MailTail ==
  ASSUME NEW m \in Seq(MailType), m # <<>>
  PROVE  /\ Tail(m) \in Seq(MailType) /\ Len(Tail(m)) = Len(m) - 1
         /\ Head(m) = m[1] /\ Head(m) \in MailType /\ Len(m) \in Nat /\ Len(m) >= 1
         /\ \A i \in 1..Len(Tail(m)) : Tail(m)[i] = m[i + 1]
BY HeadTailProperties, EmptySeq

LEMMA MailUser ==
  ASSUME NEW m \in Seq(MailType), NEW u, NEW a, MailOK(m, u, a),
         NEW x \in MailType, x.kind = "user"
  PROVE  MailOK(Append(m, x), u, x.user)
<1> DEFINE o == Append(m, x)
<1>1. /\ Len(o) = Len(m) + 1 /\ o[Len(m) + 1] = x /\ Len(m) \in Nat
      /\ \A i \in 1..Len(m) : o[i] = m[i]
  BY MailAppended
<1> HIDE DEF o
<1>2. UserBefore(o, u, Len(o) + 1, x.user)
  <2>1. ~\A k \in 1..(Len(o) + 1 - 1) : o[k].kind # "user"
    BY <1>1
  <2>2. ASSUME NEW j \in 1..(Len(o) + 1 - 1), InForce(o, j, Len(o) + 1)
        PROVE  x.user = o[j].user
    <3>1. CASE j = Len(m) + 1
      BY <1>1, <3>1
    <3>2. CASE j # Len(m) + 1
      <4>1. Len(m) + 1 \in (j + 1)..(Len(o) + 1 - 1)
        BY <1>1, <3>2
      <4> QED  BY <1>1, <2>2, <4>1 DEF InForce
    <3> QED  BY <3>1, <3>2
  <2> QED  BY <2>1, <2>2 DEF UserBefore
<1>3. ASSUME NEW i \in 1..Len(o), o[i].kind = "token", Came(o[i])
      PROVE  UserBefore(o, u, i, o[i].user)
  <2>1. i \in 1..Len(m) /\ o[i] = m[i]
    BY <1>1, <1>3
  <2>2. UserBefore(m, u, i, m[i].user)
    BY <1>3, <2>1 DEF MailOK
  <2>3. \A k \in 1..(i - 1) : o[k] = m[k]
    BY <1>1, <2>1
  <2> QED  BY <1>1, <2>1, <2>2, <2>3 DEF UserBefore, InForce
<1> QED  BY <1>2, <1>3 DEF MailOK, o

LEMMA MailToken ==
  ASSUME NEW m \in Seq(MailType), NEW u, NEW a, MailOK(m, u, a),
         NEW x \in MailType, x.kind = "token", Came(x) => x.user = a
  PROVE  MailOK(Append(m, x), u, a)
<1> DEFINE o == Append(m, x)
<1>1. /\ Len(o) = Len(m) + 1 /\ o[Len(m) + 1] = x /\ Len(m) \in Nat
      /\ \A i \in 1..Len(m) : o[i] = m[i]
  BY MailAppended
<1> HIDE DEF o
<1>2. UserBefore(m, u, Len(m) + 1, a)
  BY DEF MailOK
<1>3. UserBefore(o, u, Len(m) + 1, a)
  BY <1>1, <1>2 DEF UserBefore, InForce
<1>4. UserBefore(o, u, Len(o) + 1, a)
  <2>1. ASSUME \A k \in 1..(Len(o) + 1 - 1) : o[k].kind # "user"
        PROVE  a = u
    BY <1>1, <1>3, <2>1 DEF UserBefore
  <2>2. ASSUME NEW j \in 1..(Len(o) + 1 - 1), InForce(o, j, Len(o) + 1)
        PROVE  a = o[j].user
    <3>1. j # Len(m) + 1
      BY <1>1, <2>2 DEF InForce
    <3>2. j \in 1..(Len(m) + 1 - 1) /\ InForce(o, j, Len(m) + 1)
      BY <1>1, <2>2, <3>1 DEF InForce
    <3> QED  BY <1>3, <3>2 DEF UserBefore
  <2> QED  BY <2>1, <2>2 DEF UserBefore
<1>5. ASSUME NEW i \in 1..Len(o), o[i].kind = "token", Came(o[i])
      PROVE  UserBefore(o, u, i, o[i].user)
  <2>1. CASE i = Len(m) + 1
    BY <1>1, <1>3, <1>5, <2>1
  <2>2. CASE i # Len(m) + 1
    <3>1. i \in 1..Len(m) /\ o[i] = m[i]
      BY <1>1, <2>2
    <3>2. UserBefore(m, u, i, m[i].user)
      BY <1>5, <3>1 DEF MailOK
    <3>3. \A k \in 1..(i - 1) : o[k] = m[k]
      BY <1>1, <3>1
    <3> QED  BY <1>1, <3>1, <3>2, <3>3 DEF UserBefore, InForce
  <2> QED  BY <2>1, <2>2
<1> QED  BY <1>4, <1>5 DEF MailOK, o

\* The first item has been read: a user change is in force now.
LEMMA MailRead ==
  ASSUME NEW m \in Seq(MailType), m # <<>>, NEW u, NEW a, MailOK(m, u, a)
  PROVE  /\ MailOK(Tail(m), IF Head(m).kind = "user" THEN Head(m).user ELSE u, a)
         /\ Head(m).kind = "token" /\ Came(Head(m)) => Head(m).user = u
<1> DEFINE o == Tail(m)
           v == IF Head(m).kind = "user" THEN Head(m).user ELSE u
<1>1. /\ Len(o) = Len(m) - 1 /\ Head(m) = m[1] /\ Len(m) \in Nat /\ Len(m) >= 1
      /\ \A i \in 1..Len(o) : o[i] = m[i + 1]
  BY MailTail
<1>2. v = IF m[1].kind = "user" THEN m[1].user ELSE u
  BY <1>1
<1> HIDE DEF o, v
<1>3. ASSUME NEW i \in 1..(Len(o) + 1), NEW w, UserBefore(m, u, i + 1, w)
      PROVE  UserBefore(o, v, i, w)
  <2>1. ASSUME \A k \in 1..(i - 1) : o[k].kind # "user"
        PROVE  w = v
    <3>1. ASSUME NEW k \in 2..i PROVE m[k].kind # "user"
      <4>1. k - 1 \in 1..(i - 1) /\ k - 1 \in 1..Len(o) /\ (k - 1) + 1 = k
        BY <1>1
      <4>2. o[k - 1] = m[k]
        BY <1>1, <4>1
      <4> QED  BY <2>1, <4>1, <4>2
    <3>2. CASE m[1].kind = "user"
      <4>1. InForce(m, 1, i + 1) /\ 1 \in 1..(i + 1 - 1)
        BY <3>1, <3>2 DEF InForce
      <4> QED  BY <1>2, <1>3, <3>2, <4>1 DEF UserBefore
    <3>3. CASE m[1].kind # "user"
      <4>1. \A k \in 1..(i + 1 - 1) : m[k].kind # "user"
        BY <3>1, <3>3
      <4> QED  BY <1>2, <1>3, <3>3, <4>1 DEF UserBefore
    <3> QED  BY <3>2, <3>3
  <2>2. ASSUME NEW j \in 1..(i - 1), InForce(o, j, i)
        PROVE  w = o[j].user
    <3>1. j \in 1..Len(o) /\ o[j] = m[j + 1] /\ j + 1 \in 1..(i + 1 - 1)
      BY <1>1
    <3>2. ASSUME NEW k \in (j + 1 + 1)..(i + 1 - 1) PROVE m[k].kind # "user"
      <4>1. k - 1 \in (j + 1)..(i - 1) /\ k - 1 \in 1..Len(o) /\ (k - 1) + 1 = k
        BY <1>1
      <4>2. o[k - 1] = m[k]
        BY <1>1, <4>1
      <4> QED  BY <2>2, <4>1, <4>2 DEF InForce
    <3>3. InForce(m, j + 1, i + 1)
      BY <2>2, <3>1, <3>2 DEF InForce
    <3> QED  BY <1>3, <3>1, <3>3 DEF UserBefore
  <2> QED  BY <2>1, <2>2 DEF UserBefore
<1>4. UserBefore(o, v, Len(o) + 1, a)
  <2>1. UserBefore(m, u, Len(o) + 1 + 1, a)
    BY <1>1 DEF MailOK
  <2> QED  BY <1>1, <1>3, <2>1
<1>5. ASSUME NEW i \in 1..Len(o), o[i].kind = "token", Came(o[i])
      PROVE  UserBefore(o, v, i, o[i].user)
  <2>1. i + 1 \in 1..Len(m) /\ o[i] = m[i + 1] /\ i \in 1..(Len(o) + 1)
    BY <1>1
  <2>2. UserBefore(m, u, i + 1, m[i + 1].user)
    BY <1>5, <2>1 DEF MailOK
  <2> QED  BY <1>3, <2>1, <2>2
<1>6. ASSUME m[1].kind = "token", Came(m[1])
      PROVE  m[1].user = u
  <2>1. UserBefore(m, u, 1, m[1].user)
    BY <1>1, <1>6 DEF MailOK
  <2> QED  BY <2>1 DEF UserBefore
<1> QED  BY <1>1, <1>4, <1>5, <1>6 DEF MailOK, o, v

LEMMA TokensRead ==
  ASSUME NEW s \in StreamType, NEW m \in Seq(MailType), m # <<>>, TokensOK(s, m)
  PROVE  /\ TokensOK(s, Tail(m))
         /\ Head(m).kind = "token" /\ Head(m).count = s.count =>
               /\ s.state = "Starting" /\ s.count \notin s.asked
               /\ \A i \in 1..Len(Tail(m)) :
                     Tail(m)[i].kind = "token" => Tail(m)[i].count < s.count
<1> DEFINE o == Tail(m)
<1>1. /\ Len(o) = Len(m) - 1 /\ Head(m) = m[1] /\ Len(m) \in Nat /\ Len(m) >= 1
      /\ \A i \in 1..Len(o) : o[i] = m[i + 1]
  BY MailTail
<1>2. s.count \in Nat
  BY DEF StreamType
<1>3. ASSUME NEW i \in 1..Len(o)
      PROVE  i + 1 \in 1..Len(m) /\ o[i] = m[i + 1] /\ o[i].count \in Nat
  <2>1. i + 1 \in 1..Len(m) /\ o[i] = m[i + 1]
    BY <1>1
  <2>2. m[i + 1] \in MailType
    BY <2>1, ElementOfSeq
  <2> QED  BY <2>1, <2>2 DEF MailType
<1> HIDE DEF o
<1>4. TokensOK(s, o)
  <2>1. ASSUME NEW i \in 1..Len(o), NEW j \in 1..Len(o),
               o[i].kind = "token", o[i].count = s.count,
               o[j].kind = "token", o[j].count = s.count
        PROVE  i = j
    <3>1. i + 1 = j + 1
      BY <1>3, <2>1 DEF TokensOK
    <3> QED  BY <3>1
  <2> QED  BY <1>3, <2>1 DEF TokensOK
<1>5. ASSUME m[1].kind = "token", m[1].count = s.count
      PROVE  /\ s.state = "Starting" /\ s.count \notin s.asked
             /\ \A i \in 1..Len(o) : o[i].kind = "token" => o[i].count < s.count
  <2>1. 1 \in 1..Len(m)
    BY <1>1
  <2>2. s.state = "Starting" /\ s.count \notin s.asked
    BY <1>5, <2>1 DEF TokensOK
  <2>3. ASSUME NEW i \in 1..Len(o), o[i].kind = "token"
        PROVE  o[i].count < s.count
    <3>1. o[i].count <= s.count
      BY <1>3, <2>3 DEF TokensOK
    <3>2. ASSUME o[i].count = s.count PROVE FALSE
      <4>1. i + 1 = 1
        BY <1>3, <1>5, <2>1, <2>3, <3>2 DEF TokensOK
      <4> QED  BY <4>1
    <3> QED  BY <1>2, <1>3, <3>1, <3>2
  <2> QED  BY <2>2, <2>3
<1> QED  BY <1>1, <1>4, <1>5 DEF o

\* A token comes that the stream has asked for.
LEMMA TokenComes ==
  ASSUME NEW s \in StreamType, NEW m \in Seq(MailType), TokensOK(s, m),
         NEW c \in s.asked, s.asked \subseteq 0..s.count,
         s.count \in s.asked => s.state = "Starting",
         NEW x \in MailType, x.kind = "token", x.count = c,
         NEW t \in StreamType, t = [s EXCEPT !.asked = @ \ {c}]
  PROVE  TokensOK(t, Append(m, x))
<1> DEFINE o == Append(m, x)
<1>1. /\ Len(o) = Len(m) + 1 /\ o[Len(m) + 1] = x /\ Len(m) \in Nat
      /\ \A i \in 1..Len(m) : o[i] = m[i]
  BY MailAppended
<1> HIDE DEF o
<1>2. s.count \in Nat /\ t.count = s.count /\ t.state = s.state /\ t.asked = s.asked \ {c} /\ c <= s.count
  BY DEF StreamType
<1>3. ASSUME NEW i \in 1..Len(o), o[i].kind = "token"
      PROVE  /\ o[i].count <= t.count
             /\ o[i].count = t.count => t.state = "Starting" /\ t.count \notin t.asked
  <2>1. CASE i = Len(m) + 1
    BY <1>1, <1>2, <2>1
  <2>2. CASE i # Len(m) + 1
    <3>1. i \in 1..Len(m) /\ o[i] = m[i]
      BY <1>1, <2>2
    <3> QED  BY <1>2, <1>3, <3>1 DEF TokensOK
  <2> QED  BY <2>1, <2>2
<1>4. ASSUME NEW i \in 1..Len(o), NEW j \in 1..Len(o),
             o[i].kind = "token", o[i].count = t.count,
             o[j].kind = "token", o[j].count = t.count
      PROVE  i = j
  <2>1. CASE i \in 1..Len(m) /\ j \in 1..Len(m)
    BY <1>1, <1>2, <1>4, <2>1 DEF TokensOK
  <2>2. CASE c = s.count
    <3>1. ASSUME NEW k \in 1..Len(m), m[k].kind = "token" PROVE m[k].count # s.count
      BY <2>2, <3>1 DEF TokensOK
    <3>2. i \notin 1..Len(m) /\ j \notin 1..Len(m)
      BY <1>1, <1>2, <1>4, <3>1
    <3> QED  BY <1>1, <3>2
  <2>3. CASE c # s.count
    <3>1. i # Len(m) + 1 /\ j # Len(m) + 1
      BY <1>1, <1>2, <1>4, <2>3
    <3> QED  BY <1>1, <2>1, <3>1
  <2> QED  BY <2>2, <2>3
<1> QED  BY <1>3, <1>4 DEF TokensOK, o
LEMMA MailUsers ==
  ASSUME NEW m \in Seq(MailType), UsersOK(m)
  PROVE  /\ \A x \in MailType : (x.kind = "user" => x.user \in Users) => UsersOK(Append(m, x))
         /\ m # <<>> => UsersOK(Tail(m)) /\ (Head(m).kind = "user" => Head(m).user \in Users)
<1>1. ASSUME NEW x \in MailType, x.kind = "user" => x.user \in Users
      PROVE  UsersOK(Append(m, x))
  <2> DEFINE o == Append(m, x)
  <2>1. /\ Len(o) = Len(m) + 1 /\ o[Len(m) + 1] = x /\ Len(m) \in Nat
        /\ \A i \in 1..Len(m) : o[i] = m[i]
    BY MailAppended
  <2> HIDE DEF o
  <2>2. ASSUME NEW i \in 1..Len(o), o[i].kind = "user" PROVE o[i].user \in Users
    <3>1. CASE i = Len(m) + 1
      BY <1>1, <2>1, <2>2, <3>1
    <3>2. CASE i # Len(m) + 1
      <4>1. i \in 1..Len(m) /\ o[i] = m[i]
        BY <2>1, <3>2
      <4> QED  BY <2>2, <4>1 DEF UsersOK
    <3> QED  BY <3>1, <3>2
  <2> QED  BY <2>2 DEF UsersOK, o
<1>2. ASSUME m # <<>>
      PROVE  UsersOK(Tail(m)) /\ (Head(m).kind = "user" => Head(m).user \in Users)
  <2> DEFINE o == Tail(m)
  <2>1. /\ Len(o) = Len(m) - 1 /\ Head(m) = m[1] /\ Len(m) \in Nat /\ Len(m) >= 1
        /\ \A i \in 1..Len(o) : o[i] = m[i + 1]
    BY <1>2, MailTail
  <2> HIDE DEF o
  <2>2. ASSUME NEW i \in 1..Len(o) PROVE i + 1 \in 1..Len(m) /\ o[i] = m[i + 1]
    BY <2>1
  <2>3. 1 \in 1..Len(m)
    BY <2>1
  <2> QED  BY <2>1, <2>2, <2>3 DEF UsersOK, o
<1> QED  BY <1>1, <1>2

LEMMA UserComes ==
  ASSUME NEW s \in StreamType, NEW m \in Seq(MailType), TokensOK(s, m),
         NEW x \in MailType, x.kind = "user"
  PROVE  TokensOK(s, Append(m, x))
<1> DEFINE o == Append(m, x)
<1>1. /\ Len(o) = Len(m) + 1 /\ o[Len(m) + 1] = x /\ Len(m) \in Nat
      /\ \A i \in 1..Len(m) : o[i] = m[i]
  BY MailAppended
<1> HIDE DEF o
<1>2. ASSUME NEW i \in 1..Len(o), o[i].kind = "token"
      PROVE  i \in 1..Len(m) /\ o[i] = m[i]
  BY <1>1, <1>2
<1> QED  BY <1>2 DEF TokensOK, o

-----------------------------------------------------------------------------
(* The call.                                                               *)

\* What has been said of the pipeline stays true when the pipeline grows.
LEMMA AnswersKept ==
  ASSUME NEW n, NEW m, NEW q \in Seq(Batch), NetOK(n, q), NetOK(m, q), SameCall(n, m),
         Len(n.pipe) <= Len(m.pipe), NEW c, NEW r, AnswersOf(n, c, r)
  PROVE  AnswersOf(m, c, r)
<1> SUFFICES ASSUME Shaken(m)
             PROVE  /\ \A i \in 1..Len(m.replies) : m.pipe[i].w \in c
                    /\ m.refusal => m.pipe[Len(m.replies) + 1].w \in r
  BY DEF AnswersOf
<1> DEFINE nr == Len(n.replies)
           nw == Len(n.wire)
           np == Len(n.pipe)
           mp == Len(m.pipe)
<1>1. Shaken(n) /\ m.replies = n.replies /\ m.refusal = n.refusal
  BY DEF SameCall, Shaken
<1>2. nr \in Nat /\ nw \in Nat /\ np \in Nat /\ mp \in Nat /\ np <= mp
  BY StreamOf DEF NetOK
<1>3. (~n.refusal => nr + nw = np) /\ (n.refusal => nr + nw < np)
  BY <1>1 DEF NetOK, CallOK, Matches
<1>4. \A i \in 1..np : n.pipe[i] = q[i]
  BY DEF NetOK, PipeIsFront
<1>5. \A i \in 1..mp : m.pipe[i] = q[i]
  BY DEF NetOK, PipeIsFront
<1>6. /\ \A i \in 1..nr : n.pipe[i].w \in c
      /\ n.refusal => n.pipe[nr + 1].w \in r
  BY <1>1 DEF AnswersOf
<1> HIDE DEF nr, nw, np, mp
<1>7. \A i \in 1..np : i \in 1..mp /\ m.pipe[i] = n.pipe[i]
  BY <1>2, <1>4, <1>5
<1>8. nr <= np /\ (n.refusal => nr + 1 \in 1..np)
  BY <1>2, <1>3
<1>9. \A i \in 1..nr : m.pipe[i].w \in c
  BY <1>2, <1>6, <1>7, <1>8
<1>10. n.refusal => m.pipe[nr + 1].w \in r
  BY <1>6, <1>7, <1>8
<1> QED  BY <1>1, <1>9, <1>10 DEF nr

\* The state after a start with a token: the handshake is on its way.
LEMMA ResumeOK ==
  ASSUME NEW n, NEW q \in Seq(Batch), NetOK(n, q), n.stream.state = "Starting",
         ~n.handshake, n.stream.count \notin n.stream.asked, NEW u \in Users
  PROVE  LET m == Send([n EXCEPT !.stream = ResumeStart(@), !.as = u], <<Handshake>>)
         IN  /\ NetOK(m, q) /\ ~m.handshake /\ IsOpen(m.stream) /\ m.as = u
             /\ m.stream.count = n.stream.count /\ m.stream.asked = n.stream.asked
             /\ m.stream.state = "Open"
<1> DEFINE s == ResumeStart(n.stream)
           t == Write(s)
           hello == <<Handshake>>
           m == Send([n EXCEPT !.stream = ResumeStart(@), !.as = u], <<Handshake>>)
<1>1. /\ n \in NetType /\ n.stream \in StreamType /\ ~IsOpen(n.stream) /\ ~n.stream.idle
      /\ ~n.stream.backoff /\ n.stream.ok /\ IsStarted(n.stream) /\ ~Shaken(n)
      /\ n.wire = <<>> /\ n.replies = <<>> /\ ~n.refusal
      /\ n.pipe # <<>> /\ n.enabled
  BY StreamOf DEF NetOK, StreamOK, CallOK, IsOpen, IsStarted, Shaken
<1>2. s = [n.stream EXCEPT !.state = "Open"]
  <2>1. HardAssert(n.stream, n.stream.state = "Starting") = n.stream
    BY <1>1 DEF HardAssert, StreamType
  <2> QED  BY <2>1 DEF ResumeStart
<1>3. s \in StreamType /\ IsOpen(s)
  BY <1>1, <1>2 DEF StreamType, IsOpen
<1>4. t \in StreamType /\ t = [s EXCEPT !.idle = FALSE]
  BY <1>3, WriteEffect
<1>5. /\ t.state = "Open" /\ t.ok = n.stream.ok /\ t.count = n.stream.count
      /\ t.asked = n.stream.asked /\ ~t.backoff /\ ~t.idle
  BY <1>1, <1>2, <1>4 DEF StreamType
<1>6. hello \in Seq(Messages) /\ hello # <<>> /\ n.wire \o hello = hello
  <2>1. Handshake \in Messages
    BY DEF Messages
  <2>2. hello \in Seq(Messages)
    BY <2>1
  <2>3. hello # <<>>
    BY EmptySeq
  <2>4. n.wire \o hello = hello
    BY <1>1, <2>2, ConcatEmptySeq
  <2> QED  BY <2>2, <2>3, <2>4
<1>7. m = [n EXCEPT !.stream = t, !.as = u, !.wire = hello]
  <2> DEFINE k == [n EXCEPT !.stream = s, !.as = u]
  <2>1. k.stream = s /\ k.wire = n.wire
    BY <1>1 DEF NetType
  <2>2. m = [k EXCEPT !.stream = Write(@), !.wire = @ \o hello]
    BY <1>6 DEF Send
  <2>3. m = [k EXCEPT !.stream = t, !.wire = hello]
    BY <1>6, <2>1, <2>2
  <2> QED  BY <1>1, <2>3 DEF NetType
<1> HIDE DEF hello, t, m
<1>8. /\ m \in NetType /\ m.stream = t /\ m.as = u /\ m.wire = hello
      /\ m.pipe = n.pipe /\ m.replies = n.replies /\ m.refusal = n.refusal
      /\ m.handshake = n.handshake /\ m.enabled = n.enabled
  BY <1>1, <1>4, <1>6, <1>7 DEF NetType
<1>9. ~Shaken(m) /\ IsOpen(m.stream) /\ IsStarted(m.stream)
  BY <1>5, <1>8 DEF Shaken, IsOpen, IsStarted
<1>10. StreamOK(m)
  BY <1>1, <1>5, <1>8, <1>9 DEF StreamOK, NetOK
<1>11. CallOK(m)
  BY <1>1, <1>8, <1>9 DEF CallOK, hello
<1>12. PipeIsFront(m, q)
  BY <1>8 DEF PipeIsFront, NetOK
<1> QED  BY <1>5, <1>8, <1>9, <1>10, <1>11, <1>12 DEF NetOK, m

\* The first reply: the whole pipeline is sent.
LEMMA ShakenOK ==
  ASSUME NEW n, NEW q \in Seq(Batch), NetOK(n, q), n.replies # <<>>, ~n.handshake
  PROVE  LET m == Send([n EXCEPT !.replies = Tail(@), !.handshake = TRUE], WritesOf(n.pipe))
         IN  /\ NetOK(m, q) /\ IsOpen(m.stream) /\ m.as = n.as
             /\ m.replies = <<>> /\ ~m.refusal
             /\ m.stream.count = n.stream.count /\ m.stream.state = "Open"
             /\ IsOpen(n.stream) /\ m.stream.asked = n.stream.asked
<1> DEFINE t == Write(n.stream)
           ws == WritesOf(n.pipe)
           rest == Tail(n.replies)
           m == Send([n EXCEPT !.replies = Tail(@), !.handshake = TRUE], WritesOf(n.pipe))
<1>1. /\ n \in NetType /\ n.stream \in StreamType /\ IsOpen(n.stream) /\ IsStarted(n.stream)
      /\ ~Shaken(n) /\ n.wire = <<>> /\ n.replies = <<Handshake>> /\ ~n.refusal
      /\ n.pipe # <<>> /\ n.enabled /\ n.pipe \in Seq(Batch)
  BY StreamOf DEF NetOK, StreamOK, CallOK, IsOpen, IsStarted, Shaken
<1>2. rest = <<>> /\ rest \in Seq(Messages)
  BY <1>1, EmptySeq
<1>3. t \in StreamType /\ t = [n.stream EXCEPT !.idle = FALSE]
  BY <1>1, WriteEffect
<1>4. /\ t.state = "Open" /\ t.ok = n.stream.ok /\ t.count = n.stream.count
      /\ t.asked = n.stream.asked /\ t.backoff = n.stream.backoff /\ ~t.idle
  BY <1>1, <1>3 DEF StreamType, IsOpen
<1>5. /\ ws \in Seq(Messages) /\ ws # <<>> /\ n.wire \o ws = ws
      /\ Matches(<<>>, ws, n.pipe, FALSE)
  <2>1. ws \in Seq(Messages) /\ Len(ws) = Len(n.pipe)
    BY <1>1, WritesOfSeq
  <2>2. ws # <<>>
    BY <1>1, <2>1, EmptySeq
  <2>3. n.wire \o ws = ws
    BY <1>1, <2>1, ConcatEmptySeq
  <2> QED  BY <1>1, <2>1, <2>2, <2>3, MatchesAll
<1> HIDE DEF ws, rest
<1>6. m = [n EXCEPT !.stream = t, !.replies = rest, !.handshake = TRUE, !.wire = ws]
  <2> DEFINE k == [n EXCEPT !.replies = rest, !.handshake = TRUE]
  <2>1. k.stream = n.stream /\ k.wire = n.wire
    BY <1>1 DEF NetType
  <2>2. m = [k EXCEPT !.stream = Write(@), !.wire = @ \o ws]
    BY <1>5 DEF Send, ws, rest
  <2>3. m = [k EXCEPT !.stream = t, !.wire = ws]
    BY <1>5, <2>1, <2>2
  <2> QED  BY <1>1, <2>3 DEF NetType
<1> HIDE DEF t, m
<1>7. /\ m \in NetType /\ m.stream = t /\ m.as = n.as /\ m.wire = ws
      /\ m.pipe = n.pipe /\ m.replies = rest /\ m.refusal = n.refusal
      /\ m.handshake /\ m.enabled = n.enabled
  BY <1>1, <1>2, <1>3, <1>5, <1>6 DEF NetType
<1>8. Shaken(m) /\ IsOpen(m.stream)
  BY <1>4, <1>7 DEF Shaken, IsOpen
<1>9. StreamOK(m)
  BY <1>1, <1>4, <1>7, <1>8 DEF StreamOK, NetOK, IsOpen
<1>10. CallOK(m)
  <2>1. m.refusal = FALSE
    BY <1>1, <1>7 DEF NetType
  <2>2. Matches(m.replies, m.wire, m.pipe, m.refusal)
    BY <1>2, <1>5, <1>7, <2>1
  <2> QED  BY <1>7, <1>8, <2>1, <2>2 DEF CallOK
<1>11. PipeIsFront(m, q)
  BY <1>7 DEF PipeIsFront, NetOK
<1> QED  BY <1>1, <1>2, <1>4, <1>7, <1>8, <1>9, <1>10, <1>11 DEF NetOK, m
\* The message at the front of the call: the handshake, or the first write of
\* the pipeline that is not answered.
LEMMA FrontOfCall ==
  ASSUME NEW n, NEW q \in Seq(Batch), NetOK(n, q), n.wire # <<>>, ~n.refusal
  PROVE  /\ IsOpen(n.stream) /\ Head(n.wire) \in Messages /\ Tail(n.wire) \in Seq(Messages)
         /\ \/ /\ ~n.handshake /\ n.wire = <<Handshake>> /\ n.replies = <<>>
               /\ Head(n.wire) = Handshake
            \/ /\ n.handshake /\ Matches(n.replies, n.wire, n.pipe, FALSE)
               /\ Len(n.replies) + 1 \in 1..Len(n.pipe)
               /\ Head(n.wire) = n.pipe[Len(n.replies) + 1].w
               /\ Head(n.wire) \in WriteNames /\ Head(n.wire) # Handshake
<1>1. /\ n \in NetType /\ n.pipe \in Seq(Batch) /\ n.wire \in Seq(Messages)
      /\ n.replies \in Seq(Messages) /\ n.refusal = FALSE
  BY StreamOf DEF NetOK, NetType
<1>2. IsOpen(n.stream)
  BY DEF NetOK, CallOK
<1>3. Head(n.wire) \in Messages /\ Tail(n.wire) \in Seq(Messages)
  BY <1>1, HeadTailProperties
<1>4. CASE ~n.handshake
  <2>1. n.wire = <<Handshake>> /\ n.replies = <<>>
    BY <1>2, <1>4 DEF NetOK, CallOK
  <2>2. Head(n.wire) = Handshake
    BY <2>1
  <2> QED  BY <1>2, <1>3, <1>4, <2>1, <2>2
<1>5. CASE n.handshake
  <2>1. Matches(n.replies, n.wire, n.pipe, FALSE)
    BY <1>1, <1>2, <1>5 DEF NetOK, CallOK, Shaken
  <2>2. /\ Len(n.replies) + 1 \in 1..Len(n.pipe)
        /\ Head(n.wire) = n.pipe[Len(n.replies) + 1].w
    BY <1>1, <2>1, MatchesReply
  <2> DEFINE k == Len(n.replies) + 1
  <2>3. k \in 1..Len(n.pipe)
    BY <2>2
  <2> HIDE DEF k
  <2>4. n.pipe[k].w \in WriteNames
    BY <1>1, <2>3, BatchOf
  <2>5. Head(n.wire) \in WriteNames /\ Head(n.wire) # Handshake
    BY <2>2, <2>4, WritesAssumption DEF k, WriteNames, Handshake
  <2> QED  BY <1>2, <1>3, <1>5, <2>1, <2>2, <2>5
<1> QED  BY <1>1, <1>4, <1>5 DEF NetType

LEMMA ReplyOK ==
  ASSUME NEW n, NEW q \in Seq(Batch), NetOK(n, q), n.wire # <<>>, ~n.refusal
  PROVE  LET m == [n EXCEPT !.wire = Tail(@), !.replies = Append(@, Head(n.wire))]
         IN  /\ NetOK(m, q) /\ m.stream = n.stream /\ m.as = n.as
             /\ m.handshake = n.handshake /\ m.pipe = n.pipe /\ ~m.refusal
             /\ m.replies = Append(n.replies, Head(n.wire))
<1> DEFINE w == Tail(n.wire)
           r == Append(n.replies, Head(n.wire))
           m == [n EXCEPT !.wire = w, !.replies = r]
<1>1. /\ n \in NetType /\ n.pipe \in Seq(Batch) /\ n.wire \in Seq(Messages)
      /\ n.replies \in Seq(Messages)
  BY StreamOf DEF NetOK
<1>2. /\ IsOpen(n.stream) /\ Head(n.wire) \in Messages /\ w \in Seq(Messages)
      /\ \/ ~n.handshake /\ n.wire = <<Handshake>> /\ n.replies = <<>>
         \/ n.handshake /\ Matches(n.replies, n.wire, n.pipe, FALSE)
  BY FrontOfCall
<1>3. r \in Seq(Messages)
  BY <1>1, <1>2, AppendProperties
<1>4. \/ ~n.handshake /\ w = <<>> /\ r = <<Handshake>>
      \/ n.handshake /\ Matches(r, w, n.pipe, FALSE)
  <2>1. CASE ~n.handshake /\ n.wire = <<Handshake>> /\ n.replies = <<>>
    <3>1. w = <<>>
      BY <2>1, EmptySeq
    <3>2. r = <<Handshake>>
      BY <2>1
    <3> QED  BY <2>1, <3>1, <3>2
  <2>2. CASE n.handshake /\ Matches(n.replies, n.wire, n.pipe, FALSE)
    BY <1>1, <2>2, MatchesReply
  <2> QED  BY <1>2, <2>1, <2>2
<1> HIDE DEF w, r
<1>5. /\ m \in NetType /\ m.stream = n.stream /\ m.as = n.as /\ m.handshake = n.handshake
      /\ m.pipe = n.pipe /\ m.refusal = n.refusal /\ m.enabled = n.enabled
      /\ m.wire = w /\ m.replies = r
  BY <1>1, <1>2, <1>3 DEF NetType
<1>6. m.refusal = FALSE
  BY <1>1, <1>5 DEF NetType
<1> HIDE DEF m
<1>7. Shaken(m) <=> Shaken(n)
  BY <1>5 DEF Shaken
<1>8. StreamOK(m) /\ PipeIsFront(m, q)
  BY <1>5, <1>7 DEF StreamOK, PipeIsFront, NetOK
<1>9. CallOK(m)
  <2>1. CASE ~n.handshake /\ w = <<>> /\ r = <<Handshake>>
    BY <1>2, <1>5, <1>6, <2>1 DEF CallOK, Shaken
  <2>2. CASE n.handshake /\ Matches(r, w, n.pipe, FALSE)
    <3>1. Matches(m.replies, m.wire, m.pipe, m.refusal)
      BY <1>5, <1>6, <2>2
    <3> QED  BY <1>2, <1>5, <1>6, <2>2, <3>1 DEF CallOK
  <2> QED  BY <1>4, <2>1, <2>2
<1> QED  BY <1>5, <1>6, <1>8, <1>9 DEF NetOK, m, w, r

LEMMA RefuseOK ==
  ASSUME NEW n, NEW q \in Seq(Batch), NetOK(n, q), n.wire # <<>>, ~n.refusal,
         Head(n.wire) # Handshake
  PROVE  LET m == [n EXCEPT !.wire = <<>>, !.refusal = TRUE]
         IN  /\ NetOK(m, q) /\ m.stream = n.stream /\ m.as = n.as
             /\ m.handshake = n.handshake /\ m.pipe = n.pipe /\ m.refusal
             /\ m.replies = n.replies
<1> DEFINE none == <<>>
           m == [n EXCEPT !.wire = none, !.refusal = TRUE]
<1>1. /\ n \in NetType /\ n.pipe \in Seq(Batch) /\ n.wire \in Seq(Messages)
      /\ n.replies \in Seq(Messages) /\ none \in Seq(Messages)
  BY StreamOf, EmptySeq DEF NetOK
<1>2. IsOpen(n.stream) /\ n.handshake /\ Matches(n.replies, n.wire, n.pipe, FALSE)
  BY FrontOfCall
<1>3. Matches(n.replies, none, n.pipe, TRUE)
  BY <1>1, <1>2, MatchesRefusal
<1> HIDE DEF none
<1>5. /\ m \in NetType /\ m.stream = n.stream /\ m.as = n.as /\ m.handshake = n.handshake
      /\ m.pipe = n.pipe /\ m.refusal = TRUE /\ m.enabled = n.enabled
      /\ m.wire = none /\ m.replies = n.replies
  BY <1>1 DEF NetType
<1> HIDE DEF m
<1>7. Shaken(m) /\ Shaken(n)
  BY <1>2, <1>5 DEF Shaken
<1>8. StreamOK(m) /\ PipeIsFront(m, q)
  BY <1>5, <1>7 DEF StreamOK, PipeIsFront, NetOK
<1>9. CallOK(m)
  <2>1. Matches(m.replies, m.wire, m.pipe, m.refusal)
    BY <1>3, <1>5
  <2> QED  BY <1>2, <1>5, <1>7, <2>1 DEF CallOK
<1> QED  BY <1>5, <1>8, <1>9 DEF NetOK, m, none

LEMMA BackoffOK ==
  ASSUME NEW n, NEW q \in Seq(Batch), NetOK(n, q), n.stream.backoff
  PROVE  LET m == [n EXCEPT !.stream = BackoffElapsed(@)]
         IN  /\ NetOK(m, q) /\ m.handshake = n.handshake /\ ~IsOpen(m.stream)
             /\ ~IsOpen(n.stream) /\ Calm(n.stream, m.stream)
<1> DEFINE s == n.stream
           b == [s EXCEPT !.state = "Initial", !.backoff = FALSE]
           t == Start(b)
           m == [n EXCEPT !.stream = t]
<1>1. /\ n \in NetType /\ s \in StreamType /\ s.state = "Backoff" /\ s.ok /\ ~s.idle
      /\ s.asked \subseteq 0..s.count /\ ~IsOpen(s) /\ IsStarted(s)
      /\ n.pipe # <<>> /\ n.enabled /\ n.wire = <<>> /\ n.replies = <<>> /\ ~n.refusal
  BY StreamOf DEF NetOK, StreamOK, CallOK, IsOpen, IsStarted, Shaken
<1>2. HardAssert(s, s.state = "Backoff") = s
  BY <1>1 DEF HardAssert, StreamType
<1>3. /\ b \in StreamType /\ ~b.backoff /\ b.state = "Initial" /\ b.ok /\ ~b.idle
      /\ b.count = s.count /\ b.asked = s.asked
  BY <1>1 DEF StreamType
<1> HIDE DEF b
<1>4. BackoffElapsed(s) = t
  BY <1>2, <1>3 DEF BackoffElapsed, Start, b
<1>5. /\ t \in StreamType /\ t.ok /\ ~t.idle /\ t.count = s.count
      /\ t.asked \subseteq 0..t.count
      /\ \/ t.state = "Backoff" /\ t.asked = s.asked
         \/ t.state = "Starting" /\ ~t.backoff
  BY <1>1, <1>3, StartEffect DEF IsStarted
<1> HIDE DEF t
<1>6. /\ m \in NetType /\ m.stream = t /\ m.pipe = n.pipe /\ m.handshake = n.handshake
      /\ m.enabled = n.enabled /\ m.wire = n.wire /\ m.replies = n.replies
      /\ m.refusal = n.refusal
  BY <1>1, <1>5 DEF NetType
<1> HIDE DEF m
<1>7. ~IsOpen(m.stream) /\ ~Shaken(m)
  BY <1>5, <1>6 DEF IsOpen, Shaken
<1>8. s.count \notin s.asked
  BY <1>1 DEF NetOK, StreamOK
<1>9. StreamOK(m)
  BY <1>1, <1>5, <1>6, <1>7, <1>8 DEF StreamOK
<1>10. CallOK(m) /\ PipeIsFront(m, q)
  BY <1>1, <1>6, <1>7 DEF CallOK, PipeIsFront, NetOK
<1>11. Calm(n.stream, m.stream)
  BY <1>1, <1>5, <1>6 DEF Calm
<1>12. m = [n EXCEPT !.stream = BackoffElapsed(@)]
  BY <1>4 DEF m
<1> QED  BY <1>1, <1>6, <1>7, <1>9, <1>10, <1>11, <1>12 DEF NetOK
\* The batch at the front of a queue is found there, and leaves the rest.
LEMMA FrontRemoved ==
  ASSUME NEW q \in Seq(Batch), q # <<>>, InOrder(q)
  PROVE  /\ Len(q) \in Nat /\ Len(q) >= 1 /\ Head(q) = q[1]
         /\ HasBatch(q, Head(q).id) /\ RemoveAt(q, Seek(q, Head(q).id)) = Tail(q)
         /\ Tail(q) \in Seq(Batch) /\ Len(Tail(q)) = Len(q) - 1 /\ InOrder(Tail(q))
         /\ \A i \in 1..Len(Tail(q)) : Tail(q)[i] = q[i + 1]
         /\ \A i \in 2..Len(q) : q[i].id # Head(q).id
<1>1. Len(q) \in Nat /\ Len(q) >= 1 /\ Head(q) = q[1] /\ 1 \in 1..Len(q)
  BY HeadTailProperties, EmptySeq
<1>2. /\ Tail(q) \in Seq(Batch) /\ Len(Tail(q)) = Len(q) - 1
      /\ \A i \in 1..Len(Tail(q)) : Tail(q)[i] = q[i + 1]
  BY <1>1, HeadTailProperties
<1>3. HasBatch(q, Head(q).id)
  BY <1>1 DEF HasBatch
<1>4. \A i \in 1..Len(q) : q[i].id \in Nat
  BY BatchOf
<1>5. \A i \in 1..Len(q) : q[i].id <= q[1].id <=> i <= 1
  BY <1>1, <1>4 DEF InOrder
<1>6. Seek(q, Head(q).id) = 1
  <2>1. 1 \in 0..Len(q) /\ q[1].id \in Nat
    BY <1>1, <1>4
  <2> QED  BY <1>1, <1>5, <2>1, SeekFinds
<1>7. RemoveAt(q, 1) = Tail(q)
  <2>1. RemoveAt(q, 1) = SubSeq(q, 1, 0) \o SubSeq(q, 2, Len(q))
    BY DEF RemoveAt
  <2>2. SubSeq(q, 1, 0) = <<>>
    BY <1>1
  <2>3. SubSeq(q, 2, Len(q)) = Tail(q)
    BY <1>1
  <2> QED  BY <1>2, <2>1, <2>2, <2>3, ConcatEmptySeq
<1>8. InOrder(Tail(q))
  <2>1. ASSUME NEW i \in 1..Len(Tail(q)) PROVE i + 1 \in 1..Len(q) /\ Tail(q)[i] = q[i + 1]
    BY <1>1, <1>2
  <2> QED  BY <2>1 DEF InOrder
<1>9. ASSUME NEW i \in 2..Len(q) PROVE q[i].id # Head(q).id
  <2>1. i \in 1..Len(q) /\ q[1].id < q[i].id
    BY <1>1 DEF InOrder
  <2> QED  BY <1>1, <1>4, <2>1
<1> QED  BY <1>1, <1>2, <1>3, <1>6, <1>7, <1>8, <1>9

\* The state in which RemoteStore has read a result, before it goes on: a batch
\* is in the pipeline and at the front of the queue, and it is the one that the
\* reply is for.
LEMMA ResultRead ==
  ASSUME NEW n, NEW q \in Seq(Batch), NetOK(n, q), InOrder(q), n.replies # <<>>, n.handshake
  PROVE  LET m == [n EXCEPT !.replies = Tail(@), !.pipe = Tail(@),
                            !.stream = HardAssert(@, HasBatch(q, Head(n.pipe).id))]
         IN  /\ n.pipe # <<>> /\ q # <<>> /\ Head(n.pipe) = Head(q) /\ IsOpen(n.stream)
             /\ NetOK(m, Tail(q)) /\ m.stream = n.stream /\ m.as = n.as
             /\ m.handshake = n.handshake
             /\ \A c, r : AnswersOf(n, c, r) => Head(q).w \in c /\ AnswersOf(m, c, r)
<1> DEFINE rest == Tail(n.replies)
           p == Tail(n.pipe)
           s == HardAssert(n.stream, HasBatch(q, Head(n.pipe).id))
           m == [n EXCEPT !.replies = rest, !.pipe = p, !.stream = s]
<1>1. /\ n \in NetType /\ n.stream \in StreamType /\ n.pipe \in Seq(Batch) /\ n.wire \in Seq(Messages)
      /\ n.replies \in Seq(Messages) /\ n.refusal \in BOOLEAN
      /\ Len(n.pipe) \in Nat /\ Len(n.replies) \in Nat
  BY StreamOf DEF NetOK, NetType
<1>2. Shaken(n) /\ IsOpen(n.stream)
  BY DEF NetOK, CallOK, Shaken
<1>3. n.pipe # <<>> /\ Matches(rest, n.wire, p, n.refusal)
  <2>1. Matches(n.replies, n.wire, n.pipe, n.refusal)
    BY <1>2 DEF NetOK, CallOK
  <2> QED  BY <1>1, <2>1, MatchesResult
<1>4. /\ rest \in Seq(Messages) /\ Len(rest) = Len(n.replies) - 1 /\ Len(n.replies) >= 1
      /\ p \in Seq(Batch) /\ Len(p) = Len(n.pipe) - 1 /\ Len(n.pipe) >= 1
      /\ \A i \in 1..Len(p) : p[i] = n.pipe[i + 1]
      /\ Head(n.pipe) = n.pipe[1]
  BY <1>1, <1>3, HeadTailProperties, EmptySeq
<1>5. Len(q) \in Nat /\ Len(n.pipe) <= Len(q) /\ n.pipe[1] = q[1] /\ q # <<>>
  BY <1>1, <1>4, EmptySeq DEF NetOK, PipeIsFront
<1>6. /\ Head(q) = q[1] /\ HasBatch(q, Head(q).id)
      /\ Len(Tail(q)) = Len(q) - 1
      /\ \A i \in 1..Len(Tail(q)) : Tail(q)[i] = q[i + 1]
  BY <1>5, FrontRemoved
<1>7. s = n.stream
  BY <1>1, <1>4, <1>5, <1>6 DEF HardAssert, StreamType
<1> HIDE DEF rest, p, s
<1>8. /\ m \in NetType /\ m.stream = n.stream /\ m.as = n.as /\ m.handshake = n.handshake
      /\ m.enabled = n.enabled /\ m.refusal = n.refusal /\ m.wire = n.wire
      /\ m.replies = rest /\ m.pipe = p
  BY <1>1, <1>4, <1>7 DEF NetType
<1> HIDE DEF m
<1>9. Shaken(m)
  BY <1>2, <1>8 DEF Shaken
<1>10. PipeIsFront(m, Tail(q))
  <2>1. Len(p) <= Len(Tail(q))
    BY <1>1, <1>4, <1>5, <1>6
  <2>2. ASSUME NEW i \in 1..Len(p) PROVE p[i] = Tail(q)[i]
    <3>1. i + 1 \in 1..Len(n.pipe) /\ i \in 1..Len(Tail(q))
      BY <1>1, <1>4, <1>5, <1>6
    <3>2. n.pipe[i + 1] = q[i + 1]
      BY <3>1 DEF NetOK, PipeIsFront
    <3> QED  BY <1>4, <1>6, <3>1, <3>2
  <2> QED  BY <1>8, <2>1, <2>2 DEF PipeIsFront
<1>11. StreamOK(m)
  BY <1>3, <1>8, <1>9 DEF StreamOK, NetOK
<1>12. CallOK(m)
  <2>1. Matches(m.replies, m.wire, m.pipe, m.refusal)
    BY <1>3, <1>8
  <2> QED  BY <1>2, <1>8, <1>9, <2>1 DEF CallOK, Shaken
<1>13. ASSUME NEW c, NEW r, AnswersOf(n, c, r)
       PROVE  Head(q).w \in c /\ AnswersOf(m, c, r)
  <2>1. \A i \in 1..Len(n.replies) : n.pipe[i].w \in c
    BY <1>2, <1>13 DEF AnswersOf
  <2>2. 1 \in 1..Len(n.replies)
    BY <1>1, <1>4
  <2>3. Head(q).w \in c
    BY <1>5, <1>6, <2>1, <2>2
  <2>4. Len(n.replies) <= Len(n.pipe) /\ (n.refusal => Len(n.replies) + 1 <= Len(n.pipe))
    <3>1. Matches(n.replies, n.wire, n.pipe, n.refusal)
      BY <1>2 DEF NetOK, CallOK
    <3> DEFINE nr == Len(n.replies)
               nw == Len(n.wire)
               np == Len(n.pipe)
    <3>2. nr \in Nat /\ nw \in Nat /\ np \in Nat
      BY <1>1
    <3>3. (~n.refusal => nr + nw = np) /\ (n.refusal => nr + nw < np)
      BY <3>1 DEF Matches
    <3> HIDE DEF nr, nw, np
    <3>4. nr <= np /\ (n.refusal => nr + 1 <= np)
      BY <3>2, <3>3
    <3> QED  BY <3>4 DEF nr, np
  <2>5. ASSUME NEW i \in 1..Len(rest) PROVE p[i].w \in c
    <3>1. i + 1 \in 1..Len(n.replies) /\ i \in 1..Len(p)
      BY <1>1, <1>4, <2>4
    <3> QED  BY <1>4, <2>1, <3>1
  <2>6. ASSUME n.refusal PROVE p[Len(rest) + 1].w \in r
    <3> DEFINE k == Len(n.replies)
    <3>1. n.pipe[k + 1].w \in r
      BY <1>2, <1>13, <2>6 DEF AnswersOf
    <3>2. k \in 1..Len(p) /\ Len(rest) + 1 = k
      BY <1>1, <1>4, <2>4, <2>6
    <3> QED  BY <1>4, <3>1, <3>2
  <2> QED  BY <1>8, <2>3, <2>5, <2>6 DEF AnswersOf
<1> QED  BY <1>2, <1>3, <1>4, <1>5, <1>6, <1>8, <1>10, <1>11, <1>12, <1>13 DEF NetOK, m, rest, p, s
\* A refused write is in the pipeline, behind those replied to.
LEMMA RefusedIsThere ==
  ASSUME NEW n, n \in NetType, CallOK(n), Shaken(n), n.refusal
  PROVE  /\ Len(n.replies) \in Nat /\ Len(n.pipe) \in Nat
         /\ Len(n.replies) < Len(n.pipe)
<1> DEFINE nr == Len(n.replies)
           nw == Len(n.wire)
           np == Len(n.pipe)
<1>1. nr \in Nat /\ nw \in Nat /\ np \in Nat
  BY LenProperties DEF NetType
<1>2. Matches(n.replies, n.wire, n.pipe, n.refusal)
  BY DEF CallOK
<1>3. nr + nw < np
  BY <1>2 DEF Matches
<1> HIDE DEF nr, nw, np
<1>4. nr < np
  BY <1>1, <1>3
<1> QED  BY <1>1, <1>4 DEF nr, np

\* The state in which RemoteStore has taken a refusal for the front of the
\* pipeline, and has gone on with the rest on a new stream.
LEMMA RejectionRead ==
  ASSUME NEW n, NEW q \in Seq(Batch), NetOK(n, q), InOrder(q), n.refusal
  PROVE  LET read == [Closed(n, FALSE) EXCEPT !.pipe = Tail(@),
                          !.stream = HardAssert(InhibitBackoff(@), HasBatch(q, Head(n.pipe).id))]
             m == [StartIfNeeded(FillWritePipeline(read, Tail(q))) EXCEPT !.handshake = FALSE]
         IN  /\ n.pipe # <<>> /\ q # <<>> /\ Head(n.pipe) = Head(q) /\ n.handshake
             /\ NetOK(m, Tail(q)) /\ ~m.handshake /\ ~IsOpen(m.stream)
             /\ Calm(n.stream, m.stream)
             /\ \A c, r : AnswersOf(n, c, r) => RefusedIn(q, c, r)
<1> DEFINE x == Closed(n, FALSE)
           p == Tail(n.pipe)
           s == HardAssert(InhibitBackoff(x.stream), HasBatch(q, Head(n.pipe).id))
           read == [x EXCEPT !.pipe = Tail(x.pipe), !.stream = s]
           g == FillWritePipeline(read, Tail(q))
           h == StartIfNeeded(g)
           m == [h EXCEPT !.handshake = FALSE]
<1>1. /\ n \in NetType /\ n.stream \in StreamType /\ n.pipe \in Seq(Batch) /\ n.wire \in Seq(Messages)
      /\ Len(n.pipe) \in Nat /\ n.stream.count \in Nat
  BY StreamOf DEF NetOK
<1>2. Shaken(n) /\ n.handshake /\ IsStarted(n.stream) /\ n.stream.ok
      /\ n.stream.asked \subseteq 0..n.stream.count
  BY DEF NetOK, CallOK, StreamOK, Shaken, IsOpen, IsStarted
<1>3. Len(n.pipe) >= 1 /\ n.pipe # <<>>
  <2>1. Len(n.replies) \in Nat /\ Len(n.replies) < Len(n.pipe)
    BY <1>1, <1>2, RefusedIsThere DEF NetOK
  <2>2. Len(n.pipe) >= 1
    BY <1>1, <2>1
  <2> QED  BY <2>2, EmptySeq
<1>4. /\ p \in Seq(Batch) /\ Len(p) = Len(n.pipe) - 1
      /\ \A i \in 1..Len(p) : p[i] = n.pipe[i + 1]
      /\ Head(n.pipe) = n.pipe[1]
  BY <1>1, <1>3, HeadTailProperties
<1>5. Len(q) \in Nat /\ Len(n.pipe) <= Len(q) /\ n.pipe[1] = q[1] /\ q # <<>>
  BY <1>1, <1>3, EmptySeq DEF NetOK, PipeIsFront
<1>6. /\ Head(q) = q[1] /\ HasBatch(q, Head(q).id)
      /\ Tail(q) \in Seq(Batch) /\ InOrder(Tail(q))
      /\ Len(Tail(q)) = Len(q) - 1
      /\ \A i \in 1..Len(Tail(q)) : Tail(q)[i] = q[i + 1]
  BY <1>5, FrontRemoved
<1>7. /\ AtRest(x) /\ x.stream.count > n.stream.count
      /\ x.pipe = n.pipe /\ x.enabled = n.enabled /\ x.handshake = n.handshake
  BY <1>1, <1>2, ClosedEffect
<1> HIDE DEF x
<1>8. x \in NetType /\ x.stream \in StreamType
  BY <1>7, StreamOf DEF AtRest
<1>9. s = [x.stream EXCEPT !.state = "Initial"]
  <2>1. HardAssert(x.stream, ~IsStarted(x.stream)) = x.stream
    BY <1>7, <1>8 DEF HardAssert, StreamType, AtRest
  <2>2. InhibitBackoff(x.stream) = [x.stream EXCEPT !.state = "Initial"]
    BY <2>1 DEF InhibitBackoff
  <2>3. InhibitBackoff(x.stream) \in StreamType /\ InhibitBackoff(x.stream).ok
    BY <1>7, <1>8, <2>2 DEF StreamType, AtRest
  <2>4. HardAssert(InhibitBackoff(x.stream), HasBatch(q, Head(n.pipe).id)) = InhibitBackoff(x.stream)
    BY <1>4, <1>5, <1>6, <2>3 DEF HardAssert, StreamType
  <2> QED  BY <2>2, <2>4
<1> HIDE DEF p, s
<1>10. /\ s \in StreamType /\ s.state = "Initial" /\ s.ok = x.stream.ok
       /\ s.backoff = x.stream.backoff /\ s.idle = x.stream.idle
       /\ s.count = x.stream.count /\ s.asked = x.stream.asked
  BY <1>8, <1>9 DEF StreamType
<1>11. read = [x EXCEPT !.pipe = p, !.stream = s]
  BY <1>7 DEF p
<1> HIDE DEF read
<1>12. /\ read \in NetType /\ read.pipe = p /\ read.stream = s
       /\ read.enabled = x.enabled /\ read.handshake = x.handshake /\ read.wire = x.wire
       /\ read.replies = x.replies /\ read.refusal = x.refusal
  BY <1>4, <1>8, <1>10, <1>11 DEF NetType
<1>13. ~IsStarted(read.stream) /\ ~IsOpen(read.stream)
  BY <1>10, <1>12 DEF IsStarted, IsOpen
<1>14. AtRest(read)
  BY <1>7, <1>10, <1>12, <1>13 DEF AtRest
<1>15. read.enabled
  BY <1>3, <1>7, <1>12 DEF NetOK, StreamOK
<1>16. PipeIsFront(read, Tail(q))
  <2>1. Len(p) <= Len(Tail(q))
    BY <1>1, <1>4, <1>5, <1>6
  <2>2. ASSUME NEW i \in 1..Len(p) PROVE p[i] = Tail(q)[i]
    <3>1. i + 1 \in 1..Len(n.pipe) /\ i \in 1..Len(Tail(q))
      BY <1>1, <1>4, <1>5, <1>6
    <3>2. n.pipe[i + 1] = q[i + 1]
      BY <3>1 DEF NetOK, PipeIsFront
    <3> QED  BY <1>4, <1>6, <3>1, <3>2
  <2> QED  BY <1>12, <2>1, <2>2 DEF PipeIsFront
<1>17. NetOK(read, Tail(q))
  BY <1>6, <1>14, <1>15, <1>16, AtRestOK
<1>18. /\ NetOK(g, Tail(q)) /\ Calm(read.stream, g.stream) /\ SameCall(read, g)
  BY <1>6, <1>17, FillOK
<1> HIDE DEF g
<1>19. /\ NetOK(h, Tail(q)) /\ Calm(g.stream, h.stream) /\ SameCall(g, h)
  BY <1>6, <1>18, StartIfNeededOK
<1> HIDE DEF h
<1>20. ~IsOpen(h.stream)
  BY <1>13, <1>18, <1>19 DEF SameCall
<1>21. NetOK(m, Tail(q)) /\ ~m.handshake /\ m.stream = h.stream
  BY <1>6, <1>19, <1>20, ForgetHandshake
<1>22. Calm(n.stream, m.stream)
  <2>1. read.stream \in StreamType /\ g.stream \in StreamType /\ h.stream \in StreamType
    BY <1>12, <1>18, <1>19, StreamOf DEF NetOK
  <2>2. Calm(n.stream, read.stream)
    BY <1>7, <1>10, <1>12 DEF Calm
  <2>3. Calm(n.stream, g.stream)
    BY <1>1, <1>18, <2>1, <2>2, CalmTransitive
  <2> QED  BY <1>1, <1>19, <1>21, <2>1, <2>3, CalmTransitive
<1>23. ASSUME NEW c, NEW r, AnswersOf(n, c, r) PROVE RefusedIn(q, c, r)
  <2> DEFINE k == Len(n.replies) + 1
  <2>1. /\ n.pipe[k].w \in r
        /\ \A j \in 1..Len(n.replies) : n.pipe[j].w \in c
    BY <1>2, <1>23 DEF AnswersOf
  <2>2. Len(n.replies) \in Nat /\ Len(n.replies) < Len(n.pipe)
    BY <1>1, <1>2, RefusedIsThere DEF NetOK
  <2>3. k \in 1..Len(n.pipe) /\ k \in 1..Len(q) /\ k - 1 = Len(n.replies)
    BY <1>1, <1>5, <2>2
  <2>4. \A j \in 1..Len(n.pipe) : n.pipe[j] = q[j]
    BY DEF NetOK, PipeIsFront
  <2>5. 1..(k - 1) \subseteq 1..Len(n.pipe)
    BY <1>1, <2>2, <2>3
  <2> HIDE DEF k
  <2>6. q[k].w \in r /\ \A j \in 1..(k - 1) : q[j].w \in c
    BY <2>1, <2>3, <2>4, <2>5 DEF k
  <2> QED  BY <2>3, <2>6 DEF RefusedIn
<1>24. Head(n.pipe) = Head(q)
  BY <1>4, <1>5, <1>6
<1> HIDE DEF m
<1>25. m = [StartIfNeeded(FillWritePipeline(
              [Closed(n, FALSE) EXCEPT !.pipe = Tail(@),
                   !.stream = HardAssert(InhibitBackoff(@), HasBatch(q, Head(n.pipe).id))],
              Tail(q))) EXCEPT !.handshake = FALSE]
  BY DEF m, h, g, read, s, x
<1> QED  BY <1>2, <1>3, <1>5, <1>20, <1>21, <1>22, <1>23, <1>24, <1>25
-----------------------------------------------------------------------------
(* The local state: the queues and who waits for them.                     *)

LEMMA BoundedMax ==
  ASSUME NEW S \in SUBSET Nat, S # {}, NEW N \in Nat, \A x \in S : x <= N
  PROVE  Max(S) \in S /\ \A y \in S : Max(S) >= y
<1> DEFINE T == {k \in Nat : N - k \in S}
           R == OpToRel(<, Nat)
<1>1. T \subseteq Nat /\ T # {}
  <2>1. PICK x \in S : TRUE
    OBVIOUS
  <2>2. N - x \in Nat /\ N - (N - x) = x
    BY <2>1
  <2> QED  BY <2>1, <2>2
<1>2. \E k \in T : \A j \in T : ~(<<j, k>> \in R)
  <2>1. IsWellFoundedOn(R, Nat)
    BY NatLessThanWellFounded
  <2> HIDE DEF R, T
  <2> QED  BY <1>1, <2>1, WFMin
<1>3. PICK k \in T : \A j \in T : ~(<<j, k>> \in R)
  BY <1>2
<1>4. \A j \in T : ~(j < k)
  BY <1>3 DEF OpToRel
<1>5. N - k \in S /\ \A y \in S : N - k >= y
  <2>1. ASSUME NEW y \in S PROVE N - k >= y
    <3>1. N - y \in Nat /\ N - (N - y) = y
      OBVIOUS
    <3>2. N - y \in T
      BY <3>1
    <3>3. ~(N - y < k) /\ k \in Nat /\ y \in Nat
      BY <1>4, <3>2
    <3> QED  BY <3>1, <3>3
  <2> QED  BY <1>3, <2>1
<1> QED  BY <1>5 DEF Max
\* The places of the queues hold batches.
LEMMA QueueOf ==
  ASSUME TypeOK, NEW u \in Users
  PROVE  /\ queue[u] \in Seq(Batch) /\ Len(queue[u]) \in Nat
         /\ DOMAIN queue[u] = 1..Len(queue[u])
         /\ \A i \in 1..Len(queue[u]) :
               queue[u][i] \in Batch /\ queue[u][i].id \in Nat /\ queue[u][i].w \in WriteNames
<1>1. queue[u] \in Seq(Batch)
  BY DEF TypeOK
<1> QED  BY <1>1, BatchOf, LenProperties

\* A batch id that is given after a restart or to another user is new.
LEMMA NextBatchIdIsNew ==
  ASSUME TypeOK, QueuesOK
  PROVE  /\ NextBatchId(queue) \in Nat \ {0}
         /\ \A u \in Users : \A i \in 1..Len(queue[u]) : queue[u][i].id < NextBatchId(queue)
<1> DEFINE ids == UNION {{queue[u][i].id : i \in DOMAIN queue[u]} : u \in Users}
           S == {0} \union ids
<1>1. ASSUME NEW x \in S PROVE x \in Nat /\ x <= nextId
  <2>1. CASE x = 0
    BY <2>1 DEF QueuesOK
  <2>2. CASE x \in ids
    <3>1. PICK u \in Users : \E i \in DOMAIN queue[u] : x = queue[u][i].id
      BY <2>2
    <3>2. PICK i \in DOMAIN queue[u] : x = queue[u][i].id
      BY <3>1
    <3>3. i \in 1..Len(queue[u])
      BY QueueOf
    <3> QED  BY <3>2, <3>3, QueueOf DEF QueuesOK
  <2> QED  BY <2>1, <2>2
<1>2. ASSUME NEW u \in Users, NEW i \in 1..Len(queue[u]) PROVE queue[u][i].id \in S
  BY QueueOf
<1>3. NextBatchId(queue) = 1 + Max(S)
  BY DEF NextBatchId
<1>4. 0 \in S
  OBVIOUS
<1> HIDE DEF S
<1>5. nextId \in Nat
  BY DEF QueuesOK
<1>6. Max(S) \in S /\ \A y \in S : Max(S) >= y
  BY <1>1, <1>4, <1>5, BoundedMax
<1>7. Max(S) \in Nat
  BY <1>1, <1>6
<1>8. ASSUME NEW u \in Users, NEW i \in 1..Len(queue[u])
      PROVE  queue[u][i].id < NextBatchId(queue)
  BY <1>1, <1>2, <1>3, <1>6, <1>7
<1> QED  BY <1>3, <1>7, <1>8

\* What the backend does touches no one who waits.
LEMMA LocalUnchanged ==
  ASSUME LocalInv,
         UNCHANGED <<user, queue, nextId, callbacks, waiters, heard, awaited, issued, waits>>,
         committed' \subseteq 1..issued, refused' \subseteq 1..issued
  PROVE  LocalInv'
<1>1. QueuesOK'
  BY DEF LocalInv, QueuesOK, InOrder
<1>2. CallbacksOK'
  BY DEF LocalInv, CallbacksOK
<1>3. IssuedOK'
  BY DEF LocalInv, IssuedOK
<1>4. WaitersOK'
  BY DEF LocalInv, WaitersOK
<1>5. HeardOK'
  BY DEF LocalInv, HeardOK
<1> QED  BY <1>1, <1>2, <1>3, <1>4, <1>5 DEF LocalInv

\* The user or the process changes: those who wait are told so, or forgotten.
LEMMA LocalChanged ==
  ASSUME TypeOK, LocalInv,
         UNCHANGED <<queue, awaited, issued, waits, committed, refused>>,
         nextId' = NextBatchId(queue), waiters' = {},
         \/ heard' = heard
         \/ heard' = heard \union {<<x.k, "cancelled">> : x \in waiters},
         callbacks' = callbacks \/ callbacks' = [v \in Users |-> {}]
  PROVE  LocalInv'
<1>1. QueuesOK'
  <2>1. /\ nextId' \in Nat \ {0}
        /\ \A u \in Users : \A i \in 1..Len(queue[u]) : queue[u][i].id < nextId'
    BY NextBatchIdIsNew DEF LocalInv
  <2> QED  BY <2>1 DEF LocalInv, QueuesOK
<1>2. CallbacksOK'
  BY DEF LocalInv, CallbacksOK
<1>3. IssuedOK'
  BY DEF LocalInv, IssuedOK
<1>4. WaitersOK'
  BY DEF LocalInv, WaitersOK
<1>5. HeardOK'
  <2>1. ASSUME NEW a \in heard'
        PROVE  a \in heard \/ \E x \in waiters : a = <<x.k, "cancelled">>
    OBVIOUS
  <2>2. ASSUME NEW a \in heard' PROVE a[1] \in 1..waits
    BY <2>1, <2>2 DEF LocalInv, HeardOK, WaitersOK
  <2>3. ASSUME NEW a \in heard', NEW b \in heard', a[1] = b[1] PROVE a = b
    <3>1. CASE a \in heard /\ b \in heard
      BY <2>3, <3>1 DEF LocalInv, HeardOK
    <3>2. CASE a \in heard /\ b \notin heard
      BY <2>1, <2>3, <3>2 DEF LocalInv, WaitersOK
    <3>3. CASE a \notin heard /\ b \in heard
      BY <2>1, <2>3, <3>3 DEF LocalInv, WaitersOK
    <3>4. CASE a \notin heard /\ b \notin heard
      <4>1. PICK x \in waiters, y \in waiters : a = <<x.k, "cancelled">> /\ b = <<y.k, "cancelled">>
        BY <2>1, <3>4
      <4> QED  BY <2>3, <4>1
    <3> QED  BY <3>1, <3>2, <3>3, <3>4
  <2>4. ASSUME NEW k \in WaitNames, <<k, "ok">> \in heard' PROVE <<k, "ok">> \in heard
    BY <2>1, <2>4
  <2> QED  BY <2>2, <2>3, <2>4 DEF LocalInv, HeardOK
<1> QED  BY <1>1, <1>2, <1>3, <1>4, <1>5 DEF LocalInv
\* A new batch stands at the end of its queue, and is none of those before it.
LEMMA QueueAppended ==
  ASSUME TypeOK, LocalInv, issued < MaxWrites,
         queue' = [queue EXCEPT ![user] = Append(@, [id |-> nextId, w |-> issued + 1])]
  PROVE  /\ [id |-> nextId, w |-> issued + 1] \in Batch
         /\ queue' \in [Users -> Seq(Batch)]
         /\ queue'[user] = Append(queue[user], [id |-> nextId, w |-> issued + 1])
         /\ \A u \in Users : u # user => queue'[u] = queue[u]
         /\ Len(queue'[user]) = Len(queue[user]) + 1
         /\ queue'[user][Len(queue[user]) + 1] = [id |-> nextId, w |-> issued + 1]
         /\ \A u \in Users : \A i \in 1..Len(queue[u]) :
               i \in 1..Len(queue'[u]) /\ queue'[u][i] = queue[u][i]
         /\ \A u \in Users : \A i \in 1..Len(queue'[u]) :
               i \in 1..Len(queue[u]) \/ (u = user /\ i = Len(queue[user]) + 1)
<1> DEFINE b == [id |-> nextId, w |-> issued + 1]
<1>1. b \in Batch /\ user \in Users
  <2>1. nextId \in Nat /\ issued + 1 \in WriteNames /\ user \in Users
    BY WritesAssumption DEF TypeOK, WriteNames
  <2> QED  BY <2>1 DEF Batch
<1> HIDE DEF b
<1>2. queue[user] \in Seq(Batch) /\ Len(queue[user]) \in Nat
  BY <1>1, QueueOf
<1>3. /\ Append(queue[user], b) \in Seq(Batch)
      /\ Len(Append(queue[user], b)) = Len(queue[user]) + 1
      /\ Append(queue[user], b)[Len(queue[user]) + 1] = b
      /\ \A i \in 1..Len(queue[user]) : Append(queue[user], b)[i] = queue[user][i]
  BY <1>1, <1>2, AppendProperties
<1>4. queue' = [queue EXCEPT ![user] = Append(@, b)]
  BY DEF b
<1>5. /\ queue' \in [Users -> Seq(Batch)] /\ queue'[user] = Append(queue[user], b)
      /\ \A u \in Users : u # user => queue'[u] = queue[u]
  BY <1>1, <1>3, <1>4 DEF TypeOK
<1>6. ASSUME NEW u \in Users, NEW i \in 1..Len(queue[u])
      PROVE  i \in 1..Len(queue'[u]) /\ queue'[u][i] = queue[u][i]
  <2>1. CASE u = user
    BY <1>2, <1>3, <1>5, <2>1
  <2>2. CASE u # user
    BY <1>5, <2>2
  <2> QED  BY <2>1, <2>2
<1>7. ASSUME NEW u \in Users, NEW i \in 1..Len(queue'[u])
      PROVE  i \in 1..Len(queue[u]) \/ (u = user /\ i = Len(queue[user]) + 1)
  <2>1. CASE u = user
    BY <1>2, <1>3, <1>5, <2>1
  <2>2. CASE u # user
    BY <1>5, <2>2
  <2> QED  BY <2>1, <2>2
<1> QED  BY <1>1, <1>3, <1>5, <1>6, <1>7 DEF b

LEMMA LocalWritten ==
  ASSUME TypeOK, LocalInv, WriteMutations
  PROVE  LocalInv'
<1> DEFINE b == [id |-> nextId, w |-> issued + 1]
<1>1. /\ nextId' = nextId + 1 /\ issued' = issued + 1
      /\ UNCHANGED <<user, waiters, heard, awaited, waits, committed, refused>>
      /\ callbacks' = callbacks \/ callbacks' = [callbacks EXCEPT ![user] = @ \union {b}]
      /\ issued < MaxWrites
      /\ queue' = [queue EXCEPT ![user] = Append(@, b)]
  BY DEF WriteMutations, serverVars
<1>2. /\ queue'[user] = Append(queue[user], b)
      /\ \A u \in Users : u # user => queue'[u] = queue[u]
      /\ Len(queue'[user]) = Len(queue[user]) + 1
      /\ queue'[user][Len(queue[user]) + 1] = b
      /\ \A u \in Users : \A i \in 1..Len(queue[u]) :
            i \in 1..Len(queue'[u]) /\ queue'[u][i] = queue[u][i]
      /\ \A u \in Users : \A i \in 1..Len(queue'[u]) :
            i \in 1..Len(queue[u]) \/ (u = user /\ i = Len(queue[user]) + 1)
  BY <1>1, QueueAppended
<1>3. user \in Users /\ Len(queue[user]) \in Nat /\ nextId \in Nat \ {0} /\ issued \in Nat
  BY QueueOf DEF TypeOK, LocalInv, QueuesOK
<1>4. b.id = nextId /\ b.w = issued + 1
  OBVIOUS
<1> HIDE DEF b
<1>5. ASSUME NEW u \in Users, NEW i \in 1..Len(queue'[u])
      PROVE  \/ /\ i \in 1..Len(queue[u]) /\ queue'[u][i] = queue[u][i]
                /\ queue[u][i].id < nextId /\ queue[u][i].w <= issued
                /\ queue[u][i].id \in Nat \ {0} /\ queue[u][i].w \in Nat
             \/ u = user /\ i = Len(queue[user]) + 1 /\ queue'[u][i] = b
  <2>1. CASE i \in 1..Len(queue[u])
    <3>1. queue[u][i].id \in Nat /\ queue[u][i].w \in WriteNames
      BY <2>1, QueueOf
    <3>2. queue[u][i].id > 0 /\ queue[u][i].id < nextId /\ queue[u][i].w <= issued
      BY <2>1 DEF LocalInv, QueuesOK, InOrder
    <3> QED  BY <1>2, <2>1, <3>1, <3>2 DEF WriteNames
  <2>2. CASE u = user /\ i = Len(queue[user]) + 1
    BY <1>2, <2>2
  <2> QED  BY <1>2, <2>1, <2>2
<1>6. QueuesOK'
  <2>1. nextId' \in Nat \ {0}
    BY <1>1, <1>3
  <2>2. ASSUME NEW u \in Users PROVE InOrder(queue'[u])
    <3>1. ASSUME NEW i \in 1..Len(queue'[u]) PROVE queue'[u][i].id > 0
      BY <1>3, <1>4, <1>5
    <3>2. ASSUME NEW i \in 1..Len(queue'[u]), NEW j \in 1..Len(queue'[u]), i < j
          PROVE  queue'[u][i].id < queue'[u][j].id
      <4>1. CASE j \in 1..Len(queue[u])
        <5>1. i \in 1..Len(queue[u])
          BY <3>2, <4>1
        <5> QED  BY <1>2, <3>2, <4>1, <5>1 DEF LocalInv, QueuesOK, InOrder
      <4>2. CASE u = user /\ j = Len(queue[user]) + 1
        <5>1. queue'[u][j].id = nextId
          BY <1>2, <1>4, <4>2
        <5>2. i # j /\ i \in 1..Len(queue[u])
          BY <1>2, <3>2, <4>2
        <5>3. queue'[u][i].id < nextId
          BY <1>2, <5>2 DEF LocalInv, QueuesOK
        <5> QED  BY <5>1, <5>3
      <4> QED  BY <1>2, <4>1, <4>2
    <3> QED  BY <3>1, <3>2 DEF InOrder
  <2>3. ASSUME NEW u \in Users, NEW i \in 1..Len(queue'[u])
        PROVE  queue'[u][i].id < nextId' /\ queue'[u][i].w <= issued'
    BY <1>1, <1>3, <1>4, <1>5
  <2>4. ASSUME NEW u \in Users, NEW v \in Users,
               NEW i \in 1..Len(queue'[u]), NEW j \in 1..Len(queue'[v]),
               queue'[u][i].w = queue'[v][j].w
        PROVE  u = v /\ i = j
    <3>1. CASE i \in 1..Len(queue[u]) /\ j \in 1..Len(queue[v])
      <4>1. queue[u][i].w = queue[v][j].w
        BY <1>2, <2>4, <3>1
      <4> QED  BY <3>1, <4>1 DEF LocalInv, QueuesOK
    <3>2. ASSUME NEW x \in Users, NEW k \in 1..Len(queue[x])
          PROVE  queue'[x][k].w # issued + 1
      <4>1. queue'[x][k] = queue[x][k] /\ k \in 1..Len(queue'[x])
        BY <1>2
      <4>2. queue[x][k].w <= issued
        BY DEF LocalInv, QueuesOK
      <4>3. queue[x][k].w \in Nat
        BY QueueOf DEF WriteNames
      <4> QED  BY <1>3, <4>1, <4>2, <4>3
    <3>3. ASSUME NEW x \in Users, NEW k \in 1..Len(queue'[x]), k \notin 1..Len(queue[x])
          PROVE  x = user /\ k = Len(queue[user]) + 1 /\ queue'[x][k].w = issued + 1
      BY <1>2, <1>4, <3>3
    <3>4. CASE i \notin 1..Len(queue[u])
      <4>1. j \notin 1..Len(queue[v])
        BY <2>4, <3>2, <3>3, <3>4
      <4> QED  BY <3>3, <3>4, <4>1
    <3>5. CASE j \notin 1..Len(queue[v])
      <4>1. i \notin 1..Len(queue[u])
        BY <2>4, <3>2, <3>3, <3>5
      <4> QED  BY <3>3, <3>5, <4>1
    <3> QED  BY <3>1, <3>4, <3>5
  <2> QED  BY <2>1, <2>2, <2>3, <2>4 DEF QueuesOK
<1>7. CallbacksOK'
  <2> SUFFICES ASSUME NEW u \in Users, NEW c \in callbacks'[u]
               PROVE  \E i \in 1..Len(queue'[u]) : queue'[u][i] = c
    BY DEF CallbacksOK
  <2>1. c \in callbacks[u] \/ (u = user /\ c = b)
    BY <1>1 DEF TypeOK
  <2>2. CASE c \in callbacks[u]
    <3>1. PICK i \in 1..Len(queue[u]) : queue[u][i] = c
      BY <2>2 DEF LocalInv, CallbacksOK
    <3> QED  BY <1>2, <3>1
  <2>3. CASE u = user /\ c = b
    <3>1. Len(queue[user]) + 1 \in 1..Len(queue'[user])
      BY <1>2, <1>3
    <3> QED  BY <1>2, <2>3, <3>1
  <2> QED  BY <2>1, <2>2, <2>3
<1>8. IssuedOK'
  BY <1>1, <1>3 DEF LocalInv, IssuedOK
<1>9. ASSUME NEW k \in WaitNames, NEW u \in Users, NEW i \in 1..Len(queue'[u]),
             queue'[u][i].w \in awaited[k]
      PROVE  i \in 1..Len(queue[u]) /\ queue[u][i].w \in awaited[k]
  <2>1. queue'[u][i].w <= issued /\ queue'[u][i].w # issued + 1
    BY <1>3, <1>9 DEF LocalInv, IssuedOK
  <2> QED  BY <1>4, <1>5, <1>9, <2>1
<1>10. WaitersOK'
  <2>1. ASSUME NEW x \in waiters
        PROVE  \E i \in 1..Len(queue'[user]) :
                  /\ queue'[user][i].id = x.id
                  /\ \A u \in Users : \A j \in 1..Len(queue'[u]) :
                        queue'[u][j].w \in awaited[x.k] => u = user /\ j <= i
    <3>1. PICK i \in 1..Len(queue[user]) :
             /\ queue[user][i].id = x.id
             /\ \A u \in Users : \A j \in 1..Len(queue[u]) :
                   queue[u][j].w \in awaited[x.k] => u = user /\ j <= i
      BY DEF LocalInv, WaitersOK
    <3>2. i \in 1..Len(queue'[user]) /\ queue'[user][i].id = x.id
      BY <1>2, <1>3, <3>1
    <3>3. x.k \in WaitNames
      BY DEF TypeOK
    <3> QED  BY <1>9, <3>1, <3>2, <3>3
  <2> QED  BY <1>1, <2>1, SMTT(20) DEF LocalInv, WaitersOK
<1>11. HeardOK'
  BY <1>1, <1>9 DEF LocalInv, HeardOK
<1> QED  BY <1>6, <1>7, <1>8, <1>10, <1>11 DEF LocalInv
\* The writes of a queue that a call of waitForPendingWrites is to wait for.
LEMMA PendingWrites ==
  ASSUME TypeOK, NEW u \in Users
  PROVE  PendingOf(u) = {queue[u][i].w : i \in 1..Len(queue[u])}
<1>1. DOMAIN WritesOf(queue[u]) = 1..Len(queue[u])
  BY QueueOf DEF WritesOf
<1>2. \A i \in 1..Len(queue[u]) : WritesOf(queue[u])[i] = queue[u][i].w
  BY QueueOf DEF WritesOf
<1> QED  BY <1>1, <1>2 DEF PendingOf, Range

LEMMA LocalRegistered ==
  ASSUME TypeOK, LocalInv, RegisterPendingWritesCallback
  PROVE  LocalInv'
<1> DEFINE k == waits + 1
<1>1. /\ waits' = waits + 1 /\ awaited' = [awaited EXCEPT ![k] = PendingOf(user)]
      /\ waits < MaxWaits
      /\ UNCHANGED <<user, queue, nextId, callbacks, committed, refused, issued>>
      /\ \/ queue[user] = <<>> /\ heard' = heard \union {<<k, "ok">>} /\ waiters' = waiters
         \/ /\ queue[user] # <<>> /\ heard' = heard
            /\ waiters' = waiters \union {[id |-> Last(queue[user]).id, k |-> k]}
  BY DEF RegisterPendingWritesCallback, serverVars, HighestUnacknowledgedBatchId
<1>2. waits \in Nat /\ k \in Nat /\ k \in WaitNames /\ user \in Users /\ k \notin 1..waits
  BY <1>1, WritesAssumption DEF TypeOK, WaitNames
<1>3. k \in 1..waits' /\ \A j \in 1..waits : j \in 1..waits' /\ j # k
  BY <1>1, <1>2
<1> HIDE DEF k
<1>4. /\ awaited'[k] = {queue[user][i].w : i \in 1..Len(queue[user])}
      /\ \A j \in WaitNames : j # k => awaited'[j] = awaited[j]
  BY <1>1, <1>2, PendingWrites DEF TypeOK
<1>5. QueuesOK' /\ CallbacksOK'
  BY <1>1 DEF LocalInv, QueuesOK, CallbacksOK, InOrder
<1>6. IssuedOK'
  <2>1. ASSUME NEW j \in WaitNames PROVE awaited'[j] \subseteq 1..issued
    <3>1. CASE j = k
      <4>1. ASSUME NEW i \in 1..Len(queue[user]) PROVE queue[user][i].w \in 1..issued
        <5>1. queue[user][i].w \in WriteNames /\ queue[user][i].w <= issued
          BY <1>2, QueueOf DEF LocalInv, QueuesOK
        <5> QED  BY <5>1 DEF TypeOK, WriteNames
      <4> QED  BY <1>4, <3>1, <4>1
    <3>2. CASE j # k
      BY <1>4, <3>2 DEF LocalInv, IssuedOK
    <3> QED  BY <3>1, <3>2
  <2> QED  BY <1>1, <2>1 DEF LocalInv, IssuedOK
<1>7. ASSUME NEW x \in waiters
      PROVE  x.k \in 1..waits /\ x.k # k /\ x.k \in WaitNames /\ awaited'[x.k] = awaited[x.k]
  <2>1. x.k \in WaitNames /\ x.k \in 1..waits
    BY DEF TypeOK, LocalInv, WaitersOK
  <2> QED  BY <1>2, <1>4, <2>1
<1>8. \A a \in heard : a[1] \in 1..waits /\ a[1] # k
  BY <1>2 DEF LocalInv, HeardOK
<1>9. CASE queue[user] = <<>>
  <2>1. heard' = heard \union {<<k, "ok">>} /\ waiters' = waiters
    BY <1>1, <1>9
  <2>2. Len(queue[user]) = 0 /\ awaited'[k] = {}
    BY <1>4, <1>9, EmptySeq
  <2>3. WaitersOK'
    <3>1. ASSUME NEW x \in waiters PROVE \A a \in heard' : a[1] # x.k
      BY <1>7, <2>1 DEF LocalInv, WaitersOK
    <3>2. ASSUME NEW x \in waiters
          PROVE  \E i \in 1..Len(queue[user]) :
                    /\ queue[user][i].id = x.id
                    /\ \A u \in Users : \A j \in 1..Len(queue[u]) :
                          queue[u][j].w \in awaited'[x.k] => u = user /\ j <= i
      BY <1>7 DEF LocalInv, WaitersOK
    <3> QED  BY <1>1, <1>3, <1>7, <2>1, <3>1, <3>2 DEF LocalInv, WaitersOK
  <2>4. HeardOK'
    <3>1. ASSUME NEW a \in heard' PROVE a[1] \in 1..waits'
      BY <1>3, <1>8, <2>1
    <3>2. ASSUME NEW a \in heard', NEW c \in heard', a[1] = c[1] PROVE a = c
      BY <1>8, <2>1, <3>2 DEF LocalInv, HeardOK
    <3>3. ASSUME NEW j \in WaitNames, <<j, "ok">> \in heard', NEW u \in Users,
                 NEW i \in 1..Len(queue[u])
          PROVE  queue[u][i].w \notin awaited'[j]
      <4>1. CASE j = k
        BY <2>2, <4>1
      <4>2. CASE j # k
        <5>1. <<j, "ok">> \in heard
          BY <2>1, <3>3, <4>2
        <5> QED  BY <1>4, <4>2, <5>1 DEF LocalInv, HeardOK
      <4> QED  BY <4>1, <4>2
    <3> QED  BY <1>1, <3>1, <3>2, <3>3 DEF HeardOK
  <2> QED  BY <1>5, <1>6, <2>3, <2>4 DEF LocalInv
<1>10. CASE queue[user] # <<>>
  <2> DEFINE new == [id |-> Last(queue[user]).id, k |-> k]
  <2>1. heard' = heard /\ waiters' = waiters \union {new}
    BY <1>1, <1>10
  <2>2. Len(queue[user]) \in 1..Len(queue[user]) /\ new.id = queue[user][Len(queue[user])].id
    BY <1>2, <1>10, QueueOf, EmptySeq DEF Last
  <2>3. new.k = k
    OBVIOUS
  <2> HIDE DEF new
  <2>4. ASSUME NEW u \in Users, NEW j \in 1..Len(queue[u]), queue[u][j].w \in awaited'[k]
        PROVE  u = user /\ j <= Len(queue[user])
    <3>1. PICK i \in 1..Len(queue[user]) : queue[u][j].w = queue[user][i].w
      BY <1>4, <2>4
    <3>2. u = user /\ j = i
      BY <1>2, <3>1 DEF LocalInv, QueuesOK
    <3> QED  BY <3>2
  <2>5. WaitersOK'
    <3>1. ASSUME NEW x \in waiters' PROVE x.k \in 1..waits' /\ \A a \in heard' : a[1] # x.k
      BY <1>3, <1>7, <1>8, <2>1, <2>3 DEF LocalInv, WaitersOK
    <3>2. ASSUME NEW x \in waiters'
          PROVE  \E i \in 1..Len(queue[user]) :
                    /\ queue[user][i].id = x.id
                    /\ \A u \in Users : \A j \in 1..Len(queue[u]) :
                          queue[u][j].w \in awaited'[x.k] => u = user /\ j <= i
      <4>1. CASE x \in waiters
        BY <1>7, <4>1 DEF LocalInv, WaitersOK
      <4>2. CASE x = new
        BY <2>2, <2>3, <2>4, <4>2
      <4> QED  BY <2>1, <4>1, <4>2
    <3>3. ASSUME NEW x \in waiters', NEW y \in waiters', x.k = y.k PROVE x = y
      BY <1>7, <2>1, <2>3, <3>3 DEF LocalInv, WaitersOK
    <3> QED  BY <1>1, <3>1, <3>2, <3>3 DEF WaitersOK
  <2>6. HeardOK'
    <3>1. ASSUME NEW a \in heard' PROVE a[1] \in 1..waits'
      BY <1>3, <1>8, <2>1
    <3>2. ASSUME NEW j \in WaitNames, <<j, "ok">> \in heard', NEW u \in Users,
                 NEW i \in 1..Len(queue[u])
          PROVE  queue[u][i].w \notin awaited'[j]
      <4>1. <<j, "ok">> \in heard /\ j # k
        BY <1>8, <2>1, <3>2
      <4> QED  BY <1>4, <4>1 DEF LocalInv, HeardOK
    <3> QED  BY <1>1, <2>1, <3>1, <3>2 DEF LocalInv, HeardOK
  <2> QED  BY <1>5, <1>6, <2>5, <2>6 DEF LocalInv
<1> QED  BY <1>9, <1>10

\* The front of the queue is decided, and goes.
LEMMA LocalSettled ==
  ASSUME TypeOK, LocalInv, queue[user] # <<>>, NEW verdict,
         NotifyUser(Head(queue[user]).id, verdict),
         TriggerPendingWriteCallbacks(Head(queue[user]).id),
         queue' = [queue EXCEPT ![user] = Tail(@)],
         UNCHANGED <<user, nextId, committed, refused, awaited, issued, waits>>
  PROVE  LocalInv' /\ queue' \in [Users -> Seq(Batch)]
<1> DEFINE id == Head(queue[user]).id
<1>1. /\ \E found : /\ found = {b \in callbacks[user] : b.id = id}
                    /\ callbacks' = [callbacks EXCEPT ![user] = @ \ found]
      /\ \E found : /\ found = {x \in waiters : x.id = id}
                    /\ heard' = heard \union {<<x.k, "ok">> : x \in found}
                    /\ waiters' = waiters \ found
  BY DEF NotifyUser, TriggerPendingWriteCallbacks
<1>2. user \in Users /\ queue[user] \in Seq(Batch) /\ InOrder(queue[user])
  BY QueueOf DEF TypeOK, LocalInv, QueuesOK
<1>3. /\ Len(queue[user]) \in Nat /\ Len(queue[user]) >= 1 /\ id = queue[user][1].id
      /\ Tail(queue[user]) \in Seq(Batch) /\ Len(Tail(queue[user])) = Len(queue[user]) - 1
      /\ InOrder(Tail(queue[user]))
      /\ \A i \in 1..Len(Tail(queue[user])) : Tail(queue[user])[i] = queue[user][i + 1]
      /\ \A i \in 2..Len(queue[user]) : queue[user][i].id # id
  BY <1>2, FrontRemoved
<1> HIDE DEF id
<1>4. /\ queue' \in [Users -> Seq(Batch)] /\ queue'[user] = Tail(queue[user])
      /\ \A u \in Users : u # user => queue'[u] = queue[u]
  BY <1>2, <1>3 DEF TypeOK
<1> DEFINE At(u, i) == IF u = user THEN i + 1 ELSE i
<1>5. ASSUME NEW u \in Users, NEW i \in 1..Len(queue'[u])
      PROVE  At(u, i) \in 1..Len(queue[u]) /\ queue'[u][i] = queue[u][At(u, i)] /\ i \in Nat
  <2>1. CASE u = user
    BY <1>3, <1>4, <2>1
  <2>2. CASE u # user
    BY <1>4, <2>2
  <2> QED  BY <2>1, <2>2
<1>6. QueuesOK'
  <2>1. ASSUME NEW u \in Users PROVE InOrder(queue'[u])
    <3>1. CASE u = user
      BY <1>3, <1>4, <3>1
    <3>2. CASE u # user
      BY <1>4, <3>2 DEF LocalInv, QueuesOK
    <3> QED  BY <3>1, <3>2
  <2>2. ASSUME NEW u \in Users, NEW i \in 1..Len(queue'[u])
        PROVE  queue'[u][i].id < nextId /\ queue'[u][i].w <= issued
    BY <1>5 DEF LocalInv, QueuesOK
  <2>3. ASSUME NEW u \in Users, NEW v \in Users,
               NEW i \in 1..Len(queue'[u]), NEW j \in 1..Len(queue'[v]),
               queue'[u][i].w = queue'[v][j].w
        PROVE  u = v /\ i = j
    <3>1. u = v /\ At(u, i) = At(v, j)
      BY <1>5, <2>3 DEF LocalInv, QueuesOK
    <3> QED  BY <1>5, <3>1
  <2> QED  BY <2>1, <2>2, <2>3 DEF LocalInv, QueuesOK
<1>7. ASSUME NEW i \in 2..Len(queue[user])
      PROVE  i - 1 \in 1..Len(queue'[user]) /\ queue'[user][i - 1] = queue[user][i]
  <2>1. i - 1 \in 1..Len(Tail(queue[user])) /\ (i - 1) + 1 = i
    BY <1>3
  <2> QED  BY <1>3, <1>4, <2>1
<1>8. CallbacksOK'
  <2> SUFFICES ASSUME NEW u \in Users, NEW c \in callbacks'[u]
               PROVE  \E i \in 1..Len(queue'[u]) : queue'[u][i] = c
    BY DEF CallbacksOK
  <2>1. c \in callbacks[u] /\ (u = user => c.id # id)
    BY <1>1 DEF TypeOK
  <2>2. PICK i \in 1..Len(queue[u]) : queue[u][i] = c
    BY <2>1 DEF LocalInv, CallbacksOK
  <2>3. CASE u = user
    <3>1. i # 1
      BY <1>3, <2>1, <2>2, <2>3
    <3>2. i \in 2..Len(queue[user])
      BY <1>3, <2>3, <3>1
    <3> QED  BY <1>7, <2>2, <2>3, <3>2
  <2>4. CASE u # user
    BY <1>4, <2>2, <2>4
  <2> QED  BY <2>3, <2>4
<1>9. IssuedOK'
  BY DEF LocalInv, IssuedOK
<1>10. /\ waiters' = {x \in waiters : x.id # id}
       /\ \A a \in heard' : a \in heard \/ \E x \in waiters : x.id = id /\ a = <<x.k, "ok">>
  BY <1>1
<1>11. WaitersOK'
  <2>1. ASSUME NEW x \in waiters' PROVE \A a \in heard' : a[1] # x.k
    BY <1>10 DEF LocalInv, WaitersOK
  <2>2. ASSUME NEW x \in waiters'
        PROVE  \E i \in 1..Len(queue'[user]) :
                  /\ queue'[user][i].id = x.id
                  /\ \A u \in Users : \A j \in 1..Len(queue'[u]) :
                        queue'[u][j].w \in awaited[x.k] => u = user /\ j <= i
    <3>1. x \in waiters /\ x.id # id
      BY <1>10
    <3>2. PICK i \in 1..Len(queue[user]) :
             /\ queue[user][i].id = x.id
             /\ \A u \in Users : \A j \in 1..Len(queue[u]) :
                   queue[u][j].w \in awaited[x.k] => u = user /\ j <= i
      BY <3>1 DEF LocalInv, WaitersOK
    <3>3. i # 1
      BY <1>3, <3>1, <3>2
    <3>4. i \in 2..Len(queue[user])
      BY <1>3, <3>3
    <3>5. i - 1 \in 1..Len(queue'[user]) /\ queue'[user][i - 1].id = x.id
      BY <1>7, <3>2, <3>4
    <3>6. ASSUME NEW u \in Users, NEW j \in 1..Len(queue'[u]), queue'[u][j].w \in awaited[x.k]
          PROVE  u = user /\ j <= i - 1
      <4>1. u = user /\ At(u, j) <= i
        BY <1>5, <3>2, <3>6
      <4> QED  BY <1>5, <4>1
    <3> QED  BY <3>5, <3>6
  <2>3. ASSUME NEW x \in waiters' PROVE x.k \in 1..waits
    BY <1>10 DEF LocalInv, WaitersOK
  <2>4. ASSUME NEW x \in waiters', NEW y \in waiters', x.k = y.k PROVE x = y
    BY <1>10, <2>4 DEF LocalInv, WaitersOK
  <2> QED  BY <2>1, <2>2, <2>3, <2>4 DEF WaitersOK
<1>12. HeardOK'
  <2>1. ASSUME NEW a \in heard' PROVE a[1] \in 1..waits
    BY <1>10 DEF LocalInv, HeardOK, WaitersOK
  <2>2. ASSUME NEW a \in heard', NEW c \in heard', a[1] = c[1] PROVE a = c
    <3>1. CASE a \in heard /\ c \in heard
      BY <2>2, <3>1 DEF LocalInv, HeardOK
    <3>2. CASE a \in heard /\ c \notin heard
      BY <1>10, <2>2, <3>2 DEF LocalInv, WaitersOK
    <3>3. CASE a \notin heard /\ c \in heard
      BY <1>10, <2>2, <3>3 DEF LocalInv, WaitersOK
    <3>4. CASE a \notin heard /\ c \notin heard
      <4>1. PICK x \in waiters, y \in waiters : a = <<x.k, "ok">> /\ c = <<y.k, "ok">>
        BY <1>10, <3>4
      <4> QED  BY <2>2, <4>1
    <3> QED  BY <3>1, <3>2, <3>3, <3>4
  <2>3. ASSUME NEW k \in WaitNames, <<k, "ok">> \in heard', NEW u \in Users,
               NEW j \in 1..Len(queue'[u])
        PROVE  queue'[u][j].w \notin awaited[k]
    <3>1. CASE <<k, "ok">> \in heard
      BY <1>5, <3>1 DEF LocalInv, HeardOK
    <3>2. CASE <<k, "ok">> \notin heard
      <4>1. PICK x \in waiters : x.id = id /\ <<k, "ok">> = <<x.k, "ok">>
        BY <1>10, <2>3, <3>2
      <4>2. x.k = k
        BY <4>1
      <4>3. PICK i \in 1..Len(queue[user]) :
               /\ queue[user][i].id = x.id
               /\ \A v \in Users : \A l \in 1..Len(queue[v]) :
                     queue[v][l].w \in awaited[x.k] => v = user /\ l <= i
        BY DEF LocalInv, WaitersOK
      <4>4. i = 1
        <5>1. i \notin 2..Len(queue[user])
          BY <1>3, <4>1, <4>3
        <5> QED  BY <1>3, <5>1
      <4>5. queue'[u][j].w \in awaited[k] => u = user /\ At(u, j) <= 1
        BY <1>5, <4>2, <4>3, <4>4
      <4> QED  BY <1>5, <4>5
    <3> QED  BY <3>1, <3>2
  <2> QED  BY <2>1, <2>2, <2>3 DEF HeardOK
<1> QED  BY <1>4, <1>6, <1>8, <1>9, <1>11, <1>12 DEF LocalInv
-----------------------------------------------------------------------------
(* The invariant: one lemma for each action.                               *)

\* The parts of the invariant in the form the lemmas above take them.
LEMMA Parts ==
  ASSUME IInv
  PROVE  /\ TypeOK /\ user \in Users /\ authUser \in Users
         /\ queue[user] \in Seq(Batch) /\ InOrder(queue[user])
         /\ NetOK(net, queue[user]) /\ (net.handshake => IsOpen(net.stream))
         /\ net \in NetType /\ net.stream \in StreamType
         /\ mail \in Seq(MailType)
         /\ TokensOK(net.stream, mail) /\ MailOK(mail, user, authUser) /\ UsersOK(mail)
         /\ AnswersOf(net, committed, refused)
         /\ LocalInv
<1>1. TypeOK /\ user \in Users /\ authUser \in Users /\ mail \in Seq(MailType) /\ net \in NetType
  BY DEF IInv, TypeOK, MailType
<1>2. queue[user] \in Seq(Batch)
  BY <1>1, QueueOf
<1>3. LocalInv /\ InOrder(queue[user])
  BY <1>1 DEF IInv, LocalInv, QueuesOK
<1> QED  BY <1>1, <1>2, <1>3, StreamOf DEF IInv, MailInv, AnswersOK

\* The steps after which the call, if there was one, is gone, and that leave
\* the rest of the client alone.
LEMMA CutOff ==
  ASSUME IInv, UNCHANGED <<mail, authUser, localVars, committed, refused>>,
         UNCHANGED <<told, heard, awaited, issued, waits>>,
         events' = events \/ Event,
         NetOK(net', queue[user]), ~net'.handshake, ~IsOpen(net'.stream),
         Calm(net.stream, net'.stream)
  PROVE  IInv'
<1> USE DEF localVars
<1>1. net' \in NetType /\ net'.stream \in StreamType
  BY StreamOf DEF NetOK
<1>2. TypeOK'
  BY <1>1, Parts, WritesAssumption DEF TypeOK, Event
<1>3. LocalInv'
  BY Parts, LocalUnchanged DEF LocalInv, IssuedOK
<1>4. TokensOK(net'.stream, mail)
  BY <1>1, Parts, CalmKeepsTokens
<1>5. MailInv'
  BY <1>4, Parts DEF MailInv
<1>6. AnswersOK' /\ SpeaksForUser'
  BY DEF AnswersOK, AnswersOf, Shaken, SpeaksForUser
<1> QED  BY <1>2, <1>3, <1>5, <1>6 DEF IInv

LEMMA BreakIInv ==
  ASSUME IInv, Break
  PROVE  IInv'
<1>1. IsStarted(net.stream)
  BY DEF Break, IsOpen, IsStarted
<1>2. /\ NetOK(Fail(net), queue[user]) /\ ~Fail(net).handshake /\ ~IsOpen(Fail(net).stream)
      /\ Calm(net.stream, Fail(net).stream)
  BY <1>1, Parts, FailOK
<1>3. net' = Fail(net)
  BY DEF Break
<1> QED  BY <1>2, <1>3, CutOff DEF Break, serverVars

LEMMA OnBackoffElapsedIInv ==
  ASSUME IInv, OnBackoffElapsed
  PROVE  IInv'
<1>1. net.stream.backoff /\ net' = [net EXCEPT !.stream = BackoffElapsed(@)]
  BY DEF OnBackoffElapsed
<1>2. /\ NetOK(net', queue[user]) /\ net'.handshake = net.handshake /\ ~IsOpen(net'.stream)
      /\ ~IsOpen(net.stream) /\ Calm(net.stream, net'.stream)
  BY <1>1, Parts, BackoffOK
<1>3. ~net'.handshake
  BY <1>2, Parts
<1> QED  BY <1>2, <1>3, CutOff DEF OnBackoffElapsed, serverVars, appVars

LEMMA OnIdleTimeoutIInv ==
  ASSUME IInv, OnIdleTimeout
  PROVE  IInv'
<1>1. net.stream.idle /\ net' = Stop(net)
  BY DEF OnIdleTimeout
<1>2. /\ IsStarted(net.stream) /\ net.stream.ok /\ net.pipe = <<>>
      /\ net.stream.asked \subseteq 0..net.stream.count
  BY <1>1, Parts DEF NetOK, StreamOK, IsOpen, IsStarted
<1>3. /\ AtRest(net') /\ net'.stream.count > net.stream.count /\ net'.pipe = <<>>
      /\ ~net'.handshake
  BY <1>1, <1>2, Parts, StopOK
<1>4. NetOK(net', queue[user])
  BY <1>3, Parts, AtRestOK DEF PipeIsFront
<1>5. ~IsOpen(net'.stream) /\ Calm(net.stream, net'.stream)
  BY <1>3 DEF AtRest, IsOpen, IsStarted, Calm
<1> QED  BY <1>3, <1>4, <1>5, CutOff DEF OnIdleTimeout, serverVars, appVars

LEMMA SetNetworkIInv ==
  ASSUME IInv, SetNetwork
  PROVE  IInv'
<1>1. CASE net.enabled
  <2>1. net' = DisableNetwork(net)
    BY <1>1 DEF SetNetwork
  <2>2. /\ AtRest(net') /\ Calm(net.stream, net'.stream) /\ net'.pipe = <<>> /\ ~net'.handshake
    BY <2>1, Parts, DisableOK
  <2>3. NetOK(net', queue[user]) /\ ~IsOpen(net'.stream)
    BY <2>2, Parts, AtRestOK DEF PipeIsFront, AtRest, IsOpen, IsStarted
  <2> QED  BY <2>2, <2>3, CutOff DEF SetNetwork, serverVars
<1>2. CASE ~net.enabled
  <2>1. net' = EnableNetwork(net, queue[user])
    BY <1>2 DEF SetNetwork
  <2>2. net.pipe = <<>> /\ ~IsStarted(net.stream)
    BY <1>2, Parts DEF NetOK, StreamOK
  <2>3. AtRest(net) /\ ~net.handshake
    BY <2>2, Parts, NotStartedAtRest DEF IsOpen, IsStarted
  <2>4. /\ NetOK(net', queue[user]) /\ Calm(net.stream, net'.stream)
        /\ ~net'.handshake /\ ~IsOpen(net'.stream)
    BY <2>1, <2>2, <2>3, Parts, EnableOK
  <2> QED  BY <2>4, CutOff DEF SetNetwork, serverVars
<1> QED  BY <1>1, <1>2

LEMMA OnConnectivityChangeIInv ==
  ASSUME IInv, OnConnectivityChange
  PROVE  IInv'
<1>1. net' = RestartNetwork(net, queue[user])
  BY DEF OnConnectivityChange
<1>2. /\ NetOK(net', queue[user]) /\ Calm(net.stream, net'.stream)
      /\ ~net'.handshake /\ ~IsOpen(net'.stream)
  BY <1>1, Parts, RestartNetworkOK
<1> QED  BY <1>2, CutOff DEF OnConnectivityChange, serverVars

LEMMA InitIInv ==
  ASSUME Init
  PROVE  IInv
<1>1. /\ authUser = FirstUser /\ mail = <<>> /\ user = FirstUser /\ queue = [v \in Users |-> <<>>]
      /\ nextId = 1 /\ callbacks = [v \in Users |-> {}] /\ waiters = {}
      /\ net = EnableNetwork(NewNet(FirstUser), <<>>)
      /\ committed = {} /\ refused = {} /\ told = {} /\ heard = {}
      /\ awaited = [k \in WaitNames |-> {}] /\ waits = 0 /\ issued = 0 /\ events = 0
  BY DEF Init
<1>2. <<>> \in Seq(Batch) /\ Len(<<>>) = 0
  BY EmptySeq
<1>3. FirstUser \in Users /\ queue[FirstUser] = <<>> /\ \A u \in Users : Len(queue[u]) = 0
  BY <1>1, <1>2, WritesAssumption
<1>4. InOrder(<<>>)
  BY <1>2 DEF InOrder
<1>5. /\ AtRest(NewNet(FirstUser)) /\ NewNet(FirstUser).pipe = <<>>
      /\ ~NewNet(FirstUser).handshake
  BY <1>3, NewNetAtRest
<1>6. /\ NetOK(net, <<>>) /\ ~net.handshake /\ ~IsOpen(net.stream)
  BY <1>1, <1>2, <1>4, <1>5, EnableOK
<1>7. net \in NetType
  BY <1>6 DEF NetOK
<1>8. TypeOK
  <2>1. queue \in [Users -> Seq(Batch)]
    BY <1>1, <1>2
  <2>2. mail \in Seq([kind : {"user", "token"}, user : Users \union {NoUser}, count : Nat])
    BY <1>1, EmptySeq
  <2> QED  BY <1>1, <1>3, <1>7, <2>1, <2>2, WritesAssumption DEF TypeOK
<1>9. AnswersOK /\ SpeaksForUser
  BY <1>6 DEF AnswersOK, AnswersOf, Shaken, SpeaksForUser
<1>10. MailInv
  <2>1. Len(mail) = 0
    BY <1>1, EmptySeq
  <2>2. TokensOK(net.stream, mail)
    BY <2>1 DEF TokensOK
  <2>3. UserBefore(mail, user, Len(mail) + 1, authUser)
    BY <1>1, <2>1 DEF UserBefore
  <2> QED  BY <2>1, <2>2, <2>3 DEF MailInv, MailOK, UsersOK
<1>11. QueuesOK
  BY <1>1, <1>3 DEF QueuesOK, InOrder
<1>12. CallbacksOK /\ IssuedOK /\ WaitersOK /\ HeardOK
  BY <1>1 DEF CallbacksOK, IssuedOK, WaitersOK, HeardOK
<1> QED  BY <1>1, <1>3, <1>6, <1>8, <1>9, <1>10, <1>11, <1>12 DEF IInv, LocalInv
LEMMA WriteMutationsIInv ==
  ASSUME IInv, WriteMutations
  PROVE  IInv'
<1> DEFINE b == [id |-> nextId, w |-> issued + 1]
<1>1. /\ issued < MaxWrites /\ queue' = [queue EXCEPT ![user] = Append(@, b)]
      /\ net' = FillWritePipeline(net, queue'[user])
      /\ nextId' = nextId + 1 /\ issued' = issued + 1
      /\ UNCHANGED <<authUser, mail, user, waiters, committed, refused, told, heard, awaited,
                     waits, events>>
      /\ callbacks' = callbacks \/ callbacks' = [callbacks EXCEPT ![user] = @ \union {b}]
  BY DEF WriteMutations, serverVars
<1>2. LocalInv'
  BY Parts, LocalWritten
<1>3. /\ b \in Batch /\ queue' \in [Users -> Seq(Batch)] /\ queue'[user] = Append(queue[user], b)
      /\ Len(queue'[user]) = Len(queue[user]) + 1
      /\ \A i \in 1..Len(queue[user]) : queue'[user][i] = queue[user][i]
  BY <1>1, Parts, QueueAppended
<1> HIDE DEF b
<1>4. queue'[user] \in Seq(Batch) /\ InOrder(queue'[user]) /\ Len(queue[user]) \in Nat
  BY <1>1, <1>2, <1>3, Parts, QueueOf DEF LocalInv, QueuesOK
<1>5. NetOK(net, queue'[user])
  <2>1. PipeIsFront(net, queue[user]) /\ Len(net.pipe) \in Nat
    BY Parts, StreamOf DEF NetOK
  <2>2. PipeIsFront(net, queue'[user])
    BY <1>3, <1>4, <2>1 DEF PipeIsFront
  <2> QED  BY <2>2, Parts DEF NetOK
<1>6. /\ NetOK(net', queue'[user]) /\ Calm(net.stream, net'.stream) /\ SameCall(net, net')
      /\ Len(net.pipe) <= Len(net'.pipe)
  BY <1>1, <1>4, <1>5, FillOK
<1>7. net' \in NetType /\ net'.stream \in StreamType
  BY <1>6, StreamOf DEF NetOK
<1>8. TypeOK'
  <2>1. nextId' \in Nat /\ issued' \in 0..MaxWrites
    BY <1>1, Parts, WritesAssumption DEF TypeOK
  <2>2. callbacks' \in [Users -> SUBSET Batch]
    BY <1>1, <1>3, Parts, ZenonT(40) DEF TypeOK
  <2> QED  BY <1>1, <1>3, <1>7, <2>1, <2>2, Parts DEF TypeOK
<1>9. AnswersOK'
  <2>1. AnswersOf(net', committed, refused)
    BY <1>4, <1>5, <1>6, Parts, AnswersKept
  <2> QED  BY <1>1, <2>1 DEF AnswersOK
<1>10. SpeaksForUser' /\ (net'.handshake => IsOpen(net'.stream))
  BY <1>1, <1>6, Parts DEF SpeaksForUser, SameCall, IInv
<1>11. MailInv'
  <2>1. TokensOK(net'.stream, mail)
    BY <1>6, <1>7, Parts, CalmKeepsTokens
  <2> QED  BY <1>1, <2>1, Parts DEF MailInv
<1> QED  BY <1>1, <1>2, <1>6, <1>8, <1>9, <1>10, <1>11 DEF IInv

LEMMA RegisterIInv ==
  ASSUME IInv, RegisterPendingWritesCallback
  PROVE  IInv'
<1>1. LocalInv'
  BY Parts, LocalRegistered
<1>2. /\ UNCHANGED <<authUser, mail, user, queue, nextId, callbacks, net, committed, refused,
                     told, issued, events>>
      /\ waits < MaxWaits /\ waits' = waits + 1
      /\ awaited' = [awaited EXCEPT ![waits'] = PendingOf(user)]
      /\ \/ heard' = heard \union {<<waits', "ok">>} /\ waiters' = waiters
         \/ /\ queue[user] # <<>> /\ heard' = heard
            /\ waiters' = waiters \union {[id |-> Last(queue[user]).id, k |-> waits']}
  BY DEF RegisterPendingWritesCallback, serverVars, HighestUnacknowledgedBatchId
<1>3. waits' \in WaitNames /\ waits' \in 0..MaxWaits
  BY <1>2, Parts, WritesAssumption DEF TypeOK, WaitNames
<1>4. PendingOf(user) \in SUBSET WriteNames
  BY Parts, PendingWrites, QueueOf
<1>5. queue[user] # <<>> => Last(queue[user]).id \in Nat
  <2>1. queue[user] # <<>> => Len(queue[user]) \in 1..Len(queue[user])
    BY Parts, QueueOf, EmptySeq
  <2> QED  BY <2>1, Parts, QueueOf DEF Last
<1>6. TypeOK'
  <2>1. awaited' \in [WaitNames -> SUBSET WriteNames]
    BY <1>2, <1>3, <1>4, Parts DEF TypeOK
  <2>2. heard' \subseteq WaitNames \X {"ok", "cancelled"}
    BY <1>2, <1>3, Parts DEF TypeOK
  <2>3. waiters' \subseteq [id : Nat, k : WaitNames]
    BY <1>2, <1>3, <1>5, Parts DEF TypeOK
  <2> QED  BY <1>2, <1>3, <2>1, <2>2, <2>3, Parts DEF TypeOK
<1>7. /\ AnswersOK' /\ SpeaksForUser' /\ MailInv'
  BY <1>2, Parts DEF IInv, AnswersOK, SpeaksForUser, MailInv
<1> QED  BY <1>1, <1>2, <1>6, <1>7, Parts DEF IInv

LEMMA AuthStateDidChangeIInv ==
  ASSUME IInv, AuthStateDidChange
  PROVE  IInv'
<1>1. PICK u \in Users : /\ authUser' = u
                         /\ mail' = Append(mail, [kind |-> "user", user |-> u, count |-> 0])
  BY DEF AuthStateDidChange
<1>2. /\ UNCHANGED <<user, queue, nextId, callbacks, waiters, net, committed, refused,
                     told, heard, awaited, issued, waits>>
      /\ Event
  BY DEF AuthStateDidChange, localVars, serverVars
<1> DEFINE x == [kind |-> "user", user |-> u, count |-> 0]
<1>3. x \in MailType /\ x.kind = "user" /\ x.user = u
  BY DEF MailType
<1> HIDE DEF x
<1>4. mail' = Append(mail, x)
  BY <1>1 DEF x
<1>5. mail' \in Seq(MailType) /\ TokensOK(net.stream, mail') /\ MailOK(mail', user, authUser')
  BY <1>1, <1>3, <1>4, Parts, MailAppended, UserComes, MailUser
<1>a. UsersOK(mail')
  BY <1>3, <1>4, Parts, MailUsers
<1>6. TypeOK'
  BY <1>1, <1>2, <1>5, Parts, WritesAssumption DEF TypeOK, MailType, Event
<1>7. LocalInv'
  BY <1>2, Parts, LocalUnchanged DEF LocalInv, IssuedOK
<1>8. AnswersOK' /\ SpeaksForUser' /\ MailInv'
  BY <1>2, <1>5, <1>a, Parts DEF IInv, AnswersOK, SpeaksForUser, MailInv
<1> QED  BY <1>2, <1>6, <1>7, <1>8, Parts DEF IInv

LEMMA TokenArrivesIInv ==
  ASSUME IInv, NEW c, NEW u, TokenArrives(c, u), u = authUser \/ u = NoUser,
         events' = events \/ Event
  PROVE  IInv'
<1> DEFINE x == [kind |-> "token", user |-> u, count |-> c]
           t == [net.stream EXCEPT !.asked = @ \ {c}]
<1>1. /\ c \in net.stream.asked /\ net' = [net EXCEPT !.stream = t]
      /\ mail' = Append(mail, x)
      /\ UNCHANGED <<authUser, user, queue, nextId, callbacks, waiters, committed, refused,
                     told, heard, awaited, issued, waits>>
  BY DEF TokenArrives, localVars, serverVars
<1>2. /\ net \in NetType /\ net.stream \in StreamType
      /\ net.stream.asked \subseteq 0..net.stream.count
      /\ net.stream.count \in net.stream.asked => net.stream.state = "Starting"
  BY Parts DEF NetOK, StreamOK
<1>3. /\ t \in StreamType /\ t.state = net.stream.state /\ t.ok = net.stream.ok
      /\ t.backoff = net.stream.backoff /\ t.idle = net.stream.idle
      /\ t.count = net.stream.count /\ t.asked = net.stream.asked \ {c}
  BY <1>2 DEF StreamType
<1>4. /\ x \in MailType /\ x.kind = "token" /\ x.count = c /\ x.user = u
      /\ Came(x) => x.user = authUser
  <2>1. c \in Nat /\ u \in Users \union {NoUser}
    BY <1>1, <1>2, Parts DEF StreamType
  <2> QED  BY <2>1 DEF MailType, Came
<1>5. TokensOK(t, Append(mail, x))
  BY <1>1, <1>2, <1>3, <1>4, Parts, TokenComes
<1> HIDE DEF t, x
<1>6. /\ net' \in NetType /\ net'.stream = t /\ net'.enabled = net.enabled
      /\ net'.handshake = net.handshake /\ net'.pipe = net.pipe /\ net'.wire = net.wire
      /\ net'.replies = net.replies /\ net'.refusal = net.refusal /\ net'.as = net.as
  BY <1>1, <1>2, <1>3 DEF NetType
<1>7. /\ IsOpen(net'.stream) <=> IsOpen(net.stream)
      /\ IsStarted(net'.stream) <=> IsStarted(net.stream)
      /\ Shaken(net') <=> Shaken(net)
  BY <1>3, <1>6 DEF IsOpen, IsStarted, Shaken
<1>8. NetOK(net', queue[user])
  <2>1. StreamOK(net')
    BY <1>2, <1>3, <1>6, <1>7, Parts DEF StreamOK, NetOK
  <2>2. CallOK(net') /\ PipeIsFront(net', queue[user])
    BY <1>6, <1>7, Parts DEF CallOK, PipeIsFront, NetOK
  <2> QED  BY <1>6, <2>1, <2>2 DEF NetOK
<1>9. MailOK(mail', user, authUser) /\ mail' \in Seq(MailType)
  BY <1>1, <1>4, Parts, MailToken, MailAppended
<1>a. UsersOK(mail')
  <2>1. x.kind # "user"
    BY <1>4
  <2> QED  BY <1>1, <1>4, <2>1, Parts, MailUsers
<1>10. TypeOK'
  <2>1. events' \in 0..MaxEvents
    BY Parts, WritesAssumption DEF TypeOK, Event
  <2>2. mail' \in Seq([kind : {"user", "token"}, user : Users \union {NoUser}, count : Nat])
    BY <1>9 DEF MailType
  <2> QED  BY <1>1, <1>6, <2>1, <2>2, Parts DEF TypeOK
<1>11. LocalInv'
  BY <1>1, Parts, LocalUnchanged DEF LocalInv, IssuedOK
<1>12. AnswersOK' /\ SpeaksForUser'
  BY <1>1, <1>6, <1>7, Parts DEF AnswersOK, AnswersOf, SpeaksForUser, IInv
<1>13. MailInv'
  BY <1>1, <1>5, <1>6, <1>9, <1>a DEF MailInv
<1>14. net'.handshake => IsOpen(net'.stream)
  BY <1>6, <1>7, Parts
<1> QED  BY <1>1, <1>8, <1>10, <1>11, <1>12, <1>13, <1>14 DEF IInv
LEMMA HandleCredentialChangeIInv ==
  ASSUME IInv, HandleCredentialChange
  PROVE  IInv'
<1>1. /\ mail # <<>> /\ Head(mail).kind = "user" /\ mail' = Tail(mail)
      /\ user' = Head(mail).user /\ net' = OnUserChange(net, queue[user'])
      /\ UNCHANGED <<authUser, queue, callbacks, committed, refused, told, awaited, issued,
                     waits, events>>
      /\ \/ user' = user /\ UNCHANGED <<nextId, waiters, heard>>
         \/ /\ nextId' = NextBatchId(queue) /\ waiters' = {}
            /\ heard' = heard \union {<<x.k, "cancelled">> : x \in waiters}
  BY DEF HandleCredentialChange, serverVars
<1>2. mail' \in Seq(MailType) /\ UsersOK(mail') /\ user' \in Users
  BY <1>1, Parts, MailTail, MailUsers
<1>3. MailOK(mail', user', authUser)
  BY <1>1, Parts, MailRead
<1>4. queue[user'] \in Seq(Batch) /\ InOrder(queue[user'])
  BY <1>2, Parts, QueueOf DEF LocalInv, QueuesOK
<1>5. /\ NetOK(net', queue[user']) /\ Calm(net.stream, net'.stream)
      /\ ~net'.handshake /\ ~IsOpen(net'.stream)
  BY <1>1, <1>4, Parts, UserChangeOK
<1>6. net' \in NetType /\ net'.stream \in StreamType
  BY <1>5, StreamOf DEF NetOK
<1>7. LocalInv'
  <2>1. CASE user' = user /\ UNCHANGED <<nextId, waiters, heard>>
    BY <1>1, <2>1, Parts, LocalUnchanged DEF LocalInv, IssuedOK
  <2>2. CASE nextId' = NextBatchId(queue) /\ waiters' = {}
             /\ heard' = heard \union {<<x.k, "cancelled">> : x \in waiters}
    BY <1>1, <2>2, Parts, LocalChanged
  <2> QED  BY <1>1, <2>1, <2>2
<1>8. TypeOK'
  <2>1. nextId' \in Nat
    BY <1>7 DEF LocalInv, QueuesOK
  <2>2. waiters' \subseteq waiters /\ heard' \subseteq WaitNames \X {"ok", "cancelled"}
    BY <1>1, Parts DEF TypeOK
  <2>3. mail' \in Seq([kind : {"user", "token"}, user : Users \union {NoUser}, count : Nat])
    BY <1>2 DEF MailType
  <2> QED  BY <1>1, <1>2, <1>6, <2>1, <2>2, <2>3, Parts DEF TypeOK
<1>9. AnswersOK' /\ SpeaksForUser'
  BY <1>5 DEF AnswersOK, AnswersOf, Shaken, SpeaksForUser
<1>10. MailInv'
  <2>1. TokensOK(net'.stream, mail)
    BY <1>5, <1>6, Parts, CalmKeepsTokens
  <2>2. TokensOK(net'.stream, mail')
    BY <1>1, <1>6, <2>1, Parts, TokensRead
  <2> QED  BY <1>1, <1>2, <1>3, <2>2 DEF MailInv
<1> QED  BY <1>1, <1>5, <1>7, <1>8, <1>9, <1>10 DEF IInv

LEMMA RestartIInv ==
  ASSUME IInv, Restart
  PROVE  IInv'
<1>1. /\ mail' = <<>> /\ user' = authUser /\ nextId' = NextBatchId(queue)
      /\ callbacks' = [v \in Users |-> {}] /\ waiters' = {}
      /\ net' = EnableNetwork(NewNet(authUser), queue[authUser])
      /\ UNCHANGED <<authUser, queue, committed, refused, told, heard, awaited, issued, waits>>
      /\ Event
  BY DEF Restart, serverVars
<1>2. authUser \in Users /\ queue[authUser] \in Seq(Batch) /\ InOrder(queue[authUser])
  BY Parts, QueueOf DEF LocalInv, QueuesOK
<1>3. /\ NetOK(net', queue[authUser]) /\ ~net'.handshake /\ ~IsOpen(net'.stream)
  BY <1>1, <1>2, NewNetAtRest, EnableOK
<1>4. LocalInv'
  BY <1>1, Parts, LocalChanged
<1>5. net' \in NetType /\ net'.stream \in StreamType
  BY <1>3, StreamOf DEF NetOK
<1>6. Len(mail') = 0 /\ mail' \in Seq([kind : {"user", "token"}, user : Users \union {NoUser}, count : Nat])
  BY <1>1, EmptySeq
<1>7. TypeOK'
  <2>1. nextId' \in Nat
    BY <1>4 DEF LocalInv, QueuesOK
  <2>2. events' \in 0..MaxEvents
    BY <1>1, Parts, WritesAssumption DEF TypeOK, Event
  <2> QED  BY <1>1, <1>2, <1>5, <1>6, <2>1, <2>2, Parts DEF TypeOK
<1>8. AnswersOK' /\ SpeaksForUser'
  BY <1>3 DEF AnswersOK, AnswersOf, Shaken, SpeaksForUser
<1>9. MailInv'
  <2>1. TokensOK(net'.stream, mail') /\ UsersOK(mail')
    BY <1>6 DEF TokensOK, UsersOK
  <2>2. UserBefore(mail', user', Len(mail') + 1, authUser')
    BY <1>1, <1>6 DEF UserBefore
  <2> QED  BY <1>6, <2>1, <2>2 DEF MailInv, MailOK
<1> QED  BY <1>1, <1>3, <1>4, <1>7, <1>8, <1>9 DEF IInv
LEMMA ResumeIInv ==
  ASSUME IInv, ResumeStartWithCredentials
  PROVE  IInv'
<1> DEFINE x == Head(mail)
<1>1. /\ mail # <<>> /\ x.kind = "token" /\ mail' = Tail(mail)
      /\ net' = IF ~InTime(x) THEN net
                ELSE IF ~Came(x) THEN Fail(net)
                ELSE Send([net EXCEPT !.stream = ResumeStart(@), !.as = x.user], <<Handshake>>)
      /\ UNCHANGED <<authUser, user, queue, nextId, callbacks, waiters, committed, refused,
                     told, heard, awaited, issued, waits, events>>
  BY DEF ResumeStartWithCredentials, localVars, serverVars, appVars
<1>2. /\ mail' \in Seq(MailType) /\ UsersOK(mail') /\ x \in MailType
      /\ MailOK(mail', user, authUser) /\ (Came(x) => x.user = user)
      /\ TokensOK(net.stream, mail')
      /\ x.count = net.stream.count =>
            /\ net.stream.state = "Starting" /\ net.stream.count \notin net.stream.asked
            /\ \A i \in 1..Len(mail') : mail'[i].kind = "token" => mail'[i].count < net.stream.count
  BY <1>1, Parts, MailTail, MailUsers, MailRead, TokensRead
<1> HIDE DEF x
<1>3. LocalInv'
  BY <1>1, Parts, LocalUnchanged DEF LocalInv, IssuedOK
<1>4. ASSUME net' \in NetType PROVE TypeOK'
  <2>1. mail' \in Seq([kind : {"user", "token"}, user : Users \union {NoUser}, count : Nat])
    BY <1>2 DEF MailType
  <2> QED  BY <1>1, <1>4, <2>1, Parts DEF TypeOK
<1>5. CASE ~InTime(x)
  <2>1. net' = net
    BY <1>1, <1>5
  <2>2. AnswersOK' /\ SpeaksForUser' /\ MailInv'
    BY <1>1, <1>2, <2>1, Parts DEF IInv, AnswersOK, SpeaksForUser, MailInv
  <2> QED  BY <1>1, <1>3, <1>4, <2>1, <2>2, Parts DEF IInv
<1>6. CASE InTime(x) /\ ~Came(x)
  <2>1. net' = Fail(net) /\ IsStarted(net.stream)
    BY <1>1, <1>2, <1>6 DEF InTime, IsStarted
  <2>2. /\ NetOK(net', queue[user]) /\ ~net'.handshake /\ ~IsOpen(net'.stream)
        /\ Calm(net.stream, net'.stream)
    BY <2>1, Parts, FailOK
  <2>3. net' \in NetType /\ net'.stream \in StreamType
    BY <2>2, StreamOf DEF NetOK
  <2>4. AnswersOK' /\ SpeaksForUser'
    BY <2>2 DEF AnswersOK, AnswersOf, Shaken, SpeaksForUser
  <2>5. TokensOK(net'.stream, mail')
    BY <1>2, <2>2, <2>3, Parts, CalmKeepsTokens
  <2>6. MailInv'
    BY <1>1, <1>2, <2>5 DEF MailInv
  <2> QED  BY <1>1, <1>3, <1>4, <2>2, <2>3, <2>4, <2>6 DEF IInv
<1>7. CASE InTime(x) /\ Came(x)
  <2>1. /\ net' = Send([net EXCEPT !.stream = ResumeStart(@), !.as = user], <<Handshake>>)
        /\ net.stream.state = "Starting" /\ net.stream.count \notin net.stream.asked
        /\ ~net.handshake
    BY <1>1, <1>2, <1>7, Parts DEF InTime, IsOpen
  <2>2. /\ NetOK(net', queue[user]) /\ ~net'.handshake /\ IsOpen(net'.stream) /\ net'.as = user
        /\ net'.stream.count = net.stream.count
    BY <2>1, Parts, ResumeOK
  <2>3. net' \in NetType /\ net'.stream \in StreamType
    BY <2>2, StreamOf DEF NetOK
  <2>4. AnswersOK' /\ SpeaksForUser'
    BY <1>1, <2>2 DEF AnswersOK, AnswersOf, Shaken, SpeaksForUser
  <2>5. TokensOK(net'.stream, mail')
    <3>1. net.stream.count \in Nat
      BY Parts DEF StreamType
    <3>2. ASSUME NEW i \in 1..Len(mail'), mail'[i].kind = "token"
          PROVE  mail'[i].count < net'.stream.count /\ mail'[i].count \in Nat
      <4>1. mail'[i] \in MailType
        BY <1>2, ElementOfSeq
      <4> QED  BY <1>2, <1>7, <2>2, <3>2, <4>1 DEF InTime, MailType
    <3>3. ASSUME NEW i \in 1..Len(mail'), mail'[i].kind = "token"
          PROVE  mail'[i].count <= net'.stream.count /\ mail'[i].count # net'.stream.count
      BY <2>2, <3>1, <3>2, <3>3
    <3> QED  BY <3>3 DEF TokensOK
  <2>6. MailInv'
    BY <1>1, <1>2, <2>5 DEF MailInv
  <2> QED  BY <1>1, <1>3, <1>4, <2>2, <2>3, <2>4, <2>6 DEF IInv
<1> QED  BY <1>5, <1>6, <1>7

\* The write that the backend reads next is one that was made.
LEMMA FrontIsIssued ==
  ASSUME IInv, net.handshake, NEW k \in 1..Len(net.pipe)
  PROVE  /\ k \in 1..Len(queue[user]) /\ net.pipe[k].w = queue[user][k].w
         /\ net.pipe[k].w \in WriteNames /\ net.pipe[k].w \in 1..issued
<1>1. /\ Len(net.pipe) <= Len(queue[user]) /\ net.pipe[k] = queue[user][k]
      /\ Len(net.pipe) \in Nat /\ Len(queue[user]) \in Nat
  BY Parts, QueueOf, StreamOf DEF NetOK, PipeIsFront
<1>2. k \in 1..Len(queue[user])
  BY <1>1
<1>3. queue[user][k].w \in WriteNames /\ queue[user][k].w <= issued /\ issued \in Nat
  BY <1>2, Parts, QueueOf DEF LocalInv, QueuesOK, TypeOK
<1> QED  BY <1>1, <1>2, <1>3 DEF WriteNames

LEMMA ServerRepliesIInv ==
  ASSUME IInv, ServerReplies
  PROVE  IInv'
<1> DEFINE h == Head(net.wire)
<1>1. /\ net.wire # <<>> /\ ~net.refusal
      /\ net' = [net EXCEPT !.wire = Tail(@), !.replies = Append(@, h)]
      /\ committed' = committed \union ({h} \ {Handshake})
      /\ UNCHANGED <<authUser, mail, user, queue, nextId, callbacks, waiters, refused,
                     told, heard, awaited, issued, waits, events>>
  BY DEF ServerReplies, localVars, appVars
<1>2. /\ NetOK(net', queue[user]) /\ net'.stream = net.stream /\ net'.as = net.as
      /\ net'.handshake = net.handshake /\ net'.pipe = net.pipe /\ ~net'.refusal
      /\ net'.replies = Append(net.replies, h)
  BY <1>1, Parts, ReplyOK
<1>3. /\ IsOpen(net.stream) /\ h \in Messages
      /\ \/ ~net.handshake /\ h = Handshake
         \/ /\ net.handshake /\ Len(net.replies) + 1 \in 1..Len(net.pipe)
            /\ h = net.pipe[Len(net.replies) + 1].w /\ h # Handshake
  BY <1>1, Parts, FrontOfCall
<1> HIDE DEF h
<1>4. /\ net' \in NetType /\ net.replies \in Seq(Messages) /\ Len(net.replies) \in Nat
      /\ committed \subseteq 1..issued /\ refused \subseteq 1..issued
      /\ committed \subseteq WriteNames
  BY <1>2, Parts, StreamOf DEF NetOK, LocalInv, IssuedOK, TypeOK
<1>5. committed' \subseteq 1..issued /\ committed' \subseteq WriteNames
  <2>1. CASE ~net.handshake /\ h = Handshake
    BY <1>1, <1>4, <2>1
  <2>2. CASE /\ net.handshake /\ Len(net.replies) + 1 \in 1..Len(net.pipe)
             /\ h = net.pipe[Len(net.replies) + 1].w /\ h # Handshake
    <3>1. h \in 1..issued /\ h \in WriteNames
      BY <2>2, FrontIsIssued
    <3> QED  BY <1>1, <1>4, <3>1
  <2> QED  BY <1>3, <2>1, <2>2
<1>6. TypeOK'
  BY <1>1, <1>4, <1>5, Parts DEF TypeOK
<1>7. LocalInv'
  BY <1>1, <1>4, <1>5, Parts, LocalUnchanged
<1>8. AnswersOK'
  <2> SUFFICES ASSUME Shaken(net')
               PROVE  \A i \in 1..Len(net'.replies) : net'.pipe[i].w \in committed'
    BY <1>2 DEF AnswersOK, AnswersOf
  <2>1. /\ Shaken(net) /\ Len(net.replies) + 1 \in 1..Len(net.pipe)
        /\ h = net.pipe[Len(net.replies) + 1].w /\ h # Handshake
    BY <1>2, <1>3 DEF Shaken
  <2>2. Len(net'.replies) = Len(net.replies) + 1
    BY <1>2, <1>3, <1>4, AppendProperties
  <2>3. \A i \in 1..Len(net.replies) : net.pipe[i].w \in committed
    BY <2>1, Parts DEF AnswersOf
  <2>4. ASSUME NEW i \in 1..Len(net'.replies) PROVE net.pipe[i].w \in committed'
    <3>1. CASE i \in 1..Len(net.replies)
      BY <1>1, <2>3, <3>1
    <3>2. CASE i = Len(net.replies) + 1
      BY <1>1, <2>1, <3>2
    <3> QED  BY <1>4, <2>2, <3>1, <3>2
  <2> QED  BY <1>2, <2>4
<1>9. SpeaksForUser' /\ MailInv'
  BY <1>1, <1>2, Parts DEF IInv, SpeaksForUser, MailInv
<1>10. net'.handshake => IsOpen(net'.stream)
  BY <1>2, Parts
<1> QED  BY <1>1, <1>2, <1>6, <1>7, <1>8, <1>9, <1>10 DEF IInv

LEMMA ServerRefusesIInv ==
  ASSUME IInv, ServerRefuses
  PROVE  IInv'
<1> DEFINE h == Head(net.wire)
<1>1. /\ net.wire # <<>> /\ ~net.refusal /\ h # Handshake
      /\ net' = [net EXCEPT !.wire = <<>>, !.refusal = TRUE]
      /\ refused' = refused \union {h}
      /\ UNCHANGED <<authUser, mail, user, queue, nextId, callbacks, waiters, committed,
                     told, heard, awaited, issued, waits, events>>
  BY DEF ServerRefuses, localVars, appVars
<1>2. /\ NetOK(net', queue[user]) /\ net'.stream = net.stream /\ net'.as = net.as
      /\ net'.handshake = net.handshake /\ net'.pipe = net.pipe /\ net'.refusal
      /\ net'.replies = net.replies
  BY <1>1, Parts, RefuseOK
<1>3. /\ IsOpen(net.stream) /\ net.handshake
      /\ Len(net.replies) + 1 \in 1..Len(net.pipe)
      /\ h = net.pipe[Len(net.replies) + 1].w
  BY <1>1, Parts, FrontOfCall
<1> HIDE DEF h
<1>4. h \in 1..issued /\ h \in WriteNames
  BY <1>3, FrontIsIssued
<1>5. /\ net' \in NetType /\ committed \subseteq 1..issued
      /\ refused' \subseteq 1..issued /\ refused' \subseteq WriteNames
  BY <1>1, <1>2, <1>4, Parts DEF NetOK, LocalInv, IssuedOK, TypeOK
<1>6. TypeOK'
  BY <1>1, <1>5, Parts DEF TypeOK
<1>7. LocalInv'
  BY <1>1, <1>5, Parts, LocalUnchanged
<1>8. AnswersOK'
  <2>1. \A i \in 1..Len(net.replies) : net.pipe[i].w \in committed
    BY <1>3, Parts DEF AnswersOf, Shaken
  <2> QED  BY <1>1, <1>2, <1>3, <2>1 DEF AnswersOK, AnswersOf
<1>9. SpeaksForUser' /\ MailInv'
  BY <1>1, <1>2, Parts DEF IInv, SpeaksForUser, MailInv
<1>10. net'.handshake => IsOpen(net'.stream)
  BY <1>2, Parts
<1> QED  BY <1>1, <1>2, <1>6, <1>7, <1>8, <1>9, <1>10 DEF IInv

LEMMA HandshakeCompleteIInv ==
  ASSUME IInv, OnWriteStreamHandshakeComplete
  PROVE  IInv'
<1>1. /\ net.replies # <<>> /\ ~net.handshake
      /\ net' = Send([net EXCEPT !.replies = Tail(@), !.handshake = TRUE], WritesOf(net.pipe))
      /\ UNCHANGED <<authUser, mail, user, queue, nextId, callbacks, waiters, committed, refused,
                     told, heard, awaited, issued, waits, events>>
  BY DEF OnWriteStreamHandshakeComplete, localVars, serverVars, appVars
<1>2. /\ NetOK(net', queue[user]) /\ IsOpen(net'.stream) /\ net'.as = net.as
      /\ net'.replies = <<>> /\ ~net'.refusal
      /\ net'.stream.count = net.stream.count /\ net'.stream.state = "Open"
      /\ IsOpen(net.stream)
  BY <1>1, Parts, ShakenOK
<1>3. net' \in NetType /\ net'.stream \in StreamType
  BY <1>2, StreamOf DEF NetOK
<1>4. TypeOK'
  BY <1>1, <1>3, Parts DEF TypeOK
<1>5. LocalInv'
  BY <1>1, Parts, LocalUnchanged DEF LocalInv, IssuedOK
<1>6. AnswersOK' /\ SpeaksForUser'
  <2>1. Len(net'.replies) = 0
    BY <1>2, EmptySeq
  <2>2. AnswersOK'
    BY <1>2, <2>1 DEF AnswersOK, AnswersOf
  <2>3. SpeaksForUser'
    BY <1>1, <1>2 DEF IInv, SpeaksForUser
  <2> QED  BY <2>2, <2>3
<1>7. MailInv'
  <2>1. Calm(net.stream, net'.stream)
    BY <1>2 DEF Calm, IsOpen
  <2>2. TokensOK(net'.stream, mail)
    BY <1>3, <2>1, Parts, CalmKeepsTokens
  <2> QED  BY <1>1, <2>2, Parts DEF MailInv
<1> QED  BY <1>1, <1>2, <1>4, <1>5, <1>6, <1>7 DEF IInv
\* What both kinds of verdict do to the local state.
LEMMA Settled ==
  ASSUME IInv, queue[user] # <<>>, NEW verdict \in {"ok", "error"},
         NotifyUser(Head(queue[user]).id, verdict),
         TriggerPendingWriteCallbacks(Head(queue[user]).id),
         queue' = RemoveBatch(Head(queue[user]).id),
         UNCHANGED <<user, nextId, committed, refused, awaited, issued, waits>>
  PROVE  /\ LocalInv' /\ queue' = [queue EXCEPT ![user] = Tail(@)]
         /\ queue' \in [Users -> Seq(Batch)] /\ queue'[user] = Tail(queue[user])
         /\ callbacks' \in [Users -> SUBSET Batch]
         /\ waiters' \subseteq waiters
         /\ told' \subseteq WriteNames \X {"ok", "error"}
         /\ heard' \subseteq WaitNames \X {"ok", "cancelled"}
<1> DEFINE id == Head(queue[user]).id
<1>1. RemoveBatch(id) = [queue EXCEPT ![user] = Tail(@)]
  <2>1. HasBatch(queue[user], id) /\ RemoveAt(queue[user], Seek(queue[user], id)) = Tail(queue[user])
    BY Parts, FrontRemoved
  <2> QED  BY <2>1 DEF RemoveBatch
<1>2. LocalInv' /\ queue' \in [Users -> Seq(Batch)]
  BY <1>1, Parts, LocalSettled
<1>3. queue'[user] = Tail(queue[user])
  BY <1>1, Parts DEF TypeOK
<1>4. /\ callbacks' = [callbacks EXCEPT ![user] = @ \ {b \in callbacks[user] : b.id = id}]
      /\ told' = told \union {<<b.w, verdict>> : b \in {c \in callbacks[user] : c.id = id}}
      /\ waiters' = waiters \ {x \in waiters : x.id = id}
      /\ heard' = heard \union {<<x.k, "ok">> : x \in {y \in waiters : y.id = id}}
  BY DEF NotifyUser, TriggerPendingWriteCallbacks
<1> HIDE DEF id
<1>5. callbacks' \in [Users -> SUBSET Batch]
  BY <1>4, Parts DEF TypeOK
<1>6. told' \subseteq WriteNames \X {"ok", "error"}
  <2>1. \A b \in callbacks[user] : b.w \in WriteNames
    BY Parts DEF TypeOK, Batch
  <2> QED  BY <1>4, <2>1, Parts DEF TypeOK
<1>7. heard' \subseteq WaitNames \X {"ok", "cancelled"}
  BY <1>4, Parts DEF TypeOK
<1>8. waiters' \subseteq waiters
  BY <1>4
<1> QED  BY <1>1, <1>2, <1>3, <1>5, <1>6, <1>7, <1>8 DEF id

\* A result settles the write at the front of the user's queue, which the
\* backend has committed.
LEMMA ResultSettles ==
  ASSUME IInv, OnWriteStreamMutationResult
  PROVE  LET read == [net EXCEPT !.replies = Tail(@), !.pipe = Tail(@),
                          !.stream = HardAssert(@, HasBatch(queue[user], Head(net.pipe).id))]
         IN  /\ net.replies # <<>> /\ net.handshake
             /\ net.pipe # <<>> /\ queue[user] # <<>> /\ Head(net.pipe) = Head(queue[user])
             /\ NotifyUser(Head(queue[user]).id, "ok")
             /\ TriggerPendingWriteCallbacks(Head(queue[user]).id)
             /\ queue' = RemoveBatch(Head(queue[user]).id)
             /\ net' = FillWritePipeline(read, queue'[user])
             /\ UNCHANGED <<authUser, mail, user, nextId, committed, refused, awaited, issued,
                            waits, events>>
<1>1. /\ net.replies # <<>> /\ net.handshake
      /\ UNCHANGED <<authUser, mail, user, nextId, committed, refused, awaited, issued,
                     waits, events>>
  BY DEF OnWriteStreamMutationResult, serverVars
<1>2. net.pipe # <<>> /\ queue[user] # <<>> /\ Head(net.pipe) = Head(queue[user])
  BY <1>1, Parts, ResultRead
<1> QED  BY <1>1, <1>2 DEF OnWriteStreamMutationResult

LEMMA MutationResultIInv ==
  ASSUME IInv, OnWriteStreamMutationResult
  PROVE  IInv'
<1> DEFINE q == queue[user]
           read == [net EXCEPT !.replies = Tail(@), !.pipe = Tail(@),
                        !.stream = HardAssert(@, HasBatch(q, Head(net.pipe).id))]
<1>1. /\ net.replies # <<>> /\ net.handshake
      /\ q # <<>> /\ NotifyUser(Head(q).id, "ok") /\ TriggerPendingWriteCallbacks(Head(q).id)
      /\ queue' = RemoveBatch(Head(q).id) /\ net' = FillWritePipeline(read, queue'[user])
      /\ UNCHANGED <<authUser, mail, user, nextId, committed, refused, awaited, issued,
                     waits, events>>
  BY ResultSettles
<1>2. /\ LocalInv' /\ queue' \in [Users -> Seq(Batch)] /\ queue'[user] = Tail(q)
      /\ callbacks' \in [Users -> SUBSET Batch] /\ waiters' \subseteq waiters
      /\ told' \subseteq WriteNames \X {"ok", "error"}
      /\ heard' \subseteq WaitNames \X {"ok", "cancelled"}
  BY <1>1, Settled
<1>3. /\ NetOK(read, Tail(q)) /\ read.stream = net.stream /\ read.as = net.as
      /\ read.handshake = net.handshake
      /\ AnswersOf(read, committed, refused) /\ IsOpen(net.stream)
  BY <1>1, Parts, ResultRead
<1>4. Tail(q) \in Seq(Batch) /\ InOrder(Tail(q))
  BY <1>1, Parts, FrontRemoved
<1> HIDE DEF read
<1>5. /\ NetOK(net', Tail(q)) /\ Calm(read.stream, net'.stream) /\ SameCall(read, net')
      /\ Len(read.pipe) <= Len(net'.pipe)
  BY <1>1, <1>2, <1>3, <1>4, FillOK
<1>6. net' \in NetType /\ net'.stream \in StreamType
  BY <1>5, StreamOf DEF NetOK
<1>7. TypeOK'
  BY <1>1, <1>2, <1>6, Parts DEF TypeOK
<1>8. AnswersOK'
  <2>1. AnswersOf(net', committed, refused)
    BY <1>3, <1>4, <1>5, AnswersKept
  <2> QED  BY <1>1, <2>1 DEF AnswersOK
<1>9. SpeaksForUser' /\ (net'.handshake => IsOpen(net'.stream))
  BY <1>1, <1>3, <1>5 DEF IInv, SpeaksForUser, SameCall
<1>10. MailInv'
  <2>1. TokensOK(net'.stream, mail)
    BY <1>3, <1>5, <1>6, Parts, CalmKeepsTokens
  <2> QED  BY <1>1, <2>1, Parts DEF MailInv
<1>11. NetOK(net', queue'[user'])
  BY <1>1, <1>2, <1>5
<1> QED  BY <1>2, <1>7, <1>8, <1>9, <1>10, <1>11 DEF IInv

\* So does a refusal, of that write or of one behind it.
LEMMA RejectionSettles ==
  ASSUME IInv, OnWriteRejected
  PROVE  LET read == [Closed(net, FALSE) EXCEPT !.pipe = Tail(@),
                          !.stream = HardAssert(InhibitBackoff(@),
                                         HasBatch(queue[user], Head(net.pipe).id))]
         IN  /\ net.refusal
             /\ queue[user] # <<>>
             /\ NotifyUser(Head(queue[user]).id, "error")
             /\ TriggerPendingWriteCallbacks(Head(queue[user]).id)
             /\ queue' = RemoveBatch(Head(queue[user]).id)
             /\ net' = [StartIfNeeded(FillWritePipeline(read, queue'[user])) EXCEPT !.handshake = FALSE]
             /\ UNCHANGED <<authUser, mail, user, nextId, committed, refused, awaited, issued,
                            waits, events>>
<1>1. /\ net.refusal
      /\ UNCHANGED <<authUser, mail, user, nextId, committed, refused, awaited, issued,
                     waits, events>>
  BY DEF OnWriteRejected, serverVars
<1>2. /\ net.pipe # <<>> /\ queue[user] # <<>> /\ Head(net.pipe) = Head(queue[user])
      /\ net.handshake
  BY <1>1, Parts, RejectionRead
<1> QED  BY <1>1, <1>2 DEF OnWriteRejected

LEMMA OnWriteRejectedIInv ==
  ASSUME IInv, OnWriteRejected
  PROVE  IInv'
<1> DEFINE q == queue[user]
           read == [Closed(net, FALSE) EXCEPT !.pipe = Tail(@),
                        !.stream = HardAssert(InhibitBackoff(@), HasBatch(q, Head(net.pipe).id))]
           m == [StartIfNeeded(FillWritePipeline(read, Tail(q))) EXCEPT !.handshake = FALSE]
<1>1. /\ net.refusal
      /\ q # <<>> /\ NotifyUser(Head(q).id, "error") /\ TriggerPendingWriteCallbacks(Head(q).id)
      /\ queue' = RemoveBatch(Head(q).id)
      /\ net' = [StartIfNeeded(FillWritePipeline(read, queue'[user])) EXCEPT !.handshake = FALSE]
      /\ UNCHANGED <<authUser, mail, user, nextId, committed, refused, awaited, issued,
                     waits, events>>
  BY RejectionSettles
<1>2. /\ LocalInv' /\ queue' \in [Users -> Seq(Batch)] /\ queue'[user] = Tail(q)
      /\ callbacks' \in [Users -> SUBSET Batch] /\ waiters' \subseteq waiters
      /\ told' \subseteq WriteNames \X {"ok", "error"}
      /\ heard' \subseteq WaitNames \X {"ok", "cancelled"}
  BY <1>1, Settled
<1>3. /\ NetOK(m, Tail(q)) /\ ~m.handshake /\ ~IsOpen(m.stream) /\ Calm(net.stream, m.stream)
  BY <1>1, Parts, RejectionRead
<1>4. net' = m
  BY <1>1, <1>2
<1> HIDE DEF m
<1>6. net' \in NetType /\ net'.stream \in StreamType
  BY <1>3, <1>4, StreamOf DEF NetOK
<1>7. TypeOK'
  BY <1>1, <1>2, <1>6, Parts DEF TypeOK
<1>8. AnswersOK' /\ SpeaksForUser'
  BY <1>3, <1>4 DEF AnswersOK, AnswersOf, Shaken, SpeaksForUser
<1>9. MailInv'
  <2>1. TokensOK(net'.stream, mail)
    BY <1>3, <1>4, <1>6, Parts, CalmKeepsTokens
  <2> QED  BY <1>1, <2>1, Parts DEF MailInv
<1>10. NetOK(net', queue'[user']) /\ ~net'.handshake
  BY <1>1, <1>2, <1>3, <1>4
<1> QED  BY <1>2, <1>7, <1>8, <1>9, <1>10 DEF IInv
LEMMA StutterIInv ==
  ASSUME IInv, UNCHANGED vars
  PROVE  IInv'
<1> USE DEF vars, localVars, serverVars, appVars
<1>1. TypeOK'
  BY Parts DEF TypeOK
<1>2. NetOK(net', queue'[user']) /\ (net'.handshake => IsOpen(net'.stream))
  BY Parts
<1>3. AnswersOK' /\ SpeaksForUser'
  BY DEF IInv, AnswersOK, SpeaksForUser
<1>4. MailInv'
  BY Parts DEF MailInv
<1>5. LocalInv'
  BY Parts, LocalUnchanged DEF LocalInv, IssuedOK
<1> QED  BY <1>1, <1>2, <1>3, <1>4, <1>5 DEF IInv

LEMMA NextIInv ==
  ASSUME IInv, [Next]_vars
  PROVE  IInv'
<1>1. CASE GetToken
  <2>1. PICK c \in net.stream.asked : TokenArrives(c, authUser) /\ events' = events
    BY <1>1 DEF GetToken
  <2> QED  BY <2>1, TokenArrivesIInv
<1>2. CASE TokenFails
  <2>1. PICK c \in net.stream.asked : TokenArrives(c, NoUser) /\ Event
    BY <1>2 DEF TokenFails
  <2> QED  BY <2>1, TokenArrivesIInv
<1> QED
  BY <1>1, <1>2, StutterIInv, WriteMutationsIInv, RegisterIInv, AuthStateDidChangeIInv,
     HandleCredentialChangeIInv, ResumeIInv, OnBackoffElapsedIInv, OnIdleTimeoutIInv,
     ServerRepliesIInv, ServerRefusesIInv, HandshakeCompleteIInv, MutationResultIInv,
     OnWriteRejectedIInv, BreakIInv, SetNetworkIInv, OnConnectivityChangeIInv, RestartIInv
  DEF Next

\* The invariant is inductive.
LEMMA Inductive == Spec => []IInv
<1> QED  BY InitIInv, NextIInv, PTL DEF Spec

-----------------------------------------------------------------------------
\* In every state reached, the variables have their types and no assertion of
\* the client has failed, whatever the order of closes, tokens, timers,
\* replies, user changes and restarts.
THEOREM WritesWellFormed == Spec => []WellFormed
<1>1. IInv => WellFormed
  BY DEF IInv, NetOK, StreamOK, WellFormed
<1> QED  BY <1>1, Inductive, PTL

\* No user's writes go out on a stream that carries another's token, however
\* token requests, user changes and the pipeline overtake each other.
THEOREM AlwaysSpeaksForUser == Spec => []StreamSpeaksForUser
<1>1. ASSUME IInv PROVE StreamSpeaksForUser
  <2> SUFFICES ASSUME NEW i \in DOMAIN net.wire, net.wire[i] # Handshake
               PROVE  net.wire[i] \in PendingOf(net.as)
    BY DEF StreamSpeaksForUser
  <2>1. /\ net.wire \in Seq(Messages) /\ Len(net.wire) \in Nat /\ i \in 1..Len(net.wire)
        /\ Len(net.pipe) \in Nat
    BY <1>1, Parts, StreamOf DEF NetType
  <2>2. net.wire # <<>>
    BY <2>1, EmptySeq
  <2>3. CallOK(net)
    BY <1>1, Parts DEF NetOK
  <2>4. IsOpen(net.stream)
    BY <2>2, <2>3 DEF CallOK
  <2>5. net.handshake
    <3>1. CASE net.wire = <<Handshake>>
      <4>1. i = 1
        BY <2>1, <3>1
      <4> QED  BY <3>1, <4>1
    <3> QED  BY <2>2, <2>3, <2>4, <3>1 DEF CallOK
  <2>6. Matches(net.replies, net.wire, net.pipe, net.refusal)
    BY <2>3, <2>4, <2>5 DEF CallOK, Shaken
  <2> DEFINE k == Len(net.pipe) - Len(net.wire) + i
  <2>7. net.wire[i] = net.pipe[k].w
    BY <2>1, <2>6 DEF Matches
  <2>8. k \in 1..Len(net.pipe)
    <3> DEFINE nr == Len(net.replies)
               nw == Len(net.wire)
               np == Len(net.pipe)
    <3>1. nr \in Nat /\ nw \in Nat /\ np \in Nat /\ i \in 1..nw
      BY <1>1, <2>1, Parts, StreamOf DEF NetType
    <3>2. nr + nw <= np
      <4>1. (~net.refusal => nr + nw = np) /\ (net.refusal => nr + nw < np)
        BY <2>6 DEF Matches
      <4> HIDE DEF nr, nw, np
      <4> QED  BY <3>1, <4>1
    <3> HIDE DEF nr, nw, np
    <3>3. np - nw + i \in 1..np
      BY <3>1, <3>2
    <3> QED  BY <3>3 DEF nr, nw, np
  <2> HIDE DEF k
  <2>9. k \in 1..Len(queue[user]) /\ net.pipe[k].w = queue[user][k].w
    BY <1>1, <2>5, <2>8, FrontIsIssued
  <2>10. net.as = user
    BY <1>1, <2>4 DEF IInv, SpeaksForUser
  <2>11. queue[user][k].w \in PendingOf(user)
    BY <1>1, <2>9, Parts, PendingWrites
  <2> QED  BY <2>7, <2>9, <2>10, <2>11
<1> QED  BY <1>1, Inductive, PTL

\* A call of waitForPendingWrites is answered once, and OK means that no write
\* made before it is left in any user's queue.
THEOREM WaitersHear == Spec => []WaitersHearTheTruth
<1>1. ASSUME IInv PROVE WaitersHearTheTruth
  <2> SUFFICES ASSUME NEW k \in WaitNames
               PROVE  /\ Cardinality({a \in heard : a[1] = k}) <= 1
                      /\ <<k, "ok">> \in heard => awaited[k] \cap Pending = {}
    BY DEF WaitersHearTheTruth
  <2>1. HeardOK
    BY <1>1, Parts DEF LocalInv
  <2>2. Cardinality({a \in heard : a[1] = k}) <= 1
    <3> DEFINE S == {a \in heard : a[1] = k}
    <3>1. CASE S = {}
      BY <3>1, FS_EmptySet
    <3>2. CASE S # {}
      <4>1. PICK a \in S : TRUE
        BY <3>2
      <4>2. S = {a}
        BY <2>1, <4>1 DEF HeardOK
      <4>3. Cardinality({a}) = 1
        BY FS_Singleton
      <4> HIDE DEF S
      <4> QED  BY <4>2, <4>3 DEF S
    <3> QED  BY <3>1, <3>2
  <2>3. ASSUME <<k, "ok">> \in heard, NEW w \in awaited[k] PROVE w \notin Pending
    <3> SUFFICES ASSUME NEW u \in Users, w \in PendingOf(u) PROVE FALSE
      BY DEF Pending
    <3>1. PICK i \in 1..Len(queue[u]) : w = queue[u][i].w
      BY <1>1, Parts, PendingWrites
    <3> QED  BY <2>1, <2>3, <3>1 DEF HeardOK
  <2> QED  BY <2>2, <2>3
<1> QED  BY <1>1, Inductive, PTL
-----------------------------------------------------------------------------
(* The client implements WriteLog.                                         *)

LEMMA WritesOfAppend ==
  ASSUME NEW q \in Seq(Batch), NEW b \in Batch
  PROVE  WritesOf(Append(q, b)) = Append(WritesOf(q), b.w)
<1> DEFINE a == Append(q, b)
           s == WritesOf(q)
           t == WritesOf(a)
<1>1. /\ a \in Seq(Batch) /\ Len(a) = Len(q) + 1 /\ Len(q) \in Nat
      /\ a[Len(q) + 1] = b /\ \A i \in 1..Len(q) : a[i] = q[i]
  BY AppendProperties
<1>2. /\ s \in Seq(Messages) /\ Len(s) = Len(q) /\ \A i \in 1..Len(q) : s[i] = q[i].w
  BY WritesOfSeq
<1> HIDE DEF a
<1>3. /\ t \in Seq(Messages) /\ Len(t) = Len(a) /\ \A i \in 1..Len(a) : t[i] = a[i].w
  BY <1>1, WritesOfSeq
<1>4. b.w \in Messages
  BY DEF Batch, Messages
<1> HIDE DEF s, t
<1> DEFINE r == Append(s, b.w)
<1>5. /\ r \in Seq(Messages) /\ Len(r) = Len(q) + 1 /\ r[Len(q) + 1] = b.w
      /\ \A i \in 1..Len(q) : r[i] = s[i]
  BY <1>2, <1>4, AppendProperties
<1> HIDE DEF r
<1>6. ASSUME NEW i \in 1..Len(t) PROVE t[i] = r[i]
  <2>1. i \in 1..Len(a) /\ (i \in 1..Len(q) \/ i = Len(q) + 1)
    BY <1>1, <1>3
  <2>2. t[i] = a[i].w
    BY <1>3, <2>1
  <2> QED  BY <1>1, <1>2, <1>5, <2>1, <2>2
<1>7. t = r
  BY <1>1, <1>3, <1>5, <1>6, SeqEqual
<1> QED  BY <1>7 DEF r, s, t, a

LEMMA WritesOfTail ==
  ASSUME NEW q \in Seq(Batch), q # <<>>, InOrder(q)
  PROVE  /\ WritesOf(q) # <<>> /\ Head(WritesOf(q)) = Head(q).w
         /\ WritesOf(Tail(q)) = Tail(WritesOf(q))
<1> DEFINE a == Tail(q)
           s == WritesOf(q)
           t == WritesOf(a)
           r == Tail(s)
<1>1. /\ a \in Seq(Batch) /\ Len(a) = Len(q) - 1 /\ Len(q) \in Nat /\ Len(q) >= 1
      /\ Head(q) = q[1] /\ \A i \in 1..Len(a) : a[i] = q[i + 1]
  BY FrontRemoved
<1>2. /\ s \in Seq(Messages) /\ Len(s) = Len(q) /\ \A i \in 1..Len(q) : s[i] = q[i].w
  BY WritesOfSeq
<1> HIDE DEF a
<1>3. /\ t \in Seq(Messages) /\ Len(t) = Len(a) /\ \A i \in 1..Len(a) : t[i] = a[i].w
  BY <1>1, WritesOfSeq
<1> HIDE DEF s, t
<1>4. s # <<>>
  BY <1>1, <1>2, EmptySeq
<1>5. /\ r \in Seq(Messages) /\ Len(r) = Len(s) - 1 /\ Head(s) = s[1]
      /\ \A i \in 1..Len(r) : r[i] = s[i + 1]
  BY <1>2, <1>4, HeadTailProperties
<1> HIDE DEF r
<1>6. Head(s) = Head(q).w
  BY <1>1, <1>2, <1>5
<1>7. ASSUME NEW i \in 1..Len(t) PROVE t[i] = r[i]
  <2>1. i \in 1..Len(a) /\ i \in 1..Len(r) /\ i + 1 \in 1..Len(q)
    BY <1>1, <1>2, <1>3, <1>5
  <2> QED  BY <1>1, <1>2, <1>3, <1>5, <2>1
<1>8. t = r
  BY <1>1, <1>2, <1>3, <1>5, <1>7, SeqEqual
<1> QED  BY <1>4, <1>6, <1>8 DEF r, s, t, a

\* A user's line of writes.
LEMMA LineOf ==
  ASSUME TypeOK, NEW u \in Users
  PROVE  /\ DOMAIN WritesOf(queue[u]) = 1..Len(queue[u])
         /\ \A i \in 1..Len(queue[u]) : WritesOf(queue[u])[i] = queue[u][i].w
BY QueueOf DEF WritesOf

LEMMA InitLog ==
  ASSUME Init
  PROVE  Log!Init
<1>1. WritesOf(<<>>) = <<>>
  <2>1. <<>> \in Seq(Batch) /\ Len(<<>>) = 0
    BY EmptySeq
  <2>2. WritesOf(<<>>) \in Seq(Messages) /\ Len(WritesOf(<<>>)) = 0
    BY <2>1, WritesOfSeq
  <2> QED  BY <2>2, EmptySeq
<1> QED  BY <1>1 DEF Init, Log!Init

\* A write joins the line of its user.
LEMMA WriteMutationsIssues ==
  ASSUME IInv, WriteMutations
  PROVE  Log!Issue(user)
<1> DEFINE b == [id |-> nextId, w |-> issued + 1]
<1>1. /\ issued < MaxWrites /\ queue' = [queue EXCEPT ![user] = Append(@, b)]
      /\ UNCHANGED <<committed, refused, told>>
  BY DEF WriteMutations, serverVars
<1>2. b \in Batch /\ b.w = issued + 1 /\ issued + 1 \in WriteNames /\ issued \in Nat
  <2>1. issued \in Nat /\ issued + 1 \in WriteNames
    BY <1>1, Parts, WritesAssumption DEF TypeOK, WriteNames
  <2> QED  BY <1>1, <2>1, Parts, QueueAppended
<1> HIDE DEF b
<1>3. issued + 1 \notin committed \union refused
  BY <1>2, Parts DEF LocalInv, IssuedOK
<1>4. ASSUME NEW u \in Users, NEW i \in DOMAIN WritesOf(queue[u]) PROVE WritesOf(queue[u])[i] # issued + 1
  <2>1. i \in 1..Len(queue[u]) /\ WritesOf(queue[u])[i] = queue[u][i].w
    BY Parts, LineOf
  <2>2. queue[u][i].w <= issued /\ queue[u][i].w \in WriteNames
    BY <2>1, Parts, QueueOf DEF LocalInv, QueuesOK
  <2> QED  BY <1>2, <2>1, <2>2 DEF WriteNames
<1>5. WritesOf(queue'[user]) = Append(WritesOf(queue[user]), issued + 1)
  <2>1. queue'[user] = Append(queue[user], b)
    BY <1>1, Parts DEF TypeOK
  <2> QED  BY <1>2, <2>1, Parts, WritesOfAppend
<1>6. \A u \in Users : u # user => queue'[u] = queue[u]
  BY <1>1, Parts DEF TypeOK
<1>7. [u \in Users |-> WritesOf(queue'[u])] =
         [[u \in Users |-> WritesOf(queue[u])] EXCEPT ![user] = Append(@, issued + 1)]
  BY <1>5, <1>6
<1> QED  BY <1>1, <1>2, <1>3, <1>4, <1>7 DEF Log!Issue, Log!Decided, Log!InSomeLine

\* The backend decides the first write of the pipeline that has no verdict.
LEMMA FrontDecided ==
  ASSUME IInv, net.handshake, IsOpen(net.stream), Len(net.replies) + 1 \in 1..Len(net.pipe),
         UNCHANGED <<queue, told>>,
         \/ /\ committed' = committed \union {net.pipe[Len(net.replies) + 1].w}
            /\ refused' = refused
         \/ /\ refused' = refused \union {net.pipe[Len(net.replies) + 1].w}
            /\ committed' = committed
  PROVE  Log!Decide(user)
<1> DEFINE k == Len(net.replies) + 1
<1>1. Len(net.replies) \in Nat /\ k \in 1..Len(net.pipe)
  BY Parts, StreamOf DEF NetType
<1>2. \A j \in 1..Len(net.replies) : net.pipe[j].w \in committed
  BY Parts DEF AnswersOf, Shaken
<1> HIDE DEF k
<1>3. \A j \in 1..Len(net.pipe) : j \in DOMAIN WritesOf(queue[user])
                                  /\ WritesOf(queue[user])[j] = net.pipe[j].w
  BY Parts, FrontIsIssued, LineOf
<1>4. \A j \in 1..(k - 1) : WritesOf(queue[user])[j] \in committed
  <2> SUFFICES ASSUME NEW j \in 1..(k - 1) PROVE WritesOf(queue[user])[j] \in committed
    OBVIOUS
  <2>1. j \in 1..Len(net.replies)
    BY <1>1 DEF k
  <2>2. Len(net.pipe) \in Nat
    BY Parts, StreamOf DEF NetType
  <2>3. j \in 1..Len(net.pipe)
    BY <1>1, <2>1, <2>2
  <2> QED  BY <1>2, <1>3, <2>1, <2>3
<1>5. \/ /\ committed' = committed \union {WritesOf(queue[user])[k]} /\ refused' = refused
      \/ /\ refused' = refused \union {WritesOf(queue[user])[k]} /\ committed' = committed
  BY <1>1, <1>3 DEF k
<1>6. user \in Users /\ k \in DOMAIN WritesOf(queue[user])
  BY <1>1, <1>3, Parts
<1> QED  BY <1>4, <1>5, <1>6 DEF Log!Decide, Log!Decided
\* A reply, or a refusal, settles the write at the front, and no one but its
\* caller is told.
LEMMA SettledInLog ==
  ASSUME IInv, queue[user] # <<>>, NEW verdict \in {"ok", "error"},
         NotifyUser(Head(queue[user]).id, verdict),
         queue' = RemoveBatch(Head(queue[user]).id),
         UNCHANGED <<committed, refused>>,
         verdict = "ok" => Head(queue[user]).w \in committed,
         verdict = "error" => RefusedIn(queue[user], committed, refused)
  PROVE  Log!Settle(user)
<1> DEFINE q == queue[user]
           h == Head(q)
           found == {b \in callbacks[user] : b.id = h.id}
<1>1. /\ q \in Seq(Batch) /\ q # <<>> /\ InOrder(q) /\ user \in Users /\ h = q[1]
      /\ HasBatch(q, h.id) /\ RemoveAt(q, Seek(q, h.id)) = Tail(q)
      /\ \A i \in 2..Len(q) : q[i].id # h.id
      /\ Len(q) \in Nat
  BY Parts, FrontRemoved
<1>2. queue' = [queue EXCEPT ![user] = Tail(q)]
  BY <1>1 DEF RemoveBatch
<1>3. told' = told \union {<<b.w, verdict>> : b \in found}
  BY DEF NotifyUser
<1>4. \A b \in found : b = h
  <2> SUFFICES ASSUME NEW b \in found PROVE b = h
    OBVIOUS
  <2>1. PICK i \in 1..Len(q) : q[i] = b
    BY Parts DEF LocalInv, CallbacksOK
  <2>2. i = 1
    <3>1. CASE i \in 2..Len(q)
      BY <1>1, <2>1, <3>1
    <3> QED  BY <1>1, <2>1, <3>1
  <2> QED  BY <1>1, <2>1, <2>2
<1>5. told' = told \/ told' = told \union {<<h.w, verdict>>}
  <2>1. CASE found = {}
    BY <1>3, <2>1
  <2>2. CASE found # {}
    <3>1. found = {h}
      BY <1>4, <2>2
    <3> HIDE DEF found
    <3> QED  BY <1>3, <3>1
  <2> QED  BY <2>1, <2>2
<1>6. WritesOf(q) # <<>> /\ Head(WritesOf(q)) = h.w /\ WritesOf(Tail(q)) = Tail(WritesOf(q))
  BY <1>1, WritesOfTail
<1>7. [u \in Users |-> WritesOf(queue'[u])] =
         [[u \in Users |-> WritesOf(queue[u])] EXCEPT ![user] = Tail(@)]
  <2>1. queue'[user] = Tail(q) /\ \A u \in Users : u # user => queue'[u] = queue[u]
    BY <1>1, <1>2, Parts DEF TypeOK
  <2> QED  BY <1>6, <2>1
<1>8. \/ h.w \in committed /\ told' = told \union {<<h.w, "ok">>}
      \/ verdict = "error" /\ told' = told \union {<<h.w, "error">>}
      \/ h.w \in committed \union refused /\ told' = told
  <2>1. CASE verdict = "ok"
    BY <1>5, <2>1
  <2>2. CASE verdict = "error"
    <3>1. PICK i \in 1..Len(q) : q[i].w \in refused /\ \A j \in 1..(i - 1) : q[j].w \in committed
      BY <2>2 DEF RefusedIn
    <3>2. h.w \in committed \union refused
      <4>1. CASE i = 1
        BY <1>1, <3>1, <4>1
      <4>2. CASE i # 1
        <5>1. 1 \in 1..(i - 1)
          BY <1>1, <4>2
        <5> QED  BY <1>1, <3>1, <5>1
      <4> QED  BY <4>1, <4>2
    <3> QED  BY <1>5, <2>2, <3>2
  <2> QED  BY <2>1, <2>2
<1>9. ASSUME verdict = "error" PROVE Log!Refusing(user)
  <2>1. PICK i \in 1..Len(q) : q[i].w \in refused /\ \A j \in 1..(i - 1) : q[j].w \in committed
    BY <1>9 DEF RefusedIn
  <2>2. /\ DOMAIN WritesOf(queue[user]) = 1..Len(q)
        /\ \A j \in 1..Len(q) : WritesOf(queue[user])[j] = q[j].w
    BY Parts, LineOf
  <2>3. 1..(i - 1) \subseteq 1..Len(q)
    BY <1>1, <2>1
  <2>4. /\ i \in DOMAIN WritesOf(queue[user]) /\ WritesOf(queue[user])[i] \in refused
        /\ \A j \in 1..(i - 1) : WritesOf(queue[user])[j] \in committed
    BY <2>1, <2>2, <2>3
  <2> QED  BY <1>1, <2>4 DEF Log!Refusing
<1> HIDE DEF h, found
<1> QED  BY <1>1, <1>6, <1>7, <1>8, <1>9 DEF Log!Settle, Log!Decided

\* A step of the client is a step of the log, or changes nothing of it.
LEMMA NextLog ==
  ASSUME IInv, [Next]_vars
  PROVE  [Log!Next]_(Log!vars)
<1>1. CASE UNCHANGED <<queue, committed, refused, told>>
  BY <1>1 DEF Log!vars
<1>2. CASE WriteMutations
  BY <1>2, Parts, WriteMutationsIssues DEF Log!Next
<1>3. CASE ServerReplies
  <2> DEFINE h == Head(net.wire)
  <2>1. /\ net.wire # <<>> /\ ~net.refusal /\ UNCHANGED <<queue, refused, told>>
        /\ committed' = committed \union ({h} \ {Handshake})
    BY <1>3 DEF ServerReplies, localVars, appVars
  <2>2. /\ IsOpen(net.stream)
        /\ \/ h = Handshake
           \/ /\ net.handshake /\ Len(net.replies) + 1 \in 1..Len(net.pipe)
              /\ h = net.pipe[Len(net.replies) + 1].w /\ h # Handshake
    BY <2>1, Parts, FrontOfCall
  <2> HIDE DEF h
  <2>3. CASE h = Handshake
    BY <1>1, <2>1, <2>3
  <2>4. CASE h # Handshake
    <3>1. committed' = committed \union {net.pipe[Len(net.replies) + 1].w}
      BY <2>1, <2>2, <2>4
    <3>2. Log!Decide(user)
      BY <2>1, <2>2, <2>4, <3>1, FrontDecided
    <3> QED  BY <3>2, Parts DEF Log!Next
  <2> QED  BY <2>3, <2>4
<1>4. CASE ServerRefuses
  <2> DEFINE h == Head(net.wire)
  <2>1. /\ net.wire # <<>> /\ ~net.refusal /\ UNCHANGED <<queue, committed, told>>
        /\ refused' = refused \union {h} /\ h # Handshake
    BY <1>4 DEF ServerRefuses, localVars, appVars
  <2>2. /\ IsOpen(net.stream)
        /\ net.handshake /\ Len(net.replies) + 1 \in 1..Len(net.pipe)
        /\ h = net.pipe[Len(net.replies) + 1].w
    BY <2>1, Parts, FrontOfCall
  <2> HIDE DEF h
  <2>3. Log!Decide(user)
    BY <2>1, <2>2, FrontDecided
  <2> QED  BY <2>3, Parts DEF Log!Next
<1>5. CASE OnWriteStreamMutationResult
  <2>1. /\ net.replies # <<>> /\ net.handshake
        /\ net.pipe # <<>> /\ queue[user] # <<>> /\ Head(net.pipe) = Head(queue[user])
        /\ NotifyUser(Head(queue[user]).id, "ok")
        /\ queue' = RemoveBatch(Head(queue[user]).id)
        /\ UNCHANGED <<committed, refused>>
    BY <1>5, ResultSettles
  <2>2. Len(net.replies) \in Nat /\ Len(net.replies) >= 1
    BY <2>1, Parts, StreamOf, EmptySeq DEF NetType
  <2>3. net.pipe[1].w \in committed
    BY <2>1, <2>2, Parts DEF AnswersOf, Shaken
  <2>4. Head(net.pipe) = net.pipe[1]
    BY <2>1, Parts, StreamOf, HeadTailProperties
  <2>5. Log!Settle(user)
    BY <2>1, <2>3, <2>4, SettledInLog
  <2> QED  BY <2>5, Parts DEF Log!Next
<1>6. CASE OnWriteRejected
  <2>1. /\ net.refusal
        /\ queue[user] # <<>>
        /\ NotifyUser(Head(queue[user]).id, "error")
        /\ queue' = RemoveBatch(Head(queue[user]).id)
        /\ UNCHANGED <<committed, refused>>
    BY <1>6, RejectionSettles
  <2>2. RefusedIn(queue[user], committed, refused)
    BY <2>1, Parts, RejectionRead
  <2>3. Log!Settle(user)
    BY <2>1, <2>2, SettledInLog
  <2> QED  BY <2>3, Parts DEF Log!Next
<1>7. CASE RegisterPendingWritesCallback \/ OnWriteStreamHandshakeComplete
  BY <1>1, <1>7 DEF RegisterPendingWritesCallback, OnWriteStreamHandshakeComplete,
     localVars, serverVars, appVars
<1>8. CASE AuthStateDidChange \/ GetToken \/ TokenFails
  BY <1>1, <1>8 DEF AuthStateDidChange, GetToken, TokenFails, TokenArrives,
     localVars, serverVars, appVars
<1>9. CASE HandleCredentialChange \/ ResumeStartWithCredentials \/ OnBackoffElapsed \/ OnIdleTimeout
  BY <1>1, <1>9 DEF HandleCredentialChange, ResumeStartWithCredentials, OnBackoffElapsed,
     OnIdleTimeout, localVars, serverVars, appVars
<1>10. CASE Break \/ SetNetwork \/ OnConnectivityChange \/ Restart
  BY <1>1, <1>10 DEF Break, SetNetwork, OnConnectivityChange, Restart,
     localVars, serverVars, appVars
<1>11. CASE UNCHANGED vars
  BY <1>1, <1>11 DEF vars, localVars, serverVars, appVars
<1> QED
  BY <1>2, <1>3, <1>4, <1>5, <1>6, <1>7, <1>8, <1>9, <1>10, <1>11 DEF Next

\* The client keeps what WriteLog promises: writes are decided in the order
\* they were made, none is lost, none leaves the queue undecided, a caller
\* hears once, OK only of a write that is committed, and an error only of one
\* that is decided, when the backend has refused it or one close behind it.
THEOREM ImplementsWriteLog == Spec => WritesKeepTheirOrder
<1> QED  BY InitLog, Inductive, NextLog, PTL DEF Spec, WritesKeepTheirOrder, Log!Spec
-----------------------------------------------------------------------------
(* What WriteLog says of its lines, of the client's.                       *)

Line == [u \in Users |-> WritesOf(queue[u])]

\* A line and its places: a write stands in one place of one line.
LEMMA LineType ==
  ASSUME IInv
  PROVE  /\ \A u \in Users : /\ Line[u] \in Seq(WriteNames) /\ Len(Line[u]) \in Nat
                             /\ DOMAIN Line[u] = 1..Len(Line[u])
         /\ \A u, v \in Users : \A i \in DOMAIN Line[u], j \in DOMAIN Line[v] :
               Line[u][i] = Line[v][j] => u = v /\ i = j
         /\ Line \in [Users -> Seq(WriteNames)]
<1>1. ASSUME NEW u \in Users
      PROVE  /\ Line[u] \in Seq(WriteNames) /\ DOMAIN Line[u] = 1..Len(queue[u])
             /\ \A i \in DOMAIN Line[u] : Line[u][i] = queue[u][i].w
  <2>1. Line[u] = WritesOf(queue[u])
    BY DEF Line
  <2>2. /\ DOMAIN Line[u] = 1..Len(queue[u])
        /\ \A i \in 1..Len(queue[u]) : Line[u][i] = queue[u][i].w
    BY <2>1, Parts, LineOf
  <2>3. Len(queue[u]) \in Nat /\ \A i \in 1..Len(queue[u]) : queue[u][i].w \in WriteNames
    BY Parts, QueueOf DEF Batch
  <2>4. Line[u] = [i \in 1..Len(queue[u]) |-> queue[u][i].w]
    BY <2>1, Parts, QueueOf DEF WritesOf
  <2>5. Line[u] \in Seq(WriteNames)
    BY <2>3, <2>4, SeqDef
  <2> QED  BY <2>2, <2>5
<1>2. \A u \in Users : /\ Line[u] \in Seq(WriteNames) /\ Len(Line[u]) \in Nat
                       /\ DOMAIN Line[u] = 1..Len(Line[u])
  BY <1>1
<1>3. \A u, v \in Users : \A i \in DOMAIN Line[u], j \in DOMAIN Line[v] :
         Line[u][i] = Line[v][j] => u = v /\ i = j
  <2> SUFFICES ASSUME NEW u \in Users, NEW v \in Users,
                      NEW i \in DOMAIN Line[u], NEW j \in DOMAIN Line[v],
                      Line[u][i] = Line[v][j]
               PROVE  u = v /\ i = j
    OBVIOUS
  <2>1. i \in 1..Len(queue[u]) /\ j \in 1..Len(queue[v]) /\ queue[u][i].w = queue[v][j].w
    BY <1>1
  <2> QED  BY <2>1, Parts DEF LocalInv, QueuesOK
<1>4. Line \in [Users -> Seq(WriteNames)]
  BY <1>2 DEF Line
<1> QED  BY <1>2, <1>3, <1>4

\* A new write is the last of its line and not decided.
LEMMA IssueInOrder ==
  ASSUME IInv, NEW u \in Users, Log!Issue(u), Log!DecidedInOrder
  PROVE  /\ Log!DecidedInOrder'
         /\ \A w \in WriteNames : Log!InSomeLine(w) => Log!InSomeLine(w)'
<1>1. PICK w \in WriteNames : w \notin committed \union refused
                              /\ Line' = [Line EXCEPT ![u] = Append(@, w)]
  BY DEF Log!Issue, Log!Decided, Line
<1>2. UNCHANGED <<committed, refused, told>>
  BY DEF Log!Issue
<1>3. /\ Line'[u] = Append(Line[u], w)
      /\ \A v \in Users : v # u => Line'[v] = Line[v]
  BY <1>1 DEF Line
<1>4. /\ DOMAIN Line'[u] = 1..(Len(Line[u]) + 1) /\ Len(Line[u]) \in Nat
      /\ DOMAIN Line[u] = 1..Len(Line[u])
      /\ Line'[u][Len(Line[u]) + 1] = w
      /\ \A i \in DOMAIN Line[u] : Line'[u][i] = Line[u][i]
  BY <1>3, LineType, AppendProperties
<1>5. ASSUME NEW v \in Users, NEW i \in DOMAIN Line'[v], NEW j \in DOMAIN Line'[v],
             i < j, Line'[v][j] \in committed \union refused
      PROVE  Line'[v][i] \in committed \union refused
  <2>1. \A k, l \in DOMAIN Line[v] :
           k < l /\ Line[v][l] \in committed \union refused
              => Line[v][k] \in committed \union refused
    BY DEF Log!DecidedInOrder, Log!Decided, Line
  <2>2. CASE v # u
    BY <1>3, <1>5, <2>1, <2>2
  <2>3. CASE v = u
    <3>1. j # Len(Line[u]) + 1
      BY <1>1, <1>4, <1>5, <2>3
    <3>2. j \in DOMAIN Line[u] /\ i \in DOMAIN Line[u]
      BY <1>4, <1>5, <2>3, <3>1
    <3> QED  BY <1>4, <1>5, <2>1, <2>3, <3>2
  <2> QED  BY <2>2, <2>3
<1>6. Log!DecidedInOrder'
  BY <1>2, <1>5 DEF Log!DecidedInOrder, Log!Decided, Line
<1>7. ASSUME NEW x \in WriteNames, Log!InSomeLine(x)
      PROVE  Log!InSomeLine(x)'
  <2>1. PICK v \in Users : \E i \in DOMAIN Line[v] : Line[v][i] = x
    BY <1>7 DEF Log!InSomeLine, Line
  <2>2. PICK i \in DOMAIN Line[v] : Line[v][i] = x
    BY <2>1
  <2>3. i \in DOMAIN Line'[v] /\ Line'[v][i] = x
    BY <1>3, <1>4, <2>2
  <2> QED  BY <2>3 DEF Log!InSomeLine, Line
<1> QED  BY <1>6, <1>7

\* The backend decides a write when it has decided those before it.
LEMMA DecideInOrder ==
  ASSUME IInv, NEW u \in Users, Log!Decide(u), Log!DecidedInOrder
  PROVE  /\ Log!DecidedInOrder'
         /\ \A w \in WriteNames : Log!InSomeLine(w) => Log!InSomeLine(w)'
<1> DEFINE D == committed \union refused
<1>1. Line' = Line
  BY DEF Log!Decide, Line
<1>2. PICK k \in DOMAIN Line[u] :
         /\ \A j \in 1..(k - 1) : Line[u][j] \in D
         /\ D' = D \union {Line[u][k]}
  BY DEF Log!Decide, Log!Decided, Line
<1>3. k \in Nat /\ DOMAIN Line[u] = 1..Len(Line[u]) /\ Len(Line[u]) \in Nat
  BY LineType
<1>4. ASSUME NEW v \in Users, NEW i \in DOMAIN Line[v], NEW j \in DOMAIN Line[v],
             i < j, Line[v][j] \in D'
      PROVE  Line[v][i] \in D'
  <2>1. CASE Line[v][j] \in D
    <3>1. Line[v][i] \in D
      BY <1>4, <2>1 DEF Log!DecidedInOrder, Log!Decided, Line
    <3> QED  BY <1>2, <3>1
  <2>2. CASE Line[v][j] = Line[u][k]
    <3>1. v = u /\ j = k
      BY <2>2, LineType
    <3>2. i \in 1..(k - 1)
      BY <1>3, <1>4, <3>1
    <3> QED  BY <1>2, <3>1, <3>2
  <2> QED  BY <1>2, <1>4, <2>1, <2>2
<1>5. Log!DecidedInOrder'
  <2>1. \A v \in Users : \A i, j \in DOMAIN Line'[v] :
           i < j /\ Line'[v][j] \in D' => Line'[v][i] \in D'
    BY <1>1, <1>4
  <2> QED  BY <2>1 DEF Log!DecidedInOrder, Log!Decided, Line
<1> QED  BY <1>1, <1>5 DEF Log!InSomeLine, Line

\* When a line has a refused write behind committed ones, its first is decided.
LEMMA RefusingDecides ==
  ASSUME IInv, NEW u \in Users, Log!Refusing(u), Line[u] # <<>>
  PROVE  Head(Line[u]) \in Log!Decided /\ refused # {}
<1>1. PICK i \in DOMAIN Line[u] :
         Line[u][i] \in refused /\ \A j \in 1..(i - 1) : Line[u][j] \in committed
  BY DEF Log!Refusing, Line
<1>2. /\ Len(Line[u]) \in Nat /\ DOMAIN Line[u] = 1..Len(Line[u])
      /\ Head(Line[u]) = Line[u][1]
  BY LineType, HeadTailProperties
<1>3. CASE i = 1
  BY <1>1, <1>2, <1>3 DEF Log!Decided
<1>4. CASE i # 1
  <2>1. 1 \in 1..(i - 1)
    BY <1>2, <1>4
  <2> QED  BY <1>1, <1>2, <2>1 DEF Log!Decided
<1> QED  BY <1>3, <1>4

\* A write that leaves its line was decided, and the others stay.
LEMMA SettleInOrder ==
  ASSUME IInv, NEW u \in Users, Log!Settle(u), Log!DecidedInOrder
  PROVE  /\ Log!DecidedInOrder'
         /\ \A w \in WriteNames :
               Log!InSomeLine(w) /\ w \notin Log!Decided => Log!InSomeLine(w)'
<1> DEFINE D == committed \union refused
           at(v, i) == IF v = u THEN i + 1 ELSE i
<1>1. /\ Line[u] # <<>> /\ Line' = [Line EXCEPT ![u] = Tail(@)]
      /\ Head(Line[u]) \in D
  <2>1. Log!Refusing(u) /\ Line[u] # <<>> => Head(Line[u]) \in D
    BY RefusingDecides DEF Log!Decided
  <2> QED  BY <2>1 DEF Log!Settle, Log!Decided, Line
<1>2. UNCHANGED <<committed, refused>>
  BY DEF Log!Settle
<1>3. /\ Line'[u] = Tail(Line[u])
      /\ \A v \in Users : v # u => Line'[v] = Line[v]
  BY <1>1 DEF Line
<1>4. /\ Len(Line[u]) \in Nat /\ DOMAIN Line[u] = 1..Len(Line[u])
      /\ Head(Line[u]) = Line[u][1]
      /\ DOMAIN Line'[u] = 1..(Len(Line[u]) - 1)
      /\ \A i \in 1..(Len(Line[u]) - 1) : Line'[u][i] = Line[u][i + 1]
  BY <1>1, <1>3, LineType, HeadTailProperties
<1>5. ASSUME NEW v \in Users, NEW i \in DOMAIN Line'[v]
      PROVE  at(v, i) \in DOMAIN Line[v] /\ Line'[v][i] = Line[v][at(v, i)] /\ i \in Nat
  <2>1. CASE v = u
    <3>1. i \in 1..(Len(Line[u]) - 1)
      BY <1>4, <1>5, <2>1
    <3>2. i + 1 \in DOMAIN Line[u] /\ i \in Nat
      BY <1>4, <3>1
    <3> QED  BY <1>4, <2>1, <3>1, <3>2
  <2>2. CASE v # u
    BY <1>3, <1>5, <2>2, LineType
  <2> QED  BY <2>1, <2>2
<1>6. ASSUME NEW v \in Users, NEW i \in DOMAIN Line'[v], NEW j \in DOMAIN Line'[v],
             i < j, Line'[v][j] \in D
      PROVE  Line'[v][i] \in D
  <2>1. at(v, i) < at(v, j) /\ at(v, i) \in DOMAIN Line[v] /\ at(v, j) \in DOMAIN Line[v]
        /\ Line[v][at(v, j)] \in D
    BY <1>5, <1>6
  <2>2. Line[v][at(v, i)] \in D
    <3> HIDE DEF at
    <3> QED  BY <2>1 DEF Log!DecidedInOrder, Log!Decided, Line
  <2> QED  BY <1>5, <2>2
<1>7. Log!DecidedInOrder'
  <2> HIDE DEF at
  <2> QED  BY <1>2, <1>6 DEF Log!DecidedInOrder, Log!Decided, Line
<1>8. ASSUME NEW w \in WriteNames, Log!InSomeLine(w), w \notin Log!Decided
      PROVE  Log!InSomeLine(w)'
  <2>1. PICK v \in Users : \E i \in DOMAIN Line[v] : Line[v][i] = w
    BY <1>8 DEF Log!InSomeLine, Line
  <2>2. PICK i \in DOMAIN Line[v] : Line[v][i] = w
    BY <2>1
  <2>3. w \notin D
    BY <1>8 DEF Log!Decided
  <2>4. \E j \in DOMAIN Line'[v] : Line'[v][j] = w
    <3>1. CASE v # u
      BY <1>3, <2>2, <3>1
    <3>2. CASE v = u
      <4>1. i # 1 /\ i \in 1..Len(Line[u])
        BY <1>1, <1>4, <2>2, <2>3, <3>2
      <4>2. i - 1 \in 1..(Len(Line[u]) - 1) /\ (i - 1) + 1 = i
        BY <1>4, <4>1
      <4> QED  BY <1>4, <2>2, <3>2, <4>2
    <3> QED  BY <3>1, <3>2
  <2> QED  BY <2>4 DEF Log!InSomeLine, Line
<1> QED  BY <1>7, <1>8

LEMMA LogStep ==
  ASSUME IInv, [Next]_vars, Log!DecidedInOrder
  PROVE  /\ Log!DecidedInOrder'
         /\ \A w \in WriteNames :
               Log!InSomeLine(w) /\ w \notin Log!Decided => Log!InSomeLine(w)'
<1>1. CASE UNCHANGED Log!vars
  <2>1. Line' = Line /\ UNCHANGED <<committed, refused>>
    BY <1>1 DEF Log!vars, Line
  <2> QED  BY <2>1 DEF Log!DecidedInOrder, Log!InSomeLine, Log!Decided, Line
<1>2. CASE Log!Next
  <2>1. PICK u \in Users : Log!Issue(u) \/ Log!Decide(u) \/ Log!Settle(u)
    BY <1>2 DEF Log!Next
  <2> QED  BY <2>1, IssueInOrder, DecideInOrder, SettleInOrder
<1> QED  BY <1>1, <1>2, NextLog

\* The write is in a line.
InALine(x) == \E v \in Users : \E i \in DOMAIN Line[v] : Line[v][i] = x

\* ToldTheTruth, for one write.
TruthOf(w) ==
    /\ <<w, "ok">> \in told => w \in committed /\ <<w, "error">> \notin told
    /\ <<w, "error">> \in told => w \in committed \union refused /\ refused # {}
    /\ <<w, "ok">> \in told \/ <<w, "error">> \in told => ~InALine(w)

LEMMA TruthIs == Log!ToldTheTruth <=> \A w \in WriteNames : TruthOf(w)
BY DEF Log!ToldTheTruth, Log!Decided, Log!InSomeLine, TruthOf, InALine, Line

\* Only a write that is not decided joins a line.
LEMMA IssueLines ==
  ASSUME IInv, NEW u \in Users, Log!Issue(u), NEW x, InALine(x)'
  PROVE  InALine(x) \/ x \notin committed \union refused
<1>1. PICK w \in WriteNames : w \notin committed \union refused
                              /\ Line' = [Line EXCEPT ![u] = Append(@, w)]
  BY DEF Log!Issue, Log!Decided, Line
<1>2. PICK v \in Users : \E i \in DOMAIN Line'[v] : Line'[v][i] = x
  BY DEF InALine
<1>3. PICK i \in DOMAIN Line'[v] : Line'[v][i] = x
  BY <1>2
<1>4. CASE v # u
  <2>1. Line'[v] = Line[v]
    BY <1>1, <1>4 DEF Line
  <2> QED  BY <1>3, <2>1 DEF InALine
<1>5. CASE v = u
  <2>1. Line'[u] = Append(Line[u], w)
    BY <1>1 DEF Line
  <2>2. /\ DOMAIN Line'[u] = 1..(Len(Line[u]) + 1) /\ Len(Line[u]) \in Nat
        /\ DOMAIN Line[u] = 1..Len(Line[u])
        /\ Line'[u][Len(Line[u]) + 1] = w
        /\ \A k \in DOMAIN Line[u] : Line'[u][k] = Line[u][k]
    BY <2>1, LineType, AppendProperties
  <2>3. CASE i = Len(Line[u]) + 1
    BY <1>1, <1>3, <1>5, <2>2, <2>3
  <2>4. CASE i # Len(Line[u]) + 1
    <3>1. i \in DOMAIN Line[u] /\ Line[u][i] = x
      BY <1>3, <1>5, <2>2, <2>4
    <3> QED  BY <3>1 DEF InALine
  <2> QED  BY <2>3, <2>4
<1> QED  BY <1>4, <1>5

\* A write that leaves its line is in no line any more.
LEMMA SettleLines ==
  ASSUME IInv, NEW u \in Users, Log!Settle(u), NEW x, InALine(x)'
  PROVE  InALine(x) /\ x # Head(Line[u])
<1>1. Line[u] # <<>> /\ Line' = [Line EXCEPT ![u] = Tail(@)]
  BY DEF Log!Settle, Line
<1>2. PICK v \in Users : \E i \in DOMAIN Line'[v] : Line'[v][i] = x
  BY DEF InALine
<1>3. PICK i \in DOMAIN Line'[v] : Line'[v][i] = x
  BY <1>2
<1>4. /\ Len(Line[u]) \in Nat /\ DOMAIN Line[u] = 1..Len(Line[u])
      /\ Head(Line[u]) = Line[u][1] /\ 1 \in DOMAIN Line[u]
  BY <1>1, LineType, HeadTailProperties, EmptySeq
<1>5. \E k \in DOMAIN Line[v] : Line[v][k] = x /\ (v = u => k # 1)
  <2>1. CASE v # u
    <3>1. Line'[v] = Line[v]
      BY <1>1, <2>1 DEF Line
    <3> QED  BY <1>3, <2>1, <3>1
  <2>2. CASE v = u
    <3>1. Line'[u] = Tail(Line[u])
      BY <1>1 DEF Line
    <3>2. /\ DOMAIN Line'[u] = 1..(Len(Line[u]) - 1)
          /\ \A k \in 1..(Len(Line[u]) - 1) : Line'[u][k] = Line[u][k + 1]
      BY <1>1, <3>1, LineType, HeadTailProperties
    <3>3. i \in 1..(Len(Line[u]) - 1)
      BY <1>3, <2>2, <3>2
    <3>4. i + 1 \in DOMAIN Line[u] /\ i + 1 # 1 /\ Line[u][i + 1] = x
      BY <1>3, <1>4, <2>2, <3>2, <3>3
    <3> QED  BY <2>2, <3>4
  <2> QED  BY <2>1, <2>2
<1>6. PICK k \in DOMAIN Line[v] : Line[v][k] = x /\ (v = u => k # 1)
  BY <1>5
<1>7. Line[v][k] = Line[u][1] => v = u /\ k = 1
  BY <1>4, LineType
<1> QED  BY <1>4, <1>6, <1>7 DEF InALine

\* What is told of the write h that leaves its line.
Says(h, error) ==
    \/ h \in committed /\ told' = told \union {<<h, "ok">>}
    \/ error /\ told' = told \union {<<h, "error">>}
    \/ told' = told

LEMMA SettleTruth ==
  ASSUME IInv, NEW u \in Users, Log!Settle(u), \A w \in WriteNames : TruthOf(w)
  PROVE  (\A w \in WriteNames : TruthOf(w))'
<1> DEFINE h == Head(Line[u])
           told1(w) == <<w, "ok">> \in told \/ <<w, "error">> \in told
<1>1. /\ Line[u] # <<>> /\ UNCHANGED <<committed, refused>>
      /\ Says(h, Log!Refusing(u))
  BY DEF Log!Settle, Line, Says
<1>2. /\ Len(Line[u]) \in Nat /\ DOMAIN Line[u] = 1..Len(Line[u])
      /\ h = Line[u][1] /\ 1 \in DOMAIN Line[u] /\ Line[u] \in Seq(WriteNames)
  BY <1>1, LineType, HeadTailProperties, EmptySeq
<1>3. h \in WriteNames
  BY <1>2, ElementOfSeq
<1>4. InALine(h)
  BY <1>2 DEF InALine
<1>5. ~told1(h)
  BY <1>3, <1>4 DEF TruthOf
<1>6. Log!Refusing(u) => h \in committed \union refused /\ refused # {}
  BY <1>1, RefusingDecides DEF Log!Decided
<1> SUFFICES ASSUME NEW w \in WriteNames PROVE TruthOf(w)'
  OBVIOUS
<1>7. InALine(w)' => InALine(w) /\ w # h
  BY SettleLines
<1>8. TruthOf(w)
  OBVIOUS
<1> HIDE DEF h
<1>9. CASE w = h
  <2>1. ~InALine(w)'
    BY <1>7, <1>9
  <2>2. ~(<<w, "ok">> \in told) /\ ~(<<w, "error">> \in told)
    BY <1>5, <1>9
  <2>3. "ok" # "error"
    OBVIOUS
  <2> QED  BY <1>1, <1>6, <1>9, <2>1, <2>2, <2>3 DEF Says, TruthOf
<1>10. CASE w # h
  <2>1. (<<w, "ok">> \in told' <=> <<w, "ok">> \in told)
        /\ (<<w, "error">> \in told' <=> <<w, "error">> \in told)
    BY <1>1, <1>10 DEF Says
  <2> QED  BY <1>1, <1>7, <1>8, <2>1 DEF TruthOf
<1> QED  BY <1>9, <1>10

LEMMA TruthStep ==
  ASSUME IInv, [Next]_vars, Log!ToldTheTruth
  PROVE  Log!ToldTheTruth'
<1>0. \A w \in WriteNames : TruthOf(w)
  BY TruthIs
<1>1. CASE UNCHANGED Log!vars
  <2>1. Line' = Line /\ UNCHANGED <<committed, refused, told>>
    BY <1>1 DEF Log!vars, Line
  <2>2. (\A w \in WriteNames : TruthOf(w))'
    BY <1>0, <2>1 DEF TruthOf, InALine
  <2> QED  BY <2>2, TruthIs, PTL
<1>2. CASE Log!Next
  <2>1. PICK u \in Users : Log!Issue(u) \/ Log!Decide(u) \/ Log!Settle(u)
    BY <1>2 DEF Log!Next
  <2>2. ASSUME Log!Issue(u) PROVE (\A w \in WriteNames : TruthOf(w))'
    <3>1. UNCHANGED <<committed, refused, told>>
      BY <2>2 DEF Log!Issue
    <3>2. \A x : InALine(x)' => InALine(x) \/ x \notin committed \union refused
      BY <2>2, IssueLines
    <3> QED  BY <1>0, <3>1, <3>2 DEF TruthOf
  <2>3. ASSUME Log!Decide(u) PROVE (\A w \in WriteNames : TruthOf(w))'
    <3>1. /\ Line' = Line /\ told' = told
          /\ committed \subseteq committed' /\ refused \subseteq refused'
      BY <2>3 DEF Log!Decide, Line
    <3>2. \A x : InALine(x)' <=> InALine(x)
      BY <3>1 DEF InALine
    <3> QED  BY <1>0, <3>1, <3>2 DEF TruthOf
  <2>4. ASSUME Log!Settle(u) PROVE (\A w \in WriteNames : TruthOf(w))'
    BY <1>0, <2>4, SettleTruth
  <2>5. (\A w \in WriteNames : TruthOf(w))'
    BY <2>1, <2>2, <2>3, <2>4
  <2> QED  BY <2>5, TruthIs, PTL
<1> QED  BY <1>1, <1>2, NextLog

LEMMA LogInvariants ==
  ASSUME Init
  PROVE  Log!DecidedInOrder /\ Log!ToldTheTruth
BY InitLog DEF Log!Init, Log!DecidedInOrder, Log!ToldTheTruth

\* The backend decides the writes of each user in the order the app made them
\* (RemoteStore's write pipeline, LocalStore's mutation queue).
THEOREM LogDecidesInOrder == Spec => []Log!DecidedInOrder
<1>1. Init => Log!DecidedInOrder
  BY LogInvariants
<1>2. IInv /\ [Next]_vars /\ Log!DecidedInOrder => Log!DecidedInOrder'
  BY LogStep
<1> QED  BY <1>1, <1>2, Inductive, PTL DEF Spec

\* A caller hears OK only of a write that is committed, and of an error only of
\* one that is decided, when the backend has refused one; it hears once, and its
\* write is not sent again (SyncEngine::NotifyUser, RemoteStore's pipeline).
THEOREM LogTellsTheTruth == Spec => []Log!ToldTheTruth
<1>1. Init => Log!ToldTheTruth
  BY LogInvariants
<1>2. IInv /\ [Next]_vars /\ Log!ToldTheTruth => Log!ToldTheTruth'
  BY TruthStep
<1> QED  BY <1>1, <1>2, Inductive, PTL DEF Spec

\* No write is lost before it is decided (LocalStore's mutation queue).
THEOREM LogLosesNothing == Spec => Log!NothingLost
<1>1. IInv /\ Log!DecidedInOrder /\ [Next]_vars =>
         [\A w \in WriteNames :
             Log!InSomeLine(w) /\ w \notin Log!Decided => Log!InSomeLine(w)']_(Log!vars)
  BY LogStep
<1> QED  BY <1>1, LogDecidesInOrder, Inductive, PTL DEF Spec, Log!NothingLost
=============================================================================
