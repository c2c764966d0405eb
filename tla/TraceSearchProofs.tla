-------------------------- MODULE TraceSearchProofs --------------------------
(***************************************************************************)
(* Proofs about TraceSearch, for every set of items and every bound.       *)
(***************************************************************************)
EXTENDS TraceSearch, SequenceTheorems, TLAPS

(* Types of the helpers. *)

LEMMA StartType ==
    ASSUME NEW s \in 1..MaxSearches, NEW n \in 1..MaxCoords
    PROVE  /\ Start(s, n) \in Block
           /\ Start(s, n).kind = "start" /\ Start(s, n).search = s
BY DEF Start, Block

LEMMA NotifyType == Notify \in Block /\ Notify.kind = "notify"
BY DEF Notify, Block

LEMMA BlockType ==
    ASSUME NEW b \in Block, b.kind = "start"
    PROVE  b.search \in 1..MaxSearches /\ b.points \in 1..MaxCoords
BY DEF Start, Notify, Block

LEMMA FoundType ==
    ASSUME NEW r \in Request \cup {NoLoc}, NEW xs \in SUBSET Items
    PROVE  FoundBy(r, xs) \in SUBSET Found
BY BoundsAssumption DEF FoundBy, Found, Request, NoLoc

LEMMA OpenedType ==
    ASSUME TypeOK, NEW fs \in SUBSET Found, NEW b \in BOOLEAN
    PROVE  Opened(fs, b) \in [open : BOOLEAN, title : 0..MaxSearches,
                              list : BOOLEAN, rows : SUBSET Found]
BY BoundsAssumption DEF Opened, TypeOK

LEMMA ClosedType ==
    Closed \in [open : BOOLEAN, title : 0..MaxSearches,
                list : BOOLEAN, rows : SUBSET Found]
BY BoundsAssumption DEF Closed

-----------------------------------------------------------------------------
(* Type correctness and the group count, proved together: the group only   *)
(* stays a natural number because no leave comes without its enter.        *)

IInv == TypeOK /\ GroupCounted /\ GroupNeverUnderflows

LEMMA InitIInv == Init => IInv
<1> SUFFICES ASSUME Init
             PROVE  IInv
  OBVIOUS
<1>1. queue \in Seq(Block) /\ Len(queue) = 0
  BY EmptySeq DEF Init
<1>2. TypeOK
  <2>1. /\ coords \in 0..MaxCoords /\ cur \in 0..MaxSearches
        /\ group \in Nat /\ notifies \in Nat
    BY BoundsAssumption DEF Init
  <2>2. panel \in [open : BOOLEAN, title : 0..MaxSearches,
                   list : BOOLEAN, rows : SUBSET Found]
    BY ClosedType DEF Init
  <2>3. /\ last \in Request \cup {NoLoc} /\ requests \subseteq Request
        /\ items \subseteq Found /\ matching \subseteq Found
        /\ pins \subseteq Found
        /\ routes \subseteq [row : BOOLEAN, item : Items]
    BY DEF Init
  <2>4. /\ trace = "neutral" /\ crashed = "no" /\ asked = FALSE
        /\ info = FALSE /\ select = FALSE /\ overlap = FALSE
        /\ failed = FALSE
    BY DEF Init
  <2> QED
    BY <1>1, <2>1, <2>2, <2>3, <2>4 DEF TypeOK
<1>3. last.search = 0 /\ cur = 0
  BY DEF Init, NoLoc
<1>4. \A s : ~Queued(s)
  BY <1>1 DEF Queued
<1>5. GroupCounted
  BY <1>1, <1>3, <1>4 DEF Init, GroupCounted
<1> QED
  BY <1>2, <1>5 DEF IInv, GroupNeverUnderflows, Init

\* The parts of the group count that a step leaves alone.
LEMMA CallsUnchanged ==
    ASSUME GroupCounted,
           UNCHANGED <<cur, last, requests, queue, group>>
    PROVE  GroupCounted'
BY DEF GroupCounted, Queued

LEMMA TraceStep ==
    ASSUME IInv, TapTrace \/ LocationUpdate
    PROVE  IInv'
<1> USE DEF IInv, GroupNeverUnderflows
<1>1. GroupCounted'
  BY CallsUnchanged DEF TapTrace, LocationUpdate, calls
<1>2. TypeOK'
  BY BoundsAssumption
  DEF TapTrace, LocationUpdate, TypeOK, calls, shown, detail
<1>3. GroupNeverUnderflows'
  BY DEF TapTrace, LocationUpdate
<1> QED
  BY <1>1, <1>2, <1>3

LEMMA QuietSearchStep ==
    ASSUME IInv, CancelSearch \/ TapList
    PROVE  IInv'
<1> USE DEF IInv, GroupNeverUnderflows
<1>1. GroupCounted'
  BY CallsUnchanged DEF CancelSearch, TapList, calls
<1>2. TypeOK'
  BY DEF CancelSearch, TapList, TypeOK, path, calls, detail, UnderWay
<1>3. GroupNeverUnderflows'
  BY DEF CancelSearch, TapList
<1> QED
  BY <1>1, <1>2, <1>3

LEMMA PanelStep ==
    ASSUME IInv,
           \/ ClosePanel \/ CloseInfo
           \/ \E f \in panel.rows : SwipeRow(f) \/ TapRow(f)
           \/ \E f \in pins : TapPin(f)
    PROVE  IInv'
<1> USE DEF IInv, GroupNeverUnderflows
<1>1. GroupCounted'
  BY CallsUnchanged
  DEF ClosePanel, CloseInfo, SwipeRow, TapRow, TapPin, AskRoute, calls
<1>2. TypeOK'
  <2>1. CASE ClosePanel
    BY <2>1, ClosedType DEF ClosePanel, TypeOK, path, calls, detail
  <2>2. CASE CloseInfo
    BY <2>2 DEF CloseInfo, TypeOK, path, calls, shown
  <2>3. ASSUME NEW f \in panel.rows, SwipeRow(f) PROVE TypeOK'
    <3>1. panel' \in [open : BOOLEAN, title : 0..MaxSearches,
                      list : BOOLEAN, rows : SUBSET Found]
      BY <2>3 DEF SwipeRow, TypeOK
    <3> QED
      BY <2>3, <3>1 DEF SwipeRow, TypeOK, path, calls, detail
  <2>4. ASSUME NEW f \in Found, TapRow(f) \/ TapPin(f) PROVE TypeOK'
    <3>1. f.item \in Items
      BY DEF Found
    <3>2. \A b \in BOOLEAN : [row |-> b, item |-> f.item]
                                \in [row : BOOLEAN, item : Items]
      BY <3>1
    <3>3. routes' \subseteq [row : BOOLEAN, item : Items]
      BY <2>4, <3>2 DEF TapRow, TapPin, AskRoute, TypeOK
    <3>4. select' \in BOOLEAN
      BY <2>4 DEF TapRow, TapPin, TypeOK
    <3> QED
      BY <2>4, <3>3, <3>4
      DEF TapRow, TapPin, AskRoute, TypeOK, path, calls, shown
  <2>5. panel.rows \subseteq Found /\ pins \subseteq Found
    BY DEF TypeOK
  <2> QED
    BY <2>1, <2>2, <2>3, <2>4, <2>5
<1>3. GroupNeverUnderflows'
  BY DEF ClosePanel, CloseInfo, SwipeRow, TapRow, TapPin, AskRoute
<1> QED
  BY <1>1, <1>2, <1>3

LEMMA RouteStep ==
    ASSUME IInv, NEW q \in routes, AnswerRoute(q) \/ FailRoute(q)
    PROVE  IInv'
<1> USE DEF IInv, GroupNeverUnderflows
<1>1. GroupCounted'
  BY CallsUnchanged DEF AnswerRoute, FailRoute, calls
<1>2. TypeOK'
  <2>1. q \in [row : BOOLEAN, item : Items]
    BY DEF TypeOK
  <2>2. [q EXCEPT !.row = FALSE] \in [row : BOOLEAN, item : Items]
    BY <2>1
  <2> QED
    BY <2>1, <2>2, ZenonT(40)
    DEF AnswerRoute, FailRoute, AfterRoute, TypeOK, path, calls, shown
<1>3. GroupNeverUnderflows'
  BY DEF AnswerRoute, FailRoute
<1> QED
  BY <1>1, <1>2, <1>3

LEMMA AnswerListStep ==
    ASSUME IInv, NEW xs \in SUBSET Items, AnswerList(xs)
    PROVE  IInv'
<1> USE DEF IInv, GroupNeverUnderflows
<1>1. GroupCounted'
  BY CallsUnchanged DEF AnswerList
<1>2. TypeOK'
  <2>1. matching' \in SUBSET Found
    BY FoundType DEF AnswerList
  <2>2. panel' \in [open : BOOLEAN, title : 0..MaxSearches,
                    list : BOOLEAN, rows : SUBSET Found]
    BY <2>1, OpenedType DEF AnswerList
  <2> QED
    BY <2>1, <2>2 DEF AnswerList, Pinned, TypeOK, path, detail
<1>3. GroupNeverUnderflows'
  BY DEF AnswerList
<1> QED
  BY <1>1, <1>2, <1>3

-----------------------------------------------------------------------------
(* Searches begin *)

LEMMA SearchLocallyStep ==
    ASSUME IInv, SearchLocally
    PROVE  IInv'
<1> USE DEF IInv, GroupNeverUnderflows
<1> DEFINE r == [search |-> cur + 1, at |-> 0]
<1>1. cur \in Nat /\ cur + 1 \in 1..MaxSearches
  BY BoundsAssumption DEF SearchLocally, BeginSearch, TypeOK
<1>2. r \in Request
  BY <1>1, BoundsAssumption DEF Request
<1>3. TypeOK'
  BY <1>1, <1>2 DEF SearchLocally, BeginSearch, TypeOK, path, detail, UnderWay
<1>4. cur' = cur + 1 /\ requests' = requests \cup {r}
      /\ queue' = queue /\ last' = last /\ group' = group
  BY DEF SearchLocally, BeginSearch
<1>5. \A s : Queued(s)' <=> Queued(s)
  BY <1>4 DEF Queued
<1>6. last.search \in Nat /\ last # r
  <2>1. last.search \in Nat /\ last.search <= cur
    BY BoundsAssumption DEF TypeOK, GroupCounted, Request, NoLoc
  <2>2. r.search = cur + 1
    OBVIOUS
  <2> QED
    BY <1>1, <2>1, <2>2
<1>7. \A q \in requests : q.search \in Nat
  BY DEF TypeOK, Request
<1>8. ~Queued(r.search)
  BY <1>1 DEF GroupCounted
<1>9. GroupCounted'
  BY <1>1, <1>4, <1>5, <1>6, <1>7, <1>8 DEF GroupCounted
<1> QED
  BY <1>3, <1>9 DEF SearchLocally

LEMMA SearchTrapsStep ==
    ASSUME IInv, SearchTraps
    PROVE  IInv'
<1> USE DEF IInv, GroupNeverUnderflows
<1>1. cur \in Nat /\ cur + 1 \in 1..MaxSearches
  BY BoundsAssumption DEF SearchTraps, BeginSearch, TypeOK
<1>2. TypeOK'
  BY <1>1
  DEF SearchTraps, BeginSearch, Cleared, TypeOK, path, detail, UnderWay
<1>3. cur' = cur + 1 /\ requests' = requests
      /\ queue' = queue /\ last' = last /\ group' = group
  BY DEF SearchTraps, BeginSearch
<1>4. \A s : Queued(s)' <=> Queued(s)
  BY <1>3 DEF Queued
<1>5. last.search \in Nat /\ \A q \in requests : q.search \in Nat
  BY DEF TypeOK, Request, NoLoc
<1>6. GroupCounted'
  BY <1>1, <1>3, <1>4, <1>5 DEF GroupCounted
<1> QED
  BY <1>2, <1>6 DEF SearchTraps

LEMMA SearchPathStep ==
    ASSUME IInv, NEW n \in 1..MaxCoords, SearchPath(n)
    PROVE  IInv'
<1> USE DEF IInv, GroupNeverUnderflows
<1> DEFINE b == Start(cur + 1, n)
<1>1. cur \in Nat /\ cur + 1 \in 1..MaxSearches
  BY BoundsAssumption DEF SearchPath, BeginSearch, TypeOK
<1>2. b \in Block /\ b.kind = "start" /\ b.search = cur + 1
  BY <1>1, StartType
<1> HIDE DEF b
<1>3. cur' = cur + 1 /\ requests' = requests /\ queue' = Append(queue, b)
      /\ group' = group + 1 /\ group \in Nat /\ queue \in Seq(Block)
  BY DEF SearchPath, BeginSearch, TypeOK, b
<1>4. last' \in Request /\ last'.search = cur + 1
  BY <1>1, BoundsAssumption DEF SearchPath, LastLoc, Request
<1>5. /\ queue' \in Seq(Block) /\ Len(queue') = Len(queue) + 1
      /\ Len(queue) \in Nat
      /\ \A i \in 1..Len(queue) : queue'[i] = queue[i]
      /\ queue'[Len(queue) + 1] = b
  BY <1>2, <1>3, AppendProperties
<1>6. TypeOK'
  <2>1. UNCHANGED <<path, asked, panel, detail, failed, requests, crashed>>
    BY DEF SearchPath, BeginSearch
  <2>2. matching' = {} /\ pins' = {} /\ items' = {}
    BY DEF SearchPath, BeginSearch, Cleared
  <2>3. notifies' \in Nat /\ group' \in Nat
    BY <1>3 DEF SearchPath, TypeOK
  <2>4. overlap' \in BOOLEAN
    BY DEF SearchPath, BeginSearch, UnderWay, TypeOK
  <2> QED
    BY <1>1, <1>3, <1>4, <1>5, <2>1, <2>2, <2>3, <2>4
    DEF TypeOK, path, detail
<1>7. \A s : Queued(s)' => Queued(s) \/ s = cur + 1
  BY <1>2, <1>3, <1>5 DEF Queued
<1>8. \A i \in 1..Len(queue) :
         queue[i].kind = "start" => /\ queue[i].search \in 1..MaxSearches
                                    /\ queue[i].search <= cur
  <2> TAKE i \in 1..Len(queue)
  <2> HAVE queue[i].kind = "start"
  <2>1. queue[i] \in Block
    BY <1>3, ElementOfSeq
  <2>2. queue[i].search \in 1..MaxSearches
    BY <2>1, BlockType
  <2>3. Queued(queue[i].search)
    BY DEF Queued
  <2> QED
    BY <2>2, <2>3 DEF GroupCounted
<1>9. \A q \in requests : q.search \in Nat /\ q.search <= cur
  BY DEF TypeOK, Request, GroupCounted
<1>10. (\A q \in requests : q.search <= cur /\ ~Queued(q.search))'
  BY <1>1, <1>3, <1>7, <1>9 DEF GroupCounted
<1>11. (\A i, j \in 1..Len(queue) :
          queue[i].kind = "start" /\ queue[j].kind = "start"
             /\ queue[i].search = queue[j].search => i = j)'
  <2> SUFFICES ASSUME NEW i \in 1..Len(queue'), NEW j \in 1..Len(queue'),
                      queue'[i].kind = "start", queue'[j].kind = "start",
                      queue'[i].search = queue'[j].search
               PROVE  i = j
    OBVIOUS
  <2>1. CASE i \in 1..Len(queue) /\ j \in 1..Len(queue)
    BY <1>5, <2>1 DEF GroupCounted
  <2>2. CASE i = Len(queue) + 1 /\ j \in 1..Len(queue)
    BY <1>1, <1>2, <1>5, <1>8, <2>2
  <2>3. CASE i \in 1..Len(queue) /\ j = Len(queue) + 1
    BY <1>1, <1>2, <1>5, <1>8, <2>3
  <2> QED
    BY <1>5, <2>1, <2>2, <2>3
<1>12. (\A s \in 1..MaxSearches : Queued(s) => s <= cur)'
  BY <1>1, <1>3, <1>7 DEF GroupCounted
<1>13. GroupCounted'
  BY <1>1, <1>3, <1>4, <1>10, <1>11, <1>12 DEF GroupCounted
<1> QED
  BY <1>6, <1>13 DEF SearchPath

-----------------------------------------------------------------------------
(* Searches are answered *)

\* One request less and the same queue.
LEMMA FewerRequests ==
    ASSUME GroupCounted, requests' \subseteq requests,
           UNCHANGED <<cur, last, queue, group>>
    PROVE  GroupCounted'
BY DEF GroupCounted, Queued

LEMMA AnswerLocalStep ==
    ASSUME IInv, NEW r \in requests, NEW xs \in SUBSET Items,
           AnswerLocal(r, xs)
    PROVE  IInv'
<1> USE DEF IInv, GroupNeverUnderflows
<1>1. GroupCounted'
  BY FewerRequests DEF AnswerLocal
<1>2. items' \in SUBSET Found
  <2>1. r \in Request
    BY DEF TypeOK
  <2> QED
    BY <2>1, FoundType DEF AnswerLocal, TypeOK
<1>3. panel' \in [open : BOOLEAN, title : 0..MaxSearches,
                  list : BOOLEAN, rows : SUBSET Found]
  BY <1>2, OpenedType DEF AnswerLocal
<1>4. TypeOK'
  BY <1>2, <1>3 DEF AnswerLocal, Pinned, TypeOK, path, detail
<1> QED
  BY <1>1, <1>4 DEF AnswerLocal

LEMMA FailSearchStep ==
    ASSUME IInv, NEW r \in requests, FailSearch(r)
    PROVE  IInv'
<1> USE DEF IInv, GroupNeverUnderflows
<1>1. GroupCounted'
  BY FewerRequests DEF FailSearch
<1>2. TypeOK'
  BY DEF FailSearch, TypeOK, path, shown, detail
<1> QED
  BY <1>1, <1>2 DEF FailSearch

\* Leaving the group may put notify blocks on the queue, but no start block.
LEMMA LeaveQueue ==
    ASSUME TypeOK, LeaveGroup
    PROVE  /\ queue' \in Seq(Block)
           /\ notifies' \in Nat
           /\ Len(queue) \in Nat /\ Len(queue') \in Nat
           /\ Len(queue) <= Len(queue')
           /\ \A i \in 1..Len(queue) : queue'[i] = queue[i]
           /\ \A i \in 1..Len(queue') :
                 i > Len(queue) => queue'[i].kind = "notify"
<1>1. queue \in Seq(Block) /\ notifies \in Nat /\ group \in Nat
  BY DEF TypeOK
<1>2. CASE group # 1
  BY <1>1, <1>2 DEF LeaveGroup
<1>3. CASE group = 1
  <2> DEFINE t == [i \in 1..notifies |-> Notify]
  <2>1. t \in Seq(Block) /\ Len(t) = notifies
    BY <1>1, NotifyType
  <2>2. \A i \in 1..notifies : t[i] = Notify
    OBVIOUS
  <2>3. queue' = queue \o t /\ notifies' = 0
    BY <1>3 DEF LeaveGroup
  <2> HIDE DEF t
  <2>4. /\ queue' \in Seq(Block)
        /\ Len(queue') = Len(queue) + notifies
        /\ \A i \in 1..Len(queue) + notifies :
              queue'[i] = IF i <= Len(queue) THEN queue[i]
                                           ELSE t[i - Len(queue)]
    BY <1>1, <2>1, <2>3, ConcatProperties
  <2>5. Len(queue) \in Nat
    BY <1>1
  <2>6. \A i \in 1..Len(queue') :
           i > Len(queue) => queue'[i].kind = "notify"
    BY <1>1, <2>2, <2>4, <2>5, NotifyType
  <2> QED
    BY <1>1, <2>3, <2>4, <2>5, <2>6
<1> QED
  BY <1>2, <1>3

LEMMA AnswerPointStep ==
    ASSUME IInv, NEW r \in requests, NEW xs \in SUBSET Items,
           AnswerPoint(r, xs)
    PROVE  IInv'
<1> USE DEF IInv, GroupNeverUnderflows
<1> DEFINE found == FoundBy(r, NewItems(xs))
<1>1. found \in SUBSET Found
  BY FoundType DEF TypeOK, NewItems
<1>2. matching' \in SUBSET Found /\ pins' \in SUBSET Found
  BY <1>1 DEF AnswerPoint, Pinned, TypeOK
<1>3. requests' \subseteq requests
  BY DEF AnswerPoint
<1>4. UNCHANGED <<trace, coords, cur, last, asked, items, panel, routes, info,
                  select, overlap, failed>>
  BY DEF AnswerPoint, path, detail
<1>5. CASE ~Leaves(r)
  <2>1. UNCHANGED <<group, crashed, queue, notifies>>
    BY <1>5 DEF AnswerPoint
  <2>2. GroupCounted'
    BY <1>3, <1>4, <2>1, FewerRequests
  <2>3. TypeOK'
    BY <1>2, <1>3, <1>4, <2>1 DEF TypeOK
  <2> QED
    BY <2>1, <2>2, <2>3
<1>6. CASE Leaves(r)
  <2>1. LeaveGroup /\ r = last
    BY <1>6 DEF AnswerPoint, Leaves
  <2>2. group \in Nat /\ group > 0
    BY <2>1 DEF GroupCounted, TypeOK
  <2>3. group' \in Nat /\ crashed' = crashed
    BY <2>1, <2>2 DEF LeaveGroup
  <2>4. /\ queue' \in Seq(Block) /\ notifies' \in Nat
        /\ Len(queue) \in Nat /\ Len(queue') \in Nat
        /\ Len(queue) <= Len(queue')
        /\ \A i \in 1..Len(queue) : queue'[i] = queue[i]
        /\ \A i \in 1..Len(queue') :
              i > Len(queue) => queue'[i].kind = "notify"
    BY <2>1, LeaveQueue
  <2>5. TypeOK'
    BY <1>2, <1>3, <1>4, <2>3, <2>4 DEF TypeOK
  <2>6. \A s : Queued(s)' => Queued(s)
    BY <2>4 DEF Queued
  <2>7. last' = last /\ last \notin requests' /\ ~Queued(last.search)
    BY <1>4, <2>1 DEF AnswerPoint, GroupCounted
  <2>8. (\A i, j \in 1..Len(queue) :
            queue[i].kind = "start" /\ queue[j].kind = "start"
               /\ queue[i].search = queue[j].search => i = j)'
    <3> SUFFICES ASSUME NEW i \in 1..Len(queue'), NEW j \in 1..Len(queue'),
                        queue'[i].kind = "start", queue'[j].kind = "start",
                        queue'[i].search = queue'[j].search
                 PROVE  i = j
      OBVIOUS
    <3>1. i \in 1..Len(queue) /\ j \in 1..Len(queue)
      BY <2>4
    <3> QED
      BY <2>4, <3>1 DEF GroupCounted
  <2>9. GroupCounted'
    BY <1>3, <1>4, <2>6, <2>7, <2>8 DEF GroupCounted
  <2> QED
    BY <2>3, <2>5, <2>9
<1> QED
  BY <1>5, <1>6

-----------------------------------------------------------------------------
(* The main queue runs a block *)

LEMMA RunBlockStep ==
    ASSUME IInv, RunBlock
    PROVE  IInv'
<1> USE DEF IInv, GroupNeverUnderflows
<1> DEFINE b == Head(queue)
<1>1. queue \in Seq(Block) /\ queue # <<>> /\ queue' = Tail(queue)
  BY DEF RunBlock, TypeOK
<1>2. /\ b \in Block /\ b = queue[1]
      /\ queue' \in Seq(Block)
      /\ Len(queue) \in Nat /\ Len(queue) > 0
      /\ Len(queue') = Len(queue) - 1
      /\ \A i \in 1..Len(queue') : queue'[i] = queue[i + 1]
  BY <1>1, HeadTailProperties
<1>3. UNCHANGED <<trace, coords, cur, last, asked, group, notifies, items,
                  matching, pins, routes, info, select, crashed, overlap,
                  failed>>
  BY DEF RunBlock, path, detail
<1> HIDE DEF b
<1>4. \A s : Queued(s)' => Queued(s)
  BY <1>2 DEF Queued
<1>5. (\A i, j \in 1..Len(queue) :
          queue[i].kind = "start" /\ queue[j].kind = "start"
             /\ queue[i].search = queue[j].search => i = j)'
  <2> SUFFICES ASSUME NEW i \in 1..Len(queue'), NEW j \in 1..Len(queue'),
                      queue'[i].kind = "start", queue'[j].kind = "start",
                      queue'[i].search = queue'[j].search
               PROVE  i = j
    OBVIOUS
  <2>1. /\ i + 1 \in 1..Len(queue) /\ j + 1 \in 1..Len(queue)
        /\ queue'[i] = queue[i + 1] /\ queue'[j] = queue[j + 1]
    BY <1>2
  <2>2. i + 1 = j + 1
    BY <2>1 DEF GroupCounted
  <2> QED
    BY <1>2, <2>2
<1>6. CASE OpenPanel
  <2>1. requests' = requests
    BY <1>6 DEF OpenPanel
  <2>2. panel' \in [open : BOOLEAN, title : 0..MaxSearches,
                    list : BOOLEAN, rows : SUBSET Found]
    BY <1>6, OpenedType DEF OpenPanel, TypeOK
  <2>3. TypeOK'
    BY <1>2, <1>3, <2>1, <2>2 DEF TypeOK
  <2>4. GroupCounted'
    BY <1>3, <1>4, <1>5, <2>1 DEF GroupCounted
  <2> QED
    BY <1>3, <2>3, <2>4
<1>7. CASE StartRequests
  <2> DEFINE new == {[search |-> b.search, at |-> i] : i \in 1..b.points}
  <2>1. b.kind = "start" /\ requests' = requests \cup new /\ panel' = panel
    BY <1>7 DEF StartRequests, b
  <2>2. b.search \in 1..MaxSearches /\ b.points \in 1..MaxCoords
    BY <1>2, <2>1, BlockType
  <2>3. new \subseteq Request
    BY <2>2, BoundsAssumption DEF Request
  <2>4. \A r \in new : r.search = b.search
    OBVIOUS
  <2> HIDE DEF new
  <2>5. Queued(b.search)
    BY <1>2, <2>1 DEF Queued
  <2>6. ASSUME NEW i \in 1..Len(queue'), queue'[i].kind = "start"
        PROVE  queue'[i].search # b.search
    <3> SUFFICES ASSUME queue'[i].search = b.search
                 PROVE  FALSE
      OBVIOUS
    <3>1. i + 1 \in 1..Len(queue) /\ queue'[i] = queue[i + 1]
          /\ 1 \in 1..Len(queue) /\ i \in Nat /\ i > 0
      BY <1>2
    <3>2. i + 1 = 1
      BY <1>2, <2>1, <2>6, <3>1 DEF GroupCounted
    <3> QED
      BY <3>1, <3>2
  <2>7. b.search <= cur
    BY <2>2, <2>5 DEF GroupCounted
  <2>8. TypeOK'
    BY <1>2, <1>3, <2>1, <2>3 DEF TypeOK
  <2>9. (\A r \in requests : r.search <= cur /\ ~Queued(r.search))'
    <3> SUFFICES ASSUME NEW r \in requests'
                 PROVE  r.search <= cur' /\ ~Queued(r.search)'
      OBVIOUS
    <3>1. CASE r \in requests
      BY <1>3, <1>4, <3>1 DEF GroupCounted
    <3>2. CASE r \in new
      BY <1>3, <2>4, <2>6, <2>7, <3>2 DEF Queued
    <3> QED
      BY <2>1, <3>1, <3>2
  <2>10. last \in requests' \/ Queued(last.search)' => group > 0
    BY <1>3, <1>4, <2>1, <2>4, <2>5 DEF GroupCounted
  <2>11. GroupCounted'
    BY <1>3, <1>4, <1>5, <2>9, <2>10 DEF GroupCounted
  <2> QED
    BY <1>3, <2>8, <2>11
<1> QED
  BY <1>6, <1>7 DEF RunBlock

-----------------------------------------------------------------------------

LEMMA IInvStep == IInv /\ [Next]_vars => IInv'
<1> SUFFICES ASSUME IInv, [Next]_vars
             PROVE  IInv'
  OBVIOUS
<1>1. CASE User
  <2>1. CASE TapTrace
    BY <2>1, TraceStep
  <2>2. CASE SearchLocally
    BY <2>2, SearchLocallyStep
  <2>3. CASE SearchTraps
    BY <2>3, SearchTrapsStep
  <2>4. CASE CancelSearch \/ TapList
    BY <2>4, QuietSearchStep
  <2>5. ASSUME NEW n \in 1..MaxCoords, SearchPath(n)
        PROVE  IInv'
    BY <2>5, SearchPathStep
  <2>6. CASE \/ ClosePanel \/ CloseInfo
             \/ \E f \in panel.rows : SwipeRow(f) \/ TapRow(f)
             \/ \E f \in pins : TapPin(f)
    BY <2>6, PanelStep
  <2> QED
    BY <1>1, <2>1, <2>2, <2>3, <2>4, <2>5, <2>6 DEF User
<1>2. CASE System
  <2>1. CASE LocationUpdate
    BY <2>1, TraceStep
  <2>2. CASE RunBlock
    BY <2>2, RunBlockStep
  <2>3. ASSUME NEW r \in requests, Answer(r)
        PROVE  IInv'
    BY <2>3, FailSearchStep, AnswerLocalStep, AnswerPointStep DEF Answer
  <2>4. ASSUME NEW xs \in SUBSET Items, AnswerList(xs)
        PROVE  IInv'
    BY <2>4, AnswerListStep
  <2>5. ASSUME NEW q \in routes, AnswerRoute(q) \/ FailRoute(q)
        PROVE  IInv'
    BY <2>5, RouteStep
  <2> QED
    BY <1>2, <2>1, <2>2, <2>3, <2>4, <2>5 DEF System
<1>3. CASE UNCHANGED vars
  <2>1. GroupCounted'
    BY <1>3, CallsUnchanged DEF vars, calls, IInv
  <2>2. TypeOK'
    BY <1>3 DEF vars, path, calls, shown, detail, IInv, TypeOK
  <2> QED
    BY <1>3, <2>1, <2>2 DEF vars, IInv, GroupNeverUnderflows
<1> QED
  BY <1>1, <1>2, <1>3 DEF Next

LEMMA IInvAlways == Spec => []IInv
BY InitIInv, IInvStep, PTL DEF Spec

\* Every variable of MapController, its requests, blocks and panels keep their
\* type, for every path, number of searches and items.
THEOREM TraceTypeCorrect == Spec => []TypeOK
<1>1. IInv => TypeOK
  BY DEF IInv
<1> QED
  BY <1>1, IInvAlways, PTL

\* While the answer that leaves the DispatchGroup (MapController.swift:196)
\* is still to come, the group is entered, and that answer comes once.
THEOREM GroupAlwaysCounted == Spec => []GroupCounted
<1>1. IInv => GroupCounted
  BY DEF IInv
<1> QED
  BY <1>1, IInvAlways, PTL

\* No leave of the DispatchGroup is ever unbalanced, however many searches
\* overlap and in whatever order MapKit answers or fails them.
THEOREM GroupSafe == Spec => []GroupNeverUnderflows
<1>1. IInv => GroupNeverUnderflows
  BY DEF IInv
<1> QED
  BY <1>1, IInvAlways, PTL
-----------------------------------------------------------------------------
(* One search at a time: what holds as long as none overlaps another.      *)

\* The answer that will leave the group is still to come.
Awaited == last \in requests \/ queue = <<Start(cur, last.at)>>

\* The panel that a search along the path opens is still to come.
Due == last \in requests \/ queue # <<>>

\* Places of one search, none twice, each with its pin.
Clean(fs, s, ps) ==
    /\ \A f \in fs : f.search = s
    /\ \A f, g \in fs : f.item = g.item => f = g
    /\ ItemsOf(fs) \subseteq ItemsOf(ps)

\* What is under way is all of the latest search, and one thing at a time.
OneUnderWay ==
    /\ \A r \in requests : r.search = cur
    /\ \A r \in requests : r.at = 0 =>
          requests = {r} /\ queue = <<>> /\ items = {} /\ ~panel.open
    /\ asked => requests = {} /\ queue = <<>> /\ ~panel.open
    /\ queue # <<>> =>
          \/ queue = <<Start(cur, last.at)>> /\ last.search = cur /\ requests = {}
          \/ queue = <<Notify>> /\ last \notin requests
    /\ last \in requests => queue = <<>>
    /\ Due => ~panel.open /\ Clean(matching, cur, pins)

\* The panel is opened once for a search, and for each if none fails.
GroupKept ==
    /\ group = 0 => notifies = 0
    /\ group = 1 /\ Awaited => notifies = 1
    /\ ~failed /\ group > 0 => group = 1 /\ Awaited

Orderly ==
    /\ last = NoLoc \/ last.at > 0
    /\ ~overlap => OneUnderWay /\ GroupKept
    /\ OneAtATime
LEMMA InitOrderly == Init => Orderly
<1> SUFFICES ASSUME Init PROVE Orderly
  OBVIOUS
<1>1. last = NoLoc /\ requests = {} /\ queue = <<>> /\ asked = FALSE /\ group = 0 /\ notifies = 0
      /\ panel.open = FALSE
  BY DEF Init, Closed
<1>2. NoLoc \notin requests
  BY <1>1
<1> QED
  BY <1>1, <1>2 DEF Orderly, OneUnderWay, GroupKept, Due, Awaited, OneAtATime

\* A step that leaves the calls and what is shown alone.
LEMMA AloneOrderly ==
    ASSUME Orderly, UNCHANGED <<calls, shown, overlap>>, failed' = failed \/ failed' = TRUE
    PROVE  Orderly'
<1> USE DEF calls, shown
<1>1. OneUnderWay => OneUnderWay'
  BY DEF OneUnderWay, Due, Clean
<1>2. GroupKept => GroupKept'
  BY DEF GroupKept, Awaited
<1>3. OneAtATime'
  BY DEF Orderly, OneAtATime
<1> QED
  BY <1>1, <1>2, <1>3 DEF Orderly

\* The user closes the panel, or deletes a row of it.
LEMMA PanelOrderly ==
    ASSUME Orderly, ClosePanel \/ \E f \in panel.rows : SwipeRow(f)
    PROVE  Orderly'
<1>1. UNCHANGED <<calls, items, matching, overlap, failed>> /\ panel.open
  BY DEF ClosePanel, SwipeRow
<1>2. CASE ClosePanel
  <2>1. pins' = {} /\ ~panel'.open
    BY <1>2 DEF ClosePanel, Closed
  <2>2. OneUnderWay => OneUnderWay'
    BY <1>1, <2>1 DEF OneUnderWay, Due, calls
  <2>3. GroupKept => GroupKept'
    BY <1>1 DEF GroupKept, Awaited, calls
  <2>4. OneAtATime'
    BY <2>1 DEF OneAtATime
  <2> QED
    BY <1>1, <2>2, <2>3, <2>4 DEF Orderly, calls
<1>3. ASSUME NEW f \in panel.rows, SwipeRow(f)
      PROVE  Orderly'
  <2>1. pins' = pins /\ panel' = [panel EXCEPT !.rows = @ \ {f}]
    BY <1>3 DEF SwipeRow
  <2>2. OneUnderWay => OneUnderWay'
    BY <1>1 DEF OneUnderWay, Due, calls
  <2>3. GroupKept => GroupKept'
    BY <1>1 DEF GroupKept, Awaited, calls
  <2>4. OneAtATime'
    BY <1>1, <2>1 DEF OneAtATime, Orderly, ItemsOf
  <2> QED
    BY <1>1, <2>2, <2>3, <2>4 DEF Orderly, calls
<1> QED
  BY <1>2, <1>3

\* A step that would make two things be under way sets overlap.
LEMMA NothingUnderWay ==
    ASSUME TypeOK, overlap' = (overlap \/ UnderWay), ~overlap'
    PROVE  ~overlap /\ requests = {} /\ queue = <<>> /\ ~asked
BY DEF UnderWay, TypeOK

LEMMA QuietOrderly ==
    ASSUME IInv, Orderly, CancelSearch \/ TapList
    PROVE  Orderly'
<1>1. /\ UNCHANGED <<cur, last, requests, queue, group, notifies, items, matching, panel, failed>>
      /\ pins' = {} /\ overlap' = (overlap \/ UnderWay) /\ ~panel.open
  BY DEF CancelSearch, TapList, calls, Searchable
<1>2. ASSUME ~overlap'
      PROVE  OneUnderWay' /\ GroupKept'
  <2>1. ~overlap /\ requests = {} /\ queue = <<>>
    BY <1>1, <1>2, NothingUnderWay DEF IInv
  <2>2. OneUnderWay'
    BY <1>1, <2>1 DEF OneUnderWay, Due
  <2>3. GroupKept'
    BY <1>1, <2>1 DEF Orderly, GroupKept, Awaited
  <2> QED
    BY <2>2, <2>3
<1>3. OneAtATime'
  BY <1>1 DEF OneAtATime
<1> QED
  BY <1>1, <1>2, <1>3 DEF Orderly

LEMMA SearchLocallyOrderly ==
    ASSUME IInv, Orderly, SearchLocally
    PROVE  Orderly'
<1> DEFINE r == [search |-> cur + 1, at |-> 0]
<1>1. /\ UNCHANGED <<last, asked, queue, group, notifies, matching, panel, failed>>
      /\ cur' = cur + 1 /\ requests' = requests \cup {r} /\ items' = {}
      /\ overlap' = (overlap \/ UnderWay) /\ ~panel.open
  BY DEF SearchLocally, BeginSearch, Searchable
<1>2. r.search = cur' /\ r.at = 0
  BY <1>1
<1> HIDE DEF r
<1>3. last # r
  BY <1>2, BoundsAssumption DEF Orderly, NoLoc, IInv, TypeOK, Request, GroupCounted, r
<1>4. ASSUME ~overlap'
      PROVE  OneUnderWay' /\ GroupKept'
  <2>1. ~overlap /\ requests = {} /\ queue = <<>> /\ ~asked
    BY <1>1, <1>4, NothingUnderWay DEF IInv
  <2>2. last \notin requests'
    BY <1>1, <1>3, <2>1
  <2>3. OneUnderWay'
    BY <1>1, <1>2, <2>1, <2>2 DEF OneUnderWay, Due
  <2>4. GroupKept'
    BY <1>1, <2>1, <2>2 DEF Orderly, GroupKept, Awaited
  <2> QED
    BY <2>3, <2>4
<1>5. OneAtATime'
  BY <1>1 DEF OneAtATime
<1> QED
  BY <1>1, <1>4, <1>5 DEF Orderly

LEMMA SearchTrapsOrderly ==
    ASSUME IInv, Orderly, SearchTraps
    PROVE  Orderly'
<1>1. /\ UNCHANGED <<last, requests, asked, queue, group, notifies, panel, failed>>
      /\ overlap' = (overlap \/ UnderWay) /\ ~panel.open
  BY DEF SearchTraps, BeginSearch, Searchable
<1>2. ASSUME ~overlap'
      PROVE  OneUnderWay' /\ GroupKept'
  <2>1. ~overlap /\ requests = {} /\ queue = <<>> /\ ~asked
    BY <1>1, <1>2, NothingUnderWay DEF IInv
  <2>2. OneUnderWay'
    BY <1>1, <2>1 DEF OneUnderWay, Due
  <2>3. GroupKept'
    BY <1>1, <2>1 DEF Orderly, GroupKept, Awaited
  <2> QED
    BY <2>2, <2>3
<1>3. OneAtATime'
  BY <1>1 DEF OneAtATime
<1> QED
  BY <1>1, <1>2, <1>3 DEF Orderly

LEMMA SearchPathOrderly ==
    ASSUME IInv, Orderly, NEW n \in 1..MaxCoords, SearchPath(n)
    PROVE  Orderly'
<1>1. /\ UNCHANGED <<requests, asked, panel, failed>>
      /\ cur' = cur + 1 /\ last' = [search |-> cur + 1, at |-> n]
      /\ queue' = Append(queue, Start(cur + 1, n))
      /\ group' = group + 1 /\ notifies' = notifies + 1
      /\ matching' = {} /\ overlap' = (overlap \/ UnderWay) /\ ~panel.open
  BY DEF SearchPath, BeginSearch, Searchable, LastLoc, Cleared
<1>2. last'.search = cur' /\ last'.at = n /\ n \in Nat /\ n > 0
  BY <1>1
<1>3. group \in Nat /\ notifies \in Nat
  BY DEF IInv, TypeOK
<1>4. ASSUME ~overlap'
      PROVE  OneUnderWay' /\ GroupKept'
  <2>1. ~overlap /\ requests = {} /\ queue = <<>> /\ ~asked
    BY <1>1, <1>4, NothingUnderWay DEF IInv
  <2>2. queue' = <<Start(cur', last'.at)>> /\ queue' # <<>>
    BY <1>1, <1>2, <2>1
  <2>3. OneUnderWay'
    BY <1>1, <1>2, <2>1, <2>2 DEF OneUnderWay, Due, Clean, ItemsOf
  <2>4. GroupKept'
    <3>1. last \notin requests /\ queue # <<Start(cur, last.at)>>
      BY <2>1
    <3>2. ~failed => group = 0
      BY <1>3, <2>1, <3>1 DEF Orderly, GroupKept, Awaited
    <3>3. group' = 1 => notifies' = 1
      BY <1>1, <1>3, <2>1 DEF Orderly, GroupKept
    <3>4. Awaited'
      BY <2>2 DEF Awaited
    <3>5. group' # 0 /\ (~failed' => group' = 1)
      BY <1>1, <1>3, <3>2
    <3> QED
      BY <3>3, <3>4, <3>5 DEF GroupKept
  <2> QED
    BY <2>3, <2>4
<1>5. OneAtATime'
  BY <1>1 DEF OneAtATime
<1> QED
  BY <1>1, <1>2, <1>4, <1>5 DEF Orderly

LEMMA AnswerListOrderly ==
    ASSUME IInv, Orderly, NEW xs \in SUBSET Items, AnswerList(xs)
    PROVE  Orderly'
<1>1. /\ UNCHANGED <<cur, last, requests, queue, group, notifies, items, overlap, failed>>
      /\ asked /\ asked' = FALSE /\ matching' = FoundBy(NoLoc, xs)
      /\ pins' = pins \cup matching' /\ panel' = Opened(matching', TRUE)
  BY DEF AnswerList, Pinned
<1>2. \A f \in matching' : f.search = 0 /\ f.at = 0
  BY <1>1 DEF FoundBy, NoLoc
<1>3. \A f, g \in matching' : f.item = g.item => f = g
  BY <1>1 DEF FoundBy, NoLoc
<1>4. panel'.open = TRUE /\ panel'.rows = matching' /\ (~panel.open => panel'.title = 0)
  BY <1>1 DEF Opened
<1>5. ASSUME ~overlap
      PROVE  requests = {} /\ queue = <<>> /\ ~panel.open
  BY <1>1, <1>5 DEF Orderly, OneUnderWay
<1>6. ~overlap => OneUnderWay'
  BY <1>1, <1>5 DEF OneUnderWay, Due
<1>7. GroupKept => GroupKept'
  BY <1>1 DEF GroupKept, Awaited
<1>8. OneAtATime'
  BY <1>1, <1>2, <1>3, <1>4, <1>5 DEF OneAtATime, ItemsOf
<1> QED
  BY <1>1, <1>6, <1>7, <1>8 DEF Orderly
LEMMA AnswerLocalOrderly ==
    ASSUME IInv, Orderly, NEW r \in requests, NEW xs \in SUBSET Items,
           AnswerLocal(r, xs)
    PROVE  Orderly'
<1>1. /\ UNCHANGED <<cur, last, asked, queue, group, notifies, overlap, failed>>
      /\ r.at = 0 /\ requests' = requests \ {r}
      /\ items' = items \cup FoundBy(r, xs) /\ matching' = items'
      /\ pins' = pins \cup items' /\ panel' = Opened(items', FALSE)
  BY DEF AnswerLocal, Pinned
<1>2. \A f \in FoundBy(r, xs) : f.search = r.search /\ f.at = r.at
  BY DEF FoundBy
<1>3. \A f, g \in FoundBy(r, xs) : f.item = g.item => f = g
  BY DEF FoundBy
<1>4. panel'.open = TRUE /\ panel'.rows = items' /\ (~panel.open => panel'.title = cur)
  BY <1>1 DEF Opened
<1>5. ASSUME ~overlap
      PROVE  requests = {r} /\ r.search = cur /\ queue = <<>> /\ items = {} /\ ~panel.open /\ ~asked
  BY <1>1, <1>5 DEF Orderly, OneUnderWay
<1>6. ~overlap => OneUnderWay'
  BY <1>1, <1>5 DEF OneUnderWay, Due
<1>7. ~overlap => GroupKept'
  <2>1. r # last
    BY <1>1 DEF Orderly, IInv, TypeOK, Request, NoLoc
  <2> QED
    BY <1>1, <2>1 DEF Orderly, GroupKept, Awaited
<1>8. OneAtATime'
  BY <1>1, <1>2, <1>3, <1>4, <1>5 DEF OneAtATime, ItemsOf
<1> QED
  BY <1>1, <1>6, <1>7, <1>8 DEF Orderly

LEMMA FailSearchOrderly ==
    ASSUME IInv, Orderly, NEW r \in requests, FailSearch(r)
    PROVE  Orderly'
<1>1. /\ UNCHANGED <<cur, last, asked, queue, group, notifies, items, matching, pins, panel, overlap>>
      /\ requests' = requests \ {r} /\ failed' = TRUE
  BY DEF FailSearch, shown
<1>2. OneUnderWay => OneUnderWay'
  BY <1>1 DEF OneUnderWay, Due, Clean
<1>3. GroupKept => GroupKept'
  BY <1>1 DEF GroupKept, Awaited
<1>4. OneAtATime'
  BY <1>1 DEF Orderly, OneAtATime
<1> QED
  BY <1>1, <1>2, <1>3, <1>4 DEF Orderly

\* What an answer along the path adds keeps places and pins together.
LEMMA MoreFound ==
    ASSUME NEW r \in requests, NEW xs \in SUBSET Items, NEW s, NEW fs,
           Clean(fs, s, pins), r.search = s
    PROVE  Clean(fs \cup FoundBy(r, NewItems(xs)), s, pins \cup FoundBy(r, NewItems(xs)))
<1> DEFINE new == FoundBy(r, NewItems(xs))
<1>1. \A f \in new : f.search = s
  BY DEF FoundBy
<1>2. \A f, g \in new : f.item = g.item => f = g
  BY DEF FoundBy
<1>3. \A f \in new, g \in fs : f.item # g.item
  BY DEF FoundBy, NewItems, Clean, ItemsOf
<1> HIDE DEF new
<1>4. \A f, g \in fs \cup new : f.item = g.item => f = g
  BY <1>2, <1>3 DEF Clean
<1>5. \A f \in fs \cup new : f.search = s
  BY <1>1 DEF Clean
<1>6. ItemsOf(fs \cup new) \subseteq ItemsOf(pins \cup new)
  BY DEF Clean, ItemsOf
<1> QED
  BY <1>4, <1>5, <1>6 DEF Clean, new

LEMMA AnswerPointOrderly ==
    ASSUME IInv, Orderly, NEW r \in requests, NEW xs \in SUBSET Items,
           AnswerPoint(r, xs)
    PROVE  Orderly'
<1> DEFINE new == FoundBy(r, NewItems(xs))
<1>1. /\ UNCHANGED <<cur, last, asked, items, panel, overlap, failed>>
      /\ r.at > 0 /\ requests' = requests \ {r}
      /\ matching' = matching \cup new /\ pins' = pins \cup new
      /\ IF r = last THEN LeaveGroup ELSE UNCHANGED <<group, queue, notifies>>
  BY DEF AnswerPoint, Pinned, Leaves
<1>2. group \in Nat /\ notifies \in Nat /\ queue \in Seq(Block)
  BY DEF IInv, TypeOK
<1>3. r = last => group > 0
  BY DEF IInv, GroupCounted
<1>4. ASSUME ~overlap
      PROVE  /\ OneUnderWay /\ GroupKept /\ r.search = cur
             /\ Due => Clean(matching, cur, pins)'
  <2>1. OneUnderWay /\ GroupKept /\ r.search = cur
    BY <1>4 DEF Orderly, OneUnderWay
  <2>2. Due => Clean(matching, cur, pins)'
    <3>1. ASSUME Due PROVE Clean(matching, cur, pins)'
      <4>1. Clean(matching, cur, pins)
        BY <2>1, <3>1 DEF OneUnderWay
      <4>2. Clean(matching \cup new, cur, pins \cup new)
        BY <2>1, <4>1, MoreFound
      <4> QED
        BY <1>1, <4>2
    <3> QED
      BY <3>1
  <2> QED
    BY <2>1, <2>2
<1> HIDE DEF new
<1>5. ASSUME ~overlap, r # last
      PROVE  OneUnderWay' /\ GroupKept'
  <2>1. UNCHANGED <<group, queue, notifies>> /\ (last \in requests' <=> last \in requests)
    BY <1>1, <1>5
  <2>2. Due' => Due
    BY <1>1, <2>1 DEF Due
  <2>3. OneUnderWay'
    BY <1>1, <1>4, <1>5, <2>1, <2>2 DEF OneUnderWay
  <2>4. GroupKept'
    BY <1>1, <1>4, <1>5, <2>1 DEF GroupKept, Awaited
  <2> QED
    BY <2>3, <2>4
<1>6. ASSUME ~overlap, r = last
      PROVE  OneUnderWay' /\ GroupKept'
  <2>1. LeaveGroup /\ group > 0 /\ queue = <<>> /\ Due /\ Awaited /\ ~panel.open
        /\ last \notin requests'
    BY <1>1, <1>3, <1>4, <1>6 DEF OneUnderWay, Due, Awaited
  <2>2. CASE group = 1
    <3>1. notifies = 1 /\ group' = 0 /\ notifies' = 0
          /\ queue' = queue \o [i \in 1..notifies |-> Notify]
      BY <1>4, <1>6, <2>1, <2>2 DEF GroupKept, LeaveGroup
    <3>2. queue' = <<Notify>>
      <4>1. [i \in 1..1 |-> Notify] = <<Notify>>
        OBVIOUS
      <4> HIDE <2>1
      <4> QED
        BY <2>1, <3>1, <4>1, NotifyType
    <3>3. OneUnderWay'
      BY <1>1, <1>4, <1>6, <2>1, <3>2 DEF OneUnderWay, Due
    <3>4. GroupKept'
      BY <3>1 DEF GroupKept
    <3> QED
      BY <3>3, <3>4
  <2>3. CASE group # 1
    <3>1. queue' = <<>> /\ notifies' = notifies /\ group' = group - 1
      BY <2>1, <2>3 DEF LeaveGroup
    <3>2. OneUnderWay'
      BY <1>1, <1>4, <1>6, <2>1, <3>1 DEF OneUnderWay, Due
    <3>3. ~Awaited'
      BY <1>1, <2>1, <3>1 DEF Awaited
    <3>4. failed /\ group' # 0
      BY <1>2, <1>4, <1>6, <2>1, <2>3, <3>1 DEF GroupKept
    <3> QED
      BY <1>1, <3>2, <3>3, <3>4 DEF GroupKept
  <2> QED
    BY <2>2, <2>3
<1>7. OneAtATime'
  BY <1>1 DEF Orderly, OneAtATime, ItemsOf
<1> QED
  BY <1>1, <1>5, <1>6, <1>7 DEF Orderly
LEMMA RunBlockOrderly ==
    ASSUME IInv, Orderly, RunBlock
    PROVE  Orderly'
<1>1. /\ UNCHANGED <<cur, last, asked, group, notifies, items, matching, pins, overlap, failed>>
      /\ queue # <<>> /\ queue' = Tail(queue)
      /\ StartRequests \/ OpenPanel
  BY DEF RunBlock
<1>2. last \in requests => last \in requests'
  BY <1>1 DEF StartRequests, OpenPanel
<1>3. ASSUME ~overlap, queue = <<Start(cur, last.at)>>, last.search = cur, requests = {}
      PROVE  OneUnderWay' /\ GroupKept' /\ OneAtATime'
  <2>1. Head(queue) = Start(cur, last.at) /\ queue' = <<>>
    BY <1>1, <1>3
  <2>2. /\ requests' = {[search |-> cur, at |-> i] : i \in 1..last.at}
        /\ panel' = panel
    <3>1. /\ Head(queue).kind = "start" /\ Head(queue).search = cur
          /\ Head(queue).points = last.at
      BY <2>1 DEF Start
    <3>2. StartRequests
      BY <1>1, <3>1 DEF OpenPanel
    <3> QED
      BY <1>3, <3>1, <3>2 DEF StartRequests
  <2>3. last \in requests'
    <3>1. last \in Request
      <4>1. queue \in Seq(Block) /\ Len(queue) = 1 /\ queue[1] = Start(cur, last.at)
        BY <1>3 DEF IInv, TypeOK
      <4>2. queue[1] \in Block
        BY <4>1, ElementOfSeq
      <4>3. cur \in 1..MaxSearches
        BY <4>1, <4>2, BlockType DEF Start
      <4> QED
        BY <1>3, <4>3 DEF IInv, TypeOK, NoLoc
    <3>2. last.at \in 1..last.at /\ last = [search |-> cur, at |-> last.at]
      BY <1>3, <3>1, BoundsAssumption DEF Orderly, NoLoc, Request
    <3> QED
      BY <2>2, <3>2
  <2>4. (\A r \in requests : r.search = cur /\ r.at # 0)'
    BY <1>1, <2>2
  <2>5. Due /\ ~panel.open /\ Clean(matching, cur, pins) /\ ~asked
    BY <1>1, <1>3 DEF Orderly, OneUnderWay, Due
  <2>6. OneUnderWay'
    BY <1>1, <2>1, <2>2, <2>3, <2>4, <2>5 DEF OneUnderWay, Due
  <2>7. GroupKept'
    BY <1>1, <1>3, <2>3 DEF Orderly, GroupKept, Awaited
  <2>8. OneAtATime'
    BY <1>1, <2>2, <2>5 DEF OneAtATime
  <2> QED
    BY <2>6, <2>7, <2>8
<1>4. ASSUME ~overlap, queue = <<Notify>>, last \notin requests
      PROVE  OneUnderWay' /\ GroupKept' /\ OneAtATime'
  <2>1. Head(queue) = Notify /\ queue' = <<>>
    BY <1>1, <1>4
  <2>2. requests' = requests /\ panel' = Opened(matching, FALSE)
    <3>1. Head(queue).kind = "notify"
      BY <2>1 DEF Notify
    <3> QED
      BY <1>1, <3>1 DEF StartRequests, OpenPanel
  <2>3. OneUnderWay /\ Due /\ ~panel.open /\ Clean(matching, cur, pins) /\ ~asked
    BY <1>1, <1>4 DEF Orderly, OneUnderWay, Due
  <2>4. \A r \in requests : r.at # 0
    BY <1>1, <2>3 DEF OneUnderWay
  <2>5. OneUnderWay'
    BY <1>1, <1>4, <2>1, <2>2, <2>3, <2>4 DEF OneUnderWay, Due
  <2>6. GroupKept'
    <3>1. queue # <<Start(cur, last.at)>>
      <4>1. Head(<<Start(cur, last.at)>>).kind = "start" /\ Head(<<Notify>>).kind = "notify"
        BY DEF Start, Notify
      <4> QED
        BY <1>4, <4>1
    <3> QED
      BY <1>1, <1>4, <2>1, <2>2, <3>1 DEF Orderly, GroupKept, Awaited
  <2>7. OneAtATime'
    <3>1. panel'.rows = matching /\ panel'.title = cur
      BY <2>2, <2>3 DEF Opened
    <3> QED
      BY <1>1, <2>3, <3>1 DEF OneAtATime, Clean
  <2> QED
    BY <2>5, <2>6, <2>7
<1>5. ~overlap => \/ queue = <<Start(cur, last.at)>> /\ last.search = cur /\ requests = {}
                  \/ queue = <<Notify>> /\ last \notin requests
  BY <1>1 DEF Orderly, OneUnderWay
<1>6. overlap => OneAtATime'
  BY <1>1 DEF OneAtATime
<1>7. OneAtATime' /\ (~overlap => OneUnderWay' /\ GroupKept')
  BY <1>3, <1>4, <1>5, <1>6
<1> QED
  BY <1>1, <1>7 DEF Orderly

LEMMA OrderlyStep == IInv /\ Orderly /\ [Next]_vars => Orderly'
<1> SUFFICES ASSUME IInv, Orderly, [Next]_vars
             PROVE  Orderly'
  OBVIOUS
<1>1. CASE User
  <2>1. CASE \/ TapTrace \/ CloseInfo
             \/ \E f \in panel.rows : TapRow(f)
             \/ \E f \in pins : TapPin(f)
    BY <2>1, AloneOrderly DEF TapTrace, CloseInfo, TapRow, TapPin, AskRoute
  <2>2. CASE \/ SearchLocally \/ SearchTraps \/ CancelSearch \/ TapList
             \/ ClosePanel \/ \E f \in panel.rows : SwipeRow(f)
    BY <2>2, SearchLocallyOrderly, SearchTrapsOrderly, QuietOrderly, PanelOrderly
  <2>3. ASSUME NEW n \in 1..MaxCoords, SearchPath(n)
        PROVE  Orderly'
    BY <2>3, SearchPathOrderly
  <2> QED
    BY <1>1, <2>1, <2>2, <2>3 DEF User
<1>2. CASE System
  <2>1. CASE LocationUpdate \/ \E q \in routes : AnswerRoute(q) \/ FailRoute(q)
    BY <2>1, AloneOrderly DEF LocationUpdate, AnswerRoute, FailRoute
  <2>2. ASSUME NEW r \in requests, Answer(r)
        PROVE  Orderly'
    BY <2>2, FailSearchOrderly, AnswerLocalOrderly, AnswerPointOrderly DEF Answer
  <2>3. ASSUME NEW xs \in SUBSET Items, AnswerList(xs)
        PROVE  Orderly'
    BY <2>3, AnswerListOrderly
  <2> QED
    BY <1>2, <2>1, <2>2, <2>3, RunBlockOrderly DEF System
<1>3. CASE UNCHANGED vars
  BY <1>3, AloneOrderly DEF vars
<1> QED
  BY <1>1, <1>2, <1>3 DEF Next

LEMMA OrderlyAlways == Spec => []Orderly
BY InitOrderly, IInvAlways, OrderlyStep, PTL DEF Spec

\* Only a search that failed, or that began before an older one was over, can
\* leave the DispatchGroup entered with nothing left that would leave it
\* (MapController.swift:196), whatever the number of searches and points.
THEOREM GroupStuckOnlyAfterLoss == Spec => []StuckOnlyAfterLoss
<1>1. IInv /\ Orderly => StuckOnlyAfterLoss
  <2> SUFFICES ASSUME Orderly, ~overlap, ~failed, group > 0, requests = {}, queue = <<>>
               PROVE  FALSE
    BY DEF StuckOnlyAfterLoss
  <2>1. Awaited
    BY DEF Orderly, GroupKept
  <2> QED
    BY <2>1 DEF Awaited
<1> QED
  BY <1>1, IInvAlways, OrderlyAlways, PTL

\* As long as no search overlaps another, the panel lists what the search of
\* its title found, no place twice and each with its pin, in whatever order the
\* answers come and whatever fails.
THEOREM PanelOneAtATime == Spec => []OneAtATime
<1>1. Orderly => OneAtATime
  BY DEF Orderly
<1> QED
  BY <1>1, OrderlyAlways, PTL

-----------------------------------------------------------------------------
(* Pin taps are off while the route to a row is awaited.                   *)

LEMMA SelectStep == SelectMeansRoute /\ [Next]_vars => SelectMeansRoute'
<1> SUFFICES ASSUME SelectMeansRoute, [Next]_vars
             PROVE  SelectMeansRoute'
  OBVIOUS
<1> USE DEF SelectMeansRoute
<1>1. CASE UNCHANGED <<routes, select, failed>> /\ (crashed' = "no" => crashed = "no")
  BY <1>1
<1>2. CASE UNCHANGED vars
  BY <1>2 DEF vars, detail
<1>3. CASE Next
  <2>1. crashed = "no"
    BY <1>3 DEF Next
  <2>2. CASE \/ TapTrace \/ SearchLocally \/ SearchTraps \/ CancelSearch \/ TapList
             \/ \E n \in 1..MaxCoords : SearchPath(n)
             \/ ClosePanel \/ \E f \in panel.rows : SwipeRow(f)
             \/ LocationUpdate \/ RunBlock \/ \E xs \in SUBSET Items : AnswerList(xs)
    <3>1. UNCHANGED detail /\ failed' = failed
      BY <2>2 DEF TapTrace, SearchLocally, SearchTraps, CancelSearch, TapList, SearchPath,
         BeginSearch, ClosePanel, SwipeRow, LocationUpdate, RunBlock, AnswerList
    <3> QED
      BY <1>1, <2>1, <3>1 DEF detail
  <2>3. CASE CloseInfo
    BY <2>3 DEF CloseInfo
  <2>4. ASSUME NEW f, TapRow(f)
        PROVE  SelectMeansRoute'
    <3>1. [row |-> TRUE, item |-> f.item] \in routes'
      BY <2>4 DEF TapRow, AskRoute
    <3> QED
      BY <3>1
  <2>5. ASSUME NEW f, TapPin(f)
        PROVE  SelectMeansRoute'
    BY <2>5 DEF TapPin
  <2>6. ASSUME NEW r \in requests, Answer(r)
        PROVE  SelectMeansRoute'
    <3>1. CASE FailSearch(r)
      BY <3>1 DEF FailSearch
    <3>2. ASSUME NEW xs, AnswerLocal(r, xs) \/ AnswerPoint(r, xs)
          PROVE  SelectMeansRoute'
      <4>1. UNCHANGED detail /\ failed' = failed
        BY <3>2 DEF AnswerLocal, AnswerPoint
      <4> QED
        BY <1>1, <2>1, <4>1 DEF detail
    <3> QED
      BY <2>6, <3>1, <3>2 DEF Answer
  <2>7. ASSUME NEW q \in routes, AnswerRoute(q)
        PROVE  SelectMeansRoute'
    BY <2>7 DEF AnswerRoute, AfterRoute
  <2>8. ASSUME NEW q \in routes, FailRoute(q)
        PROVE  SelectMeansRoute'
    BY <2>8 DEF FailRoute
  <2> QED
    BY <1>3, <2>2, <2>3, <2>4, <2>5, <2>6, <2>7, <2>8 DEF Next, User, System
<1> QED
  BY <1>2, <1>3

\* The pins cannot be tapped (tableViewSelect) only while a route to a row is
\* awaited, or after a route failed or the app trapped: no answer, close or
\* search in between leaves them dead.
THEOREM SelectAlwaysMeansRoute == Spec => []SelectMeansRoute
<1>1. Init => SelectMeansRoute
  BY DEF Init, SelectMeansRoute
<1> QED
  BY <1>1, SelectStep, PTL DEF Spec
=============================================================================
