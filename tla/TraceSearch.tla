----------------------------- MODULE TraceSearch -----------------------------
(***************************************************************************)
(* MapController: the traced path, the search along it, the panel of       *)
(* results and the route to one of them.                                   *)
(*                                                                         *)
(* A search along the path sends one MKLocalSearch per sample point and    *)
(* uses a DispatchGroup to learn when it is over: it enters the group      *)
(* once, the answer for the last sample point leaves it, and the panel     *)
(* opens when the group is empty.  Handlers and completions run on the     *)
(* main queue, one at a time; queue is what DispatchQueue.main.async and   *)
(* group.notify have put on it.                                            *)
(*                                                                         *)
(* Abstractions.  Which points of the path are sampled is in PathSampling: *)
(* here it is any number of them, the first included.  A search is named   *)
(* by its number, which also stands for searchText.  The location is       *)
(* known.  A panel changes in one step, without its animation.             *)
(***************************************************************************)
EXTENDS Integers, Sequences, FiniteSets

CONSTANTS
    Items,        \* the map items a search may find, told apart by coordinate
    MaxCoords,    \* bound on the points of the path
    MaxSearches,  \* bound on the searches made
    MaxRoutes     \* bound on the routes asked for and not answered

ASSUME BoundsAssumption ==
    MaxCoords \in Nat /\ MaxSearches \in Nat /\ MaxRoutes \in Nat

VARIABLES
    trace,     \* traceState
    coords,    \* coordinates.count
    cur,       \* the number of the latest search, that of searchText
    last,      \* allLoc.last
    requests,  \* MKLocalSearches started and not answered
    asked,     \* a getAllPlacesForList is not answered (one at a time)
    queue,     \* blocks on the main queue
    group,     \* enters less leaves of the DispatchGroup
    notifies,  \* notify blocks that wait for the group
    items,     \* matchingItems
    matching,  \* matchingPlaces
    pins,      \* annotations of the map
    panel,     \* detailFpc and its listDetailVC
    routes,    \* MKDirections not answered
    info,      \* infoFpc is shown
    select,    \* tableViewSelect
    crashed,   \* how the app trapped, or "no"
    overlap,   \* a search began, or was cancelled, before one was over
    failed     \* a search or a route failed

path == <<trace, coords>>
calls == <<cur, last, requests, asked, queue, group, notifies>>
shown == <<items, matching, pins, panel>>
detail == <<routes, info, select>>
vars == <<path, calls, shown, detail, crashed, overlap, failed>>

\* at is the sample point that is searched; 0 is the current location.
Request == [search : 1..MaxSearches, at : 0..MaxCoords]
NoLoc == [search |-> 0, at |-> 0]
Start(s, n) == [kind |-> "start", search |-> s, points |-> n]
Notify == [kind |-> "notify", search |-> 0, points |-> 0]
Block == {Start(s, n) : s \in 1..MaxSearches, n \in 1..MaxCoords} \cup {Notify}

\* A Place with the search that found it; search 0 is a saved list.
Found == [search : 0..MaxSearches, at : 0..MaxCoords, item : Items]
Closed == [open |-> FALSE, title |-> 0, list |-> FALSE, rows |-> {}]

TypeOK ==
    /\ trace \in {"neutral", "start", "stop", "restart"}
    /\ coords \in 0..MaxCoords
    /\ cur \in 0..MaxSearches
    /\ last \in Request \cup {NoLoc}
    /\ requests \subseteq Request
    /\ asked \in BOOLEAN
    /\ queue \in Seq(Block)
    /\ group \in Nat /\ notifies \in Nat
    /\ items \subseteq Found /\ matching \subseteq Found /\ pins \subseteq Found
    /\ panel \in [open : BOOLEAN, title : 0..MaxSearches, list : BOOLEAN,
                  rows : SUBSET Found]
    /\ routes \subseteq [row : BOOLEAN, item : Items]
    /\ info \in BOOLEAN /\ select \in BOOLEAN
    /\ crashed \in {"no", "range", "group", "pin", "document"}
    /\ overlap \in BOOLEAN /\ failed \in BOOLEAN

ItemsOf(fs) == {f.item : f \in fs}

-----------------------------------------------------------------------------
(* The traced path: didUpdateLocations and the three buttons *)

Searchable == ~panel.open /\ ~info

TapTrace ==
    /\ Searchable
    /\ trace' \in {"start", "stop", "restart"}
    /\ UNCHANGED <<coords, calls, shown, detail, crashed, overlap, failed>>

LocationUpdate ==
    /\ \/ /\ trace = "start" /\ coords < MaxCoords
          /\ coords' = coords + 1
          /\ UNCHANGED trace
       \/ /\ trace = "restart" /\ coords > 0
          /\ coords' = 0
          /\ trace' = "neutral"
       \/ /\ trace = "stop" /\ coords > 0
          /\ trace' = "neutral"
          /\ UNCHANGED coords
    /\ UNCHANGED <<calls, shown, detail, crashed, overlap, failed>>

-----------------------------------------------------------------------------
(* Searches.  deactivate(searchBar:) comes first and removes the pins.     *)

UnderWay == requests # {} \/ queue # <<>> \/ asked

BeginSearch ==
    /\ Searchable /\ cur < MaxSearches
    /\ cur' = cur + 1
    /\ pins' = {}
    /\ items' = {}
    /\ overlap' = (overlap \/ UnderWay)
    /\ UNCHANGED <<path, asked, panel, detail, failed>>

SearchLocally ==
    /\ coords = 0
    /\ BeginSearch
    /\ requests' = requests \cup {[search |-> cur + 1, at |-> 0]}
    /\ UNCHANGED <<last, queue, group, notifies, matching, crashed>>

MutantLastLoc(s, n) == [search |-> s, at |-> n - 1]
LastLoc(s, n) == [search |-> s, at |-> n]

\* The annotations and the matching places go before the points are chosen.
MutantCleared(fs) == fs
Cleared(fs) == {}

SearchPath(n) ==
    /\ coords > 1 /\ n \in 1..coords
    /\ BeginSearch
    /\ matching' = Cleared(matching)
    /\ last' = LastLoc(cur + 1, n)
    /\ group' = group + 1
    /\ queue' = Append(queue, Start(cur + 1, n))
    /\ notifies' = notifies + 1
    /\ UNCHANGED <<requests, crashed>>

\* The range 1...coordinates.count-1 of a path of one point.
SearchTraps ==
    /\ coords = 1
    /\ BeginSearch
    /\ matching' = Cleared(matching)
    /\ crashed' = "range"
    /\ UNCHANGED <<last, requests, queue, group, notifies>>

\* Cancel, or the search button of an empty search bar.
CancelSearch ==
    /\ Searchable
    /\ pins' = {}
    /\ overlap' = (overlap \/ UnderWay)
    /\ UNCHANGED <<path, calls, items, matching, panel, detail, crashed,
                   failed>>

TapList ==
    /\ Searchable /\ ~asked
    /\ asked' = TRUE
    /\ pins' = {}
    /\ overlap' = (overlap \/ UnderWay)
    /\ UNCHANGED <<path, cur, last, requests, queue, group, notifies, items,
                   matching, panel, detail, crashed, failed>>

-----------------------------------------------------------------------------
(* Answers *)

\* getDetailFcp: the title is set when the panel's view loads, and a list
\* once set stays until the panel is closed.
Opened(fs, isList) ==
    [open |-> TRUE, rows |-> fs, list |-> panel.list \/ isList,
     title |-> IF panel.open THEN panel.title ELSE IF isList THEN 0 ELSE cur]

FoundBy(r, xs) == {[search |-> r.search, at |-> r.at, item |-> x] : x \in xs}

Pinned(fs) == pins \cup fs

AnswerLocal(r, xs) ==
    /\ r.at = 0
    /\ requests' = requests \ {r}
    /\ items' = items \cup FoundBy(r, xs)
    /\ matching' = items'
    /\ pins' = Pinned(items')
    /\ panel' = Opened(items', FALSE)
    /\ UNCHANGED <<path, cur, last, asked, queue, group, notifies, detail,
                   crashed, overlap, failed>>

MutantNewItems(xs) == xs
NewItems(xs) == xs \ ItemsOf(pins)

\* The group is left by the answer for the last location of the latest
\* search along the path; when it is empty its notify blocks are queued.
MutantLeaves(r) == r.at = last.at
Leaves(r) == r = last

LeaveGroup ==
    /\ group' = group - 1
    /\ crashed' = IF group = 0 THEN "group" ELSE crashed
    /\ IF group = 1 THEN /\ queue' = queue \o [i \in 1..notifies |-> Notify]
                         /\ notifies' = 0
                    ELSE UNCHANGED <<queue, notifies>>

AnswerPoint(r, xs) ==
    /\ r.at > 0
    /\ requests' = requests \ {r}
    /\ matching' = matching \cup FoundBy(r, NewItems(xs))
    /\ pins' = Pinned(FoundBy(r, NewItems(xs)))
    /\ IF Leaves(r) THEN LeaveGroup
                    ELSE UNCHANGED <<group, crashed, queue, notifies>>
    /\ UNCHANGED <<path, cur, last, asked, items, panel, detail, overlap,
                   failed>>

\* The answer is printed and forgotten, and the group is not left.
FailSearch(r) ==
    /\ requests' = requests \ {r}
    /\ failed' = TRUE
    /\ UNCHANGED <<path, cur, last, asked, queue, group, notifies, shown,
                   detail, crashed, overlap>>

Answer(r) == FailSearch(r) \/ \E xs \in SUBSET Items :
                                 AnswerLocal(r, xs) \/ AnswerPoint(r, xs)

AnswerList(xs) ==
    /\ asked
    /\ asked' = FALSE
    /\ matching' = FoundBy(NoLoc, xs)
    /\ pins' = Pinned(matching')
    /\ panel' = Opened(matching', TRUE)
    /\ UNCHANGED <<path, cur, last, requests, queue, group, notifies, items,
                   detail, crashed, overlap, failed>>

-----------------------------------------------------------------------------
(* The main queue *)

StartRequests ==
    LET b == Head(queue)
    IN  /\ b.kind = "start"
        /\ requests' = requests \cup
               {[search |-> b.search, at |-> i] : i \in 1..b.points}
        /\ UNCHANGED panel

OpenPanel ==
    /\ Head(queue).kind = "notify"
    /\ panel' = Opened(matching, FALSE)
    /\ UNCHANGED requests

RunBlock ==
    /\ queue # <<>>
    /\ queue' = Tail(queue)
    /\ StartRequests \/ OpenPanel
    /\ UNCHANGED <<path, cur, last, asked, group, notifies, items, matching,
                   pins, detail, crashed, overlap, failed>>

-----------------------------------------------------------------------------
(* The panel of results and the route to a place *)

ClosePanel ==
    /\ panel.open /\ ~info
    /\ panel' = Closed
    /\ pins' = {}
    /\ UNCHANGED <<path, calls, items, matching, detail, crashed, overlap,
                   failed>>

\* Swipe to delete.  A search result has no document: its key is "".
SwipeRow(f) ==
    /\ panel.open /\ ~info /\ f \in panel.rows /\ panel.list
    /\ panel' = [panel EXCEPT !.rows = @ \ {f}]
    /\ crashed' = IF f.search = 0 THEN crashed ELSE "document"
    /\ UNCHANGED <<path, calls, items, matching, pins, detail, overlap, failed>>

AskRoute(isRow, x) ==
    /\ Cardinality(routes) < MaxRoutes
    /\ routes' = routes \cup {[row |-> isRow, item |-> x]}
    /\ UNCHANGED <<path, calls, shown, info, crashed, overlap, failed>>

TapRow(f) ==
    /\ panel.open /\ ~info /\ f \in panel.rows
    /\ select' = TRUE
    /\ AskRoute(TRUE, f.item)

\* getSamePlace looks for the place of the pin among the matching ones.
TapPin(f) ==
    /\ f \in pins /\ ~select
    /\ f.item \in ItemsOf(matching)
    /\ AskRoute(FALSE, f.item)
    /\ UNCHANGED select

MutantAfterRoute(s) == s
AfterRoute(s) == FALSE

\* animateAnnotation selects the pin of the place, which must be there.
\* Selecting one that is not selected calls didSelect as a tap does: without
\* tableViewSelect, the route is asked for again.
AnswerRoute(q) ==
    /\ info' = TRUE
    /\ IF q.item \in ItemsOf(pins)
       THEN /\ select' = AfterRoute(select)
            /\ UNCHANGED crashed
       ELSE /\ crashed' = "pin"
            /\ UNCHANGED select
    /\ \/ routes' = routes \ {q}
       \/ /\ ~select /\ q.item \in ItemsOf(pins) \cap ItemsOf(matching)
          /\ routes' = (routes \ {q}) \cup {[q EXCEPT !.row = FALSE]}
    /\ UNCHANGED <<path, calls, shown, overlap, failed>>

FailRoute(q) ==
    /\ routes' = routes \ {q}
    /\ failed' = TRUE
    /\ UNCHANGED <<path, calls, shown, info, select, crashed, overlap>>

CloseInfo ==
    /\ info
    /\ info' = FALSE
    /\ select' = FALSE
    /\ UNCHANGED <<path, calls, shown, routes, crashed, overlap, failed>>

-----------------------------------------------------------------------------

Init ==
    /\ trace = "neutral" /\ coords = 0
    /\ cur = 0 /\ last = NoLoc /\ requests = {} /\ asked = FALSE
    /\ queue = <<>> /\ group = 0 /\ notifies = 0
    /\ items = {} /\ matching = {} /\ pins = {} /\ panel = Closed
    /\ routes = {} /\ info = FALSE /\ select = FALSE
    /\ crashed = "no" /\ overlap = FALSE /\ failed = FALSE

User ==
    \/ TapTrace \/ SearchLocally \/ SearchTraps \/ CancelSearch \/ TapList
    \/ \E n \in 1..MaxCoords : SearchPath(n)
    \/ ClosePanel \/ CloseInfo
    \/ \E f \in panel.rows : SwipeRow(f) \/ TapRow(f)
    \/ \E f \in pins : TapPin(f)

System ==
    \/ LocationUpdate \/ RunBlock
    \/ \E r \in requests : Answer(r)
    \/ \E xs \in SUBSET Items : AnswerList(xs)
    \/ \E q \in routes : AnswerRoute(q) \/ FailRoute(q)

Next == crashed = "no" /\ (User \/ System)

Spec == Init /\ [][Next]_vars

\* The main queue runs its blocks, and MapKit calls every search back.
RunsBlocks == crashed = "no" /\ RunBlock
AnswersSearch(r) == crashed = "no" /\ r \in requests /\ Answer(r)

FairSpec == /\ Spec
            /\ WF_vars(RunsBlocks)
            /\ \A r \in Request : WF_vars(AnswersSearch(r))
-----------------------------------------------------------------------------
\* No answer leaves the group when no search is in it: an unbalanced leave
\* would trap.
GroupNeverUnderflows == crashed # "group"

\* Why: while the answer that leaves the group is awaited, or the block that
\* will ask for it is queued, the group is entered; and no search is asked
\* twice, so that this answer comes once.
Queued(s) == \E i \in 1..Len(queue) :
                queue[i].kind = "start" /\ queue[i].search = s

GroupCounted ==
    /\ last.search <= cur
    /\ \A r \in requests : r.search <= cur /\ ~Queued(r.search)
    /\ \A i, j \in 1..Len(queue) :
          queue[i].kind = "start" /\ queue[j].kind = "start"
             /\ queue[i].search = queue[j].search => i = j
    /\ \A s \in 1..MaxSearches : Queued(s) => s <= cur
    /\ last \in requests \/ Queued(last.search) => group > 0

\* The group stays entered, so that no notify block runs any more, only after
\* a search failed or began before an older one was over.
StuckOnlyAfterLoss ==
    group > 0 /\ requests = {} /\ queue = <<>> => overlap \/ failed

\* One search at a time: the panel lists what the search of its title found,
\* no place twice, and every row has its pin on the map.
OneAtATime ==
    ~overlap /\ panel.open =>
       /\ \A f \in panel.rows : f.search = panel.title
       /\ \A f, g \in panel.rows : f.item = g.item => f = g
       /\ ItemsOf(panel.rows) \subseteq ItemsOf(pins)

\* Pin taps are off (tableViewSelect) only while the route to a row is
\* awaited, or after one failed or trapped.
SelectMeansRoute ==
    select => failed \/ crashed # "no" \/ \E q \in routes : q.row

\* A search, local or along the path, ends in the panel, unless it fails or
\* overlaps with another or the app traps.
SearchOpensPanel ==
    (group > 0 \/ \E r \in requests : r.at = 0)
       ~> (panel.open \/ overlap \/ failed \/ crashed # "no")
=============================================================================
