----------------------------- MODULE SavedPlaces -----------------------------
(***************************************************************************)
(* The screens that show and edit a signed-in user's saved places, over    *)
(* the two collections of PlaceStore: SavedController, ListMapController   *)
(* with its ListDetailController panel, PlaceDetailController,             *)
(* SavePlaceView and EditListController.                                   *)
(*                                                                         *)
(* Everything runs on the main queue, so a handler is one step.  What      *)
(* interleaves with the handlers are the completions: a getDocuments is    *)
(* asked, answered with what the collections hold at that moment, and      *)
(* delivered later; and the two removals that first query which documents  *)
(* to change ("purges" here) write only when their answer is delivered.    *)
(*                                                                         *)
(* Nothing in the code keeps titles apart: two lists may have one title,   *)
(* and a place may name a title twice.                                     *)
(*                                                                         *)
(* The list panel of MapController and the default lists of an account     *)
(* that has none are not here.                                             *)
(***************************************************************************)
EXTENDS PlaceStore

CONSTANTS
    InitHistory, InitLists, \* what the account holds when the app starts
    LateReads,              \* kinds of read a write may overtake
    FailingReads,           \* kinds of read that may fail
    MaxPurges,              \* bound on purges in flight
    MaxEdits                \* bound on the user's edits

ASSUME AccountAssumption ==
    /\ InitHistory \subseteq HistoryDoc
    /\ InitLists \subseteq ListDoc
    /\ DefaultTitles \subseteq TitlesOf(InitLists)
    /\ \A o1, o2 \in InitHistory : o1.doc = o2.doc => o1 = o2
    /\ \A l1, l2 \in InitLists : l1.lid = l2.lid => l1 = l2

ASSUME ReadAssumption == "lists" \notin FailingReads

VARIABLES
    history, lists,   \* the two collections
    base,             \* "map", or "saved" once SavedController is pushed
    screen,           \* the screen on top of it
    saved,            \* SavedController: lists, doubled, places, empty, seeAll
    detail,           \* ListMapController: list, matchingPlaces, panel rows
    current,          \* PlaceDetailController.currentPlace
    save,             \* SavePlaceView: place, already, lists, doubled, ids
    edit,             \* EditListController: list, places
    reads,            \* reads asked by screens that are still there
    listPurges,       \* removeListFromAllPlaces calls in flight
    placePurges,      \* removePlaceFromAllList calls in flight
    acks,             \* completions of addNewList to come
    lost,             \* a purge was dropped: its query failed or the app died
    crashed,          \* how the app trapped, or "no"
    edits             \* how many edits the user has made

stores == <<history, lists>>
views == <<saved, detail, current, save, edit>>
purges == <<listPurges, placePurges>>
vars == <<history, lists, base, screen, saved, detail, current, save, edit,
          reads, listPurges, placePurges, acks, lost, crashed, edits>>

Blank == Unsaved(NoPlace)
BlankList == [lid |-> NoKey, title |-> NoTitle, places |-> {}]
NoSaved == [lists |-> {}, doubled |-> {}, places |-> {}, empty |-> FALSE,
            seeAll |-> TRUE]
NoDetail == [open |-> FALSE, list |-> BlankList, rows |-> {}, pins |-> {}]
NoSave == [place |-> Blank, already |-> FALSE, lists |-> {}, doubled |-> {},
           ids |-> {}]
NoEdit == [list |-> BlankList, places |-> {}]

SavedReads == {"lists", "history"}
SaveReads == {"saveLists", "saveIds"}
ReadKinds == SavedReads \cup SaveReads \cup {"address"}

Read == [kind : ReadKinds, answered : BOOLEAN,
         docs : SUBSET HistoryDoc, lists : SUBSET ListDoc]
ListPurge == [title : Titles, own : BOOLEAN, answered : BOOLEAN,
              docs : SUBSET HistoryDoc]
PlacePurge == [id : PlaceIds, titles : SUBSET Titles, answered : BOOLEAN,
               lids : SUBSET ListIds]
AnyList == ListDoc \cup {BlankList}

TypeOK ==
    /\ history \subseteq HistoryDoc
    /\ lists \subseteq ListDoc
    /\ base \in {"map", "saved"}
    /\ screen \in {"base", "detail", "place", "save", "edit"}
    /\ saved \in [lists : SUBSET ListDoc, doubled : SUBSET ListDoc,
                  places : SUBSET HistoryDoc, empty : BOOLEAN, seeAll : BOOLEAN]
    /\ detail \in [open : BOOLEAN, list : AnyList, rows : SUBSET HistoryDoc,
                   pins : SUBSET HistoryDoc]
    /\ current \in Object
    /\ save \in [place : Object, already : BOOLEAN, lists : SUBSET ListDoc,
                 doubled : SUBSET ListDoc, ids : SUBSET PlaceIds]
    /\ edit \in [list : AnyList, places : SUBSET HistoryDoc]
    /\ reads \subseteq Read
    /\ listPurges \subseteq ListPurge
    /\ placePurges \subseteq PlacePurge
    /\ acks \subseteq [screen : {"saved", "save"}, list : ListDoc]
    /\ lost \in BOOLEAN
    /\ crashed \in {"no", "unwrap", "cell", "query", "items"}
    /\ edits \in Nat

-----------------------------------------------------------------------------
(* Keys.  addDocument never gives the same key twice; here a key can be    *)
(* given again once nothing refers to it.                                  *)

KeptDocs ==
    history \cup saved.places \cup detail.pins \cup edit.places
    \cup {current, save.place}
    \cup UNION {r.docs : r \in reads} \cup UNION {u.docs : u \in listPurges}

ReadLists == UNION {r.lists : r \in reads}
AckedLists == {a.list : a \in acks}

KeptLids ==
    LidsOf(lists \cup saved.lists \cup save.lists \cup {detail.list, edit.list}
           \cup ReadLists \cup AckedLists)
    \cup UNION {u.lids : u \in placePurges}

NewDocs == DocIds \ DocsOf(KeptDocs)
NewLids == ListIds \ KeptLids

-----------------------------------------------------------------------------
(* Reads of the screens *)

Ask(kinds) ==
    {[kind |-> k, answered |-> FALSE, docs |-> {}, lists |-> {}] : k \in kinds}

ReadsOf(kinds) == {r \in reads : r.kind \in kinds}

\* What the query finds now.
DocsNow(kind) == CASE kind \in {"history", "saveIds"} -> history
                   [] kind = "address" -> PlacesAt(history, current.place)
                   [] OTHER -> {}

ListsNow(kind) == IF kind \in {"lists", "saveLists"} THEN lists ELSE {}

\* A read is delivered with its answer; the answer of a read in LateReads
\* can be taken earlier than it is delivered.
DocsOfRead(r) == IF r.answered THEN r.docs ELSE DocsNow(r.kind)
ListsOfRead(r) == IF r.answered THEN r.lists ELSE ListsNow(r.kind)

AnswerRead(r) ==
    /\ ~r.answered /\ r.kind \in LateReads
    /\ reads' = (reads \ {r})
                \cup {[r EXCEPT !.answered = TRUE, !.docs = DocsNow(r.kind),
                                !.lists = ListsNow(r.kind)]}
    /\ UNCHANGED <<stores, base, screen, views, purges, acks, lost, crashed>>

\* A read that fails completes with an empty array, except that a failed
\* read of the lists leaves SavePlaceView's lists as they are.
FailRead(r) ==
    /\ ~r.answered /\ r.kind \in FailingReads
    /\ reads' = (reads \ {r}) \cup {[r EXCEPT !.answered = TRUE]}
    /\ UNCHANGED <<stores, base, screen, views, purges, acks, lost, crashed>>

\* A visible cell shows place.list[0].
CellTrap(sv) == ~sv.empty /\ \E o \in sv.places : o.list = {}

TrapAfter(sv) == IF CellTrap(sv) THEN "cell" ELSE "no"

DeliverLists(r) ==
    /\ r.kind = "lists"
    /\ ListsOfRead(r) # {}
    /\ saved' = [saved EXCEPT !.lists = ListsOfRead(r), !.doubled = {}]
    /\ reads' = reads \ {r}
    /\ UNCHANGED <<stores, base, screen, detail, current, save, edit, purges,
                   acks, lost, crashed>>

\* An empty history keeps the places that were shown; neither empty nor the
\* hidden See All button is ever reset.
ShowHistory(sv, docs) ==
    [sv EXCEPT !.places = IF docs = {} THEN @ ELSE docs,
               !.empty = @ \/ docs = {},
               !.seeAll = @ /\ Cardinality(docs) > 1]

DeliverHistory(r) ==
    /\ r.kind = "history"
    /\ saved' = ShowHistory(saved, DocsOfRead(r))
    /\ reads' = reads \ {r}
    /\ crashed' = IF screen = "base" THEN TrapAfter(saved') ELSE "no"
    /\ UNCHANGED <<stores, base, screen, detail, current, save, edit, purges,
                   acks, lost>>

DeliverSaveLists(r) ==
    /\ r.kind = "saveLists"
    /\ save' = IF ListsOfRead(r) = {} THEN save
               ELSE [save EXCEPT !.lists = ListsOfRead(r), !.doubled = {}]
    /\ reads' = reads \ {r}
    /\ UNCHANGED <<stores, base, screen, saved, detail, current, edit, purges,
                   acks, lost, crashed>>

DeliverSaveIds(r) ==
    /\ r.kind = "saveIds"
    /\ save' = [save EXCEPT !.ids = IdsOf(DocsOfRead(r))]
    /\ reads' = reads \ {r}
    /\ UNCHANGED <<stores, base, screen, saved, detail, current, edit, purges,
                   acks, lost, crashed>>

\* getPlaceByAddress takes one of the documents that match.
DeliverAddress(r) ==
    /\ r.kind = "address"
    /\ IF DocsOfRead(r) = {} THEN UNCHANGED current
                           ELSE current' \in DocsOfRead(r)
    /\ reads' = reads \ {r}
    /\ UNCHANGED <<stores, base, screen, saved, detail, save, edit, purges,
                   acks, lost, crashed>>

-----------------------------------------------------------------------------
(* SavedController *)

OpenSaved ==
    /\ base = "map" /\ screen = "base"
    /\ base' = "saved"
    /\ reads' = reads \cup Ask(SavedReads)
    /\ UNCHANGED <<stores, screen, views, purges, acks, lost, crashed>>

CloseSaved ==
    /\ base = "saved" /\ screen = "base"
    /\ base' = "map"
    /\ saved' = NoSaved
    /\ reads' = {}
    /\ acks' = {}
    /\ listPurges' = {[u EXCEPT !.own = FALSE] : u \in listPurges}
    /\ UNCHANGED <<stores, screen, detail, current, save, edit, placePurges,
                   lost, crashed>>

\* viewWillAppear after a pushed screen is popped: the old cells show first.
BackToSaved ==
    /\ screen' = "base"
    /\ reads' = reads \cup Ask(SavedReads)
    /\ crashed' = TrapAfter(saved')

\* A row goes; of a list in two rows, the other stays.
DeleteList(l) ==
    /\ base = "saved" /\ screen = "base"
    /\ l \in saved.lists /\ l.title \notin DefaultTitles
    /\ Cardinality(listPurges) < MaxPurges
    /\ listPurges' = listPurges \cup {[title |-> l.title, own |-> TRUE,
                                       answered |-> FALSE, docs |-> {}]}
    /\ lists' = DeleteListDoc(lists, l.lid)
    /\ saved' = [saved EXCEPT !.lists = IF l \in saved.doubled THEN @ ELSE @ \ {l},
                             !.doubled = @ \ {l}]
    /\ UNCHANGED <<history, base, screen, detail, current, save, edit, reads,
                   placePurges, acks, lost, crashed>>

\* NewListTapped of SavedController and tappedNewList of SavePlaceView: any
\* title will do, that of another list too.
NewList(lid, t) ==
    LET new == [lid |-> lid, title |-> t, places |-> {}]
    IN  /\ screen = "save" \/ (base = "saved" /\ screen = "base")
        /\ lid \in NewLids
        /\ lists' = AddNewList(lists, lid, t)
        /\ acks' = acks \cup
               {[screen |-> IF screen = "save" THEN "save" ELSE "saved",
                 list |-> new]}
        /\ UNCHANGED <<history, base, screen, views, reads, purges, lost,
                       crashed>>

\* The list is appended, although a read may have brought it already.
DeliverAck(a) ==
    /\ acks' = acks \ {a}
    /\ IF a.screen = "saved"
       THEN /\ saved' = [saved EXCEPT !.lists = @ \cup {a.list},
                                     !.doubled = @ \cup ({a.list} \cap saved.lists)]
            /\ UNCHANGED save
       ELSE /\ save' = [save EXCEPT !.lists = @ \cup {a.list},
                                   !.doubled = @ \cup ({a.list} \cap save.lists)]
            /\ UNCHANGED saved
    /\ UNCHANGED <<stores, base, screen, detail, current, edit, reads, purges,
                   lost, crashed>>

PlacesOf(l) == {o \in saved.places : o.id \in l.places}

OpenDetail(l) ==
    /\ base = "saved" /\ screen = "base" /\ l \in saved.lists
    /\ screen' = "detail"
    /\ detail' = [open |-> TRUE, list |-> l, rows |-> PlacesOf(l),
                  pins |-> PlacesOf(l)]
    /\ UNCHANGED <<stores, base, saved, current, save, edit, reads, purges,
                   acks, lost, crashed>>

\* See All: the list "Recently Saved" has the id "".
OpenRecent ==
    /\ base = "saved" /\ screen = "base" /\ saved.seeAll
    /\ screen' = "detail"
    /\ detail' = [open |-> TRUE, list |-> BlankList, rows |-> saved.places,
                  pins |-> saved.places]
    /\ UNCHANGED <<stores, base, saved, current, save, edit, reads, purges,
                   acks, lost, crashed>>

-----------------------------------------------------------------------------
(* ListDetailController: swipe to delete, on a list or on Recently Saved *)

RemoveFromList(o) ==
    /\ screen = "detail" /\ o \in detail.rows /\ detail.list.lid # NoKey
    /\ detail' = [detail EXCEPT !.rows = @ \ {o}]
    /\ lists' = RemovePlacesFromLists(lists, {detail.list.lid}, {o.id})
    /\ history' = IF InOneList(o)
                  THEN DeletePlace(history, o.doc)
                  ELSE RemoveListInPlaces(history, {o.doc}, detail.list.title)
    /\ UNCHANGED <<base, screen, saved, current, save, edit, reads, purges,
                   acks, lost, crashed>>

\* The query "title in place.list" traps when the array is empty.
DeleteEverywhere(o) ==
    /\ screen = "detail" /\ o \in detail.rows /\ detail.list.lid = NoKey
    /\ detail' = [detail EXCEPT !.rows = @ \ {o}]
    /\ IF o.list = {}
       THEN /\ crashed' = "query"
            /\ UNCHANGED <<history, placePurges>>
       ELSE /\ Cardinality(placePurges) < MaxPurges
            /\ placePurges' = placePurges \cup
                  {[id |-> o.id, titles |-> o.list, answered |-> FALSE,
                    lids |-> {}]}
            /\ history' = DeletePlace(history, o.doc)
            /\ UNCHANGED crashed
    /\ UNCHANGED <<lists, base, screen, saved, current, save, edit, reads,
                   listPurges, acks, lost>>

CloseDetail ==
    /\ screen = "detail"
    /\ detail' = NoDetail
    /\ UNCHANGED saved
    /\ BackToSaved
    /\ UNCHANGED <<stores, base, current, save, edit, purges, acks, lost>>

-----------------------------------------------------------------------------
(* PlaceDetailController *)

Openable == CASE screen = "detail" -> detail.pins
              [] screen = "base" /\ base = "saved" /\ ~saved.empty -> saved.places
              [] screen = "base" /\ base = "map" -> {Unsaved(p) : p \in Places}
              [] OTHER -> {}

\* A pin of the map, a cell of SavedController, or a search result.  A pin
\* stays on the map when its row is deleted.
OpenPlace(o) ==
    /\ o \in Openable
    /\ screen' = "place"
    /\ current' = o
    /\ reads' = reads \cup IF o.doc = NoKey THEN Ask({"address"}) ELSE {}
    /\ UNCHANGED <<stores, base, saved, detail, save, edit, purges, acks, lost,
                   crashed>>

ClosePlace ==
    /\ screen = "place"
    /\ current' = Blank
    /\ UNCHANGED saved
    /\ IF detail.open \/ base = "map"
       THEN /\ screen' = IF detail.open THEN "detail" ELSE "base"
            /\ reads' = reads \ ReadsOf({"address"})
            /\ UNCHANGED crashed
       ELSE BackToSaved
    /\ UNCHANGED <<stores, base, detail, save, edit, purges, acks, lost>>

\* alreadySavedPlace: the copy names a list.
MutantAlreadySaved(o) == o.place # NoPlace
AlreadySaved(o) == o.list # {}

TapSave ==
    /\ screen = "place"
    /\ screen' = "save"
    /\ save' = [NoSave EXCEPT !.place = current, !.already = AlreadySaved(current)]
    /\ reads' = reads \cup Ask(SaveReads)
    /\ UNCHANGED <<stores, base, saved, detail, current, edit, purges, acks,
                   lost, crashed>>

-----------------------------------------------------------------------------
(* SavePlaceView.  S is the set of checked rows when Done is tapped. *)

BackToPlace ==
    /\ screen' = "place"
    /\ save' = NoSave
    /\ reads' = reads \ ReadsOf(SaveReads)
    /\ acks' = {a \in acks : a.screen # "save"}

CancelSave ==
    /\ screen = "save"
    /\ BackToPlace
    /\ UNCHANGED <<stores, base, saved, detail, current, edit, purges, lost,
                   crashed>>

\* The checked lists that place.list does not name get the id.
Checked(S, i) ==
    AddNewPlaceToLists(lists, LidsOf({l \in S : l.title \notin save.place.list}),
                       i)

\* The titles written twice: D are the checked rows that are checked twice.
Doubles(S, D) ==
    TitlesOf(D) \cup {l.title : l \in {k \in S : k.title \in TitlesOf(S \ {k})}}

SaveNew(S, D, d) ==
    LET i == NextId(save.ids)
    IN  /\ screen = "save" /\ ~save.already
        /\ S \subseteq save.lists /\ S # {}
        /\ D \subseteq S \cap save.doubled
        /\ d \in NewDocs /\ i \in PlaceIds
        /\ lists' = Checked(S, i)
        /\ history' = AddPlaceToHistory(history, d, save.place.place, i,
                                        TitlesOf(S), Doubles(S, D))
        /\ BackToPlace
        /\ UNCHANGED <<base, saved, detail, current, edit, purges, lost,
                       crashed>>

Unchecked(S) == save.place.list \ TitlesOf(S)

\* A row of a title of the place is checked again each time its cell is shown.
CheckedTwice(S) ==
    S \cap (save.doubled \cup {l \in S : l.title \in save.place.list})

Resave(S, D) ==
    IF S = {} THEN DeletePlace(history, save.place.doc)
    ELSE UpdatePlace(history, save.place, TitlesOf(S), Doubles(S, D))

\* lists.first(where: title), for each title in ts.
FirstRows(ts) ==
    {L \in SUBSET save.lists :
       /\ TitlesOf(L) = ts
       /\ \A l1, l2 \in L : l1.title = l2.title => l1 = l2}

\* removePlaceFromList, on the rows L.
Uncheck(ls, L) == RemovePlacesFromLists(ls, LidsOf(L), {save.place.id})

SaveAgain(S, D) ==
    /\ screen = "save" /\ save.already
    /\ S \subseteq save.lists /\ D \subseteq CheckedTwice(S)
    /\ Unchecked(S) \subseteq TitlesOf(save.lists)
    /\ history' = Resave(S, D)
    /\ \E L \in FirstRows(Unchecked(S)) :
          lists' = Uncheck(Checked(S, save.place.id), L)
    /\ BackToPlace
    /\ UNCHANGED <<base, saved, detail, current, edit, purges, lost, crashed>>

\* A title of the place that no loaded row has: listId! is nil.  The writes
\* issued before the trap, ts being the titles already gone through, stand.
SaveTraps(S, D, ts) ==
    /\ screen = "save" /\ save.already
    /\ S \subseteq save.lists /\ D \subseteq CheckedTwice(S)
    /\ ~ Unchecked(S) \subseteq TitlesOf(save.lists)
    /\ ts \subseteq Unchecked(S) \cap TitlesOf(save.lists)
    /\ history' = Resave(S, D)
    /\ \E L \in FirstRows(ts) : lists' = Uncheck(Checked(S, save.place.id), L)
    /\ crashed' = "unwrap"
    /\ UNCHANGED <<base, screen, views, reads, purges, acks, lost>>

-----------------------------------------------------------------------------
(* EditListController.  R is what the user removed, t the title left in    *)
(* the field, which is disabled for a default list.                        *)

OpenEdit(l) ==
    /\ base = "saved" /\ screen = "base" /\ l \in saved.lists
    /\ screen' = "edit"
    /\ edit' = [list |-> l, places |-> PlacesOf(l)]
    /\ UNCHANGED <<stores, base, saved, detail, current, save, reads, purges,
                   acks, lost, crashed>>

MutantTitleAllowed(t) == t \in Titles

TitleAllowed(t) == t = edit.list.title \/ edit.list.title \notin DefaultTitles

\* SavedController shares the retitled objects until it reads them again.
EditDone(R, t) ==
    LET old == edit.list.title
        kept == edit.places \ R
        removed == RemoveListFromSelectedPlaces(history, R, old)
        emptied == RemovePlacesFromLists(lists, {edit.list.lid}, IdsOf(R))
    IN  /\ screen = "edit" /\ R \subseteq edit.places /\ TitleAllowed(t)
        /\ IF t = old
           THEN /\ history' = removed
                /\ lists' = emptied
                /\ UNCHANGED saved
           ELSE \E M \in SUBSET {o \in kept : old \in o.twice} :
                /\ history' = UpdateTitleInPlaces(removed, kept, old, t, M)
                /\ lists' = UpdateListTitle(emptied, edit.list.lid, t)
                /\ saved' = [saved EXCEPT !.places =
                      {IF o \in kept THEN Retitled(o, old, t, M) ELSE o : o \in @}]
        /\ edit' = NoEdit
        /\ BackToSaved
        /\ UNCHANGED <<base, detail, current, save, purges, acks, lost>>

CancelEdit ==
    /\ screen = "edit"
    /\ edit' = NoEdit
    /\ UNCHANGED saved
    /\ BackToSaved
    /\ UNCHANGED <<stores, base, detail, current, save, purges, acks, lost>>

-----------------------------------------------------------------------------
(* The two purges *)

AnswerListPurge(u) ==
    /\ ~u.answered
    /\ listPurges' = (listPurges \ {u}) \cup
          {[u EXCEPT !.answered = TRUE, !.docs = PlacesInList(history, u.title)]}
    /\ UNCHANGED <<stores, base, screen, views, reads, placePurges, acks, lost,
                   crashed>>

\* places.firstIndex(where: id): one of the places with the id goes.
DropById(os, ids) ==
    {P \in SUBSET os :
       /\ IdsOf(os \ P) = ids \cap IdsOf(os)
       /\ \A o1, o2 \in os \ P : o1.id = o2.id => o1 = o2}

Gone(u) == {o \in u.docs : InOneList(o)}

\* Those of them the completion finds in SavedController.
Dropped(u) == {o \in Gone(u) : u.own /\ o.id \in IdsOf(saved.places)}

DeliverListPurge(u) ==
    /\ u.answered
    /\ saved.empty => Dropped(u) = {}
    /\ listPurges' = listPurges \ {u}
    /\ history' = RemoveListFromSelectedPlaces(history, u.docs, u.title)
    /\ \E P \in DropById(saved.places, IdsOf(Dropped(u))) :
          saved' = [saved EXCEPT !.places = P]
    /\ UNCHANGED <<lists, base, screen, detail, current, save, edit, reads,
                   placePurges, acks, lost, crashed>>

\* deleteItems traps while the one cell of an empty history is shown.  The
\* writes for the documents gone through, and for this one, stand.
PurgeTraps(u) ==
    /\ u.answered /\ saved.empty
    /\ \E o \in Dropped(u), before \in SUBSET (u.docs \ Dropped(u)) :
          history' = RemoveListFromSelectedPlaces(history, before \cup {o}, u.title)
    /\ crashed' = "items"
    /\ UNCHANGED <<lists, base, screen, views, reads, purges, acks, lost>>

AnswerPlacePurge(u) ==
    /\ ~u.answered
    /\ placePurges' = (placePurges \ {u}) \cup
          {[u EXCEPT !.answered = TRUE, !.lids = ListsTitled(lists, u.titles)]}
    /\ UNCHANGED <<stores, base, screen, views, reads, listPurges, acks, lost,
                   crashed>>

DeliverPlacePurge(u) ==
    /\ u.answered
    /\ placePurges' = placePurges \ {u}
    /\ lists' = RemovePlacesFromLists(lists, u.lids, {u.id})
    /\ UNCHANGED <<history, base, screen, views, reads, listPurges, acks, lost,
                   crashed>>

\* The query failed: it is printed and forgotten.
FailPurge ==
    /\ \/ \E u \in listPurges : /\ ~u.answered
                                /\ listPurges' = listPurges \ {u}
                                /\ UNCHANGED placePurges
       \/ \E u \in placePurges : /\ ~u.answered
                                 /\ placePurges' = placePurges \ {u}
                                 /\ UNCHANGED listPurges
    /\ lost' = TRUE
    /\ UNCHANGED <<stores, base, screen, views, reads, acks, crashed>>

\* The app is killed, or trapped, and started again: writes persist, screens
\* and completions do not.
Relaunch ==
    /\ base' = "map" /\ screen' = "base"
    /\ saved' = NoSaved /\ detail' = NoDetail /\ current' = Blank
    /\ save' = NoSave /\ edit' = NoEdit
    /\ reads' = {} /\ acks' = {}
    /\ listPurges' = {} /\ placePurges' = {}
    /\ lost' = (lost \/ listPurges # {} \/ placePurges # {})
    /\ crashed' = "no"
    /\ UNCHANGED stores

-----------------------------------------------------------------------------

Init ==
    /\ history = InitHistory /\ lists = InitLists
    /\ base = "map" /\ screen = "base"
    /\ saved = NoSaved /\ detail = NoDetail /\ current = Blank
    /\ save = NoSave /\ edit = NoEdit
    /\ reads = {} /\ acks = {}
    /\ listPurges = {} /\ placePurges = {}
    /\ lost = FALSE
    /\ crashed = "no"
    /\ edits = 0

\* What only moves between the screens.
Look ==
    \/ OpenSaved \/ CloseSaved \/ OpenRecent \/ CloseDetail
    \/ ClosePlace \/ TapSave \/ CancelSave \/ CancelEdit
    \/ \E l \in saved.lists : OpenDetail(l) \/ OpenEdit(l)
    \/ \E o \in Openable : OpenPlace(o)

\* What writes to the collections.
Edit ==
    \/ \E l \in saved.lists : DeleteList(l)
    \/ \E lid \in ListIds, t \in Titles : NewList(lid, t)
    \/ \E o \in detail.rows : RemoveFromList(o) \/ DeleteEverywhere(o)
    \/ \E S \in SUBSET save.lists : \E D \in SUBSET S :
          \/ SaveAgain(S, D)
          \/ \E d \in DocIds : SaveNew(S, D, d)
          \/ \E ts \in SUBSET Unchecked(S) : SaveTraps(S, D, ts)
    \/ \E R \in SUBSET edit.places, t \in Titles : EditDone(R, t)

DeliverRead(r) ==
    \/ DeliverLists(r) \/ DeliverHistory(r) \/ DeliverSaveLists(r)
    \/ DeliverSaveIds(r) \/ DeliverAddress(r)

PurgeStep ==
    \/ \E u \in listPurges : AnswerListPurge(u) \/ DeliverListPurge(u) \/ PurgeTraps(u)
    \/ \E u \in placePurges : AnswerPlacePurge(u) \/ DeliverPlacePurge(u)

Client ==
    \/ \E r \in reads : AnswerRead(r) \/ FailRead(r) \/ DeliverRead(r)
    \/ \E a \in acks : DeliverAck(a)
    \/ PurgeStep
    \/ FailPurge

Next ==
    \/ crashed = "no" /\ Edit /\ edits < MaxEdits /\ edits' = edits + 1
    \/ crashed = "no" /\ (Look \/ Client) /\ UNCHANGED edits
    \/ Relaunch /\ UNCHANGED edits

Spec == Init /\ [][Next]_vars

\* Firestore calls every query back, from the server or from its cache.
PurgeOf(t) ==
    /\ crashed = "no"
    /\ \E u \in listPurges :
          u.title = t /\ (AnswerListPurge(u) \/ DeliverListPurge(u) \/ PurgeTraps(u))
    /\ UNCHANGED edits

FairSpec == Spec /\ \A t \in Titles : WF_vars(PurgeOf(t))
-----------------------------------------------------------------------------
(* The two collections hold one relation.  What a purge in flight is still *)
(* to remove is not counted against them.                                  *)

BeingPurged(o, t) ==
    \E u \in listPurges : u.title = t /\ (u.answered => o.doc \in DocsOf(u.docs))

BeingTakenOut(l, i) ==
    \E u \in placePurges :
       u.id = i /\ IF u.answered THEN l.lid \in u.lids ELSE l.title \in u.titles

TitlesBacked ==
    \A o \in history : \A t \in o.list :
       BeingPurged(o, t) \/ \E l \in lists : l.title = t /\ o.id \in l.places

IdsBacked ==
    \A l \in lists : \A i \in l.places :
       BeingTakenOut(l, i) \/ \E o \in history : o.id = i /\ l.title \in o.list

UniqueIds == \A o1, o2 \in history : o1.id = o2.id => o1 = o2

OneDocPerPlace == \A o1, o2 \in history : o1.place = o2.place => o1 = o2

NoOrphan == \A o \in history : o.list # {}

Intact == TitlesBacked /\ IdsBacked /\ UniqueIds /\ OneDocPerPlace /\ NoOrphan

\* What the screen on top and the purges in flight hold agrees with the
\* collections.
Heads(ls) == {<<l.lid, l.title>> : l \in ls}

FreshScreen ==
    CASE screen = "base" -> Heads(saved.lists) \subseteq Heads(lists)
      [] screen = "detail" ->
           IF detail.list = BlankList THEN detail.rows \subseteq history
           ELSE /\ Heads({detail.list}) \subseteq Heads(lists)
                /\ detail.rows \subseteq PlacesInList(history, detail.list.title)
      [] screen = "save" -> /\ Heads(save.lists) = Heads(lists)
                            /\ save.place.list \subseteq TitlesOf(lists)
                            /\ save.ids = IdsOf(history)
                            /\ \/ save.place \in history
                               \/ /\ save.place.doc = NoKey
                                  /\ PlacesAt(history, save.place.place) = {}
      [] screen = "edit" -> /\ Heads({edit.list}) \subseteq Heads(lists)
                            /\ edit.places
                                  = PlacesInList(history, edit.list.title)
                            /\ \A u \in placePurges :
                                  edit.list.title \in u.titles => u.answered
      [] OTHER -> TRUE

\* No place that SavedController shows, or is about to show, is in no list,
\* and it does not take the history for empty after it has read one.
FreshCells ==
    /\ \A o \in saved.places \cup UNION {r.docs : r \in reads} : o.list # {}
    /\ saved.empty => saved.places = {}

FreshPurges ==
    /\ \A u \in listPurges :
          /\ u.title \notin TitlesOf(lists)
          /\ u.answered => u.docs = PlacesInList(history, u.title)
    /\ \A u \in placePurges : u.id \notin IdsOf(history)

\* setData and delete always get the key of a document: a copy that names a
\* list was read from one, and alreadySavedPlace (PlaceDetailView.swift:151)
\* is only true of such a copy, whenever getPlaceByAddress answers.
CopiesKnowTheirDoc ==
    /\ current.list # {} => current.doc \in DocIds
    /\ save.already => save.place.doc \in DocIds

\* What nothing keeps: no two lists have one title, and no document names a
\* title twice.  Without it removeListFromAllPlaces leaves a document with no
\* title, for it counts two and arrayRemove takes both.
TitlesApart ==
    /\ \A l1, l2 \in lists : l1.title = l2.title => l1.lid = l2.lid
    /\ \A o \in history : o.twice = {}

\* When the screen, the cells below it and the purges are fresh and the titles
\* are apart, no handler and no completion breaks the relation between history
\* and lists, the ids or the documents, and none traps on listId!,
\* place.list[0], deleteItems or an empty query: each of these needs stale
\* data, a lost purge, or a title given twice, in a step before.
FreshStepsStayIntact ==
    [][Intact /\ TitlesApart /\ FreshScreen /\ FreshCells /\ FreshPurges /\ ~lost'
          => Intact' /\ crashed' \in {"no", crashed}]_vars

\* The default lists the account came with.
DefaultHeads == {h \in Heads(InitLists) : h[2] \in DefaultTitles}

\* They are never deleted or retitled (didTapEdit offers no Delete,
\* EditListController disables the field), however old the screen's copy of
\* the lists is.  Of a list that was given a default title later this is not
\* so: a copy may still have its old one.
DefaultListsSurvive == DefaultHeads \subseteq Heads(lists)

\* Why: no copy of the lists, however old or still in flight, calls one of
\* them by another title.
ListCopies ==
    lists \cup saved.lists \cup {edit.list} \cup ReadLists \cup AckedLists

DefaultsKnown ==
    \A l \in ListCopies, h \in DefaultHeads : l.lid = h[1] => l.title = h[2]

\* Done knows the ids in use when it allocates one, and writes no document
\* whose id another document has by now.
KnowsIds ==
    CASE screen = "save" /\ save.already ->
           \A o \in history : o.id = save.place.id => o.doc = save.place.doc
      [] screen = "save" /\ ~save.already -> IdsOf(history) \subseteq save.ids
      [] screen = "edit" ->
           \A o \in edit.places, h \in history \cup edit.places :
              o.id = h.id => o.doc = h.doc
      [] OTHER -> TRUE

\* And it knows the document the place has.
KnowsDoc ==
    CASE screen = "save" ->
           DocsOf(PlacesAt(history, save.place.place))
              \subseteq IF save.already THEN {save.place.doc} ELSE {}
      [] screen = "edit" ->
           \A o \in edit.places, h \in history \cup edit.places :
              o.place = h.place => o.doc = h.doc
      [] OTHER -> TRUE

\* Two places come to share an id only by a Done that does not know the ids
\* (tapped before getAllPlacesIds answered, or on a deleted copy), and a place
\* gets a second document only by a Done that does not know the one it has: on
\* a copy opened before getPlaceByAddress answered, on a copy of a deleted
\* document, or on a place that is in no list and so looks unsaved.
DoubledOnlyUnknown ==
    [][/\ UniqueIds /\ KnowsIds => UniqueIds'
       /\ OneDocPerPlace /\ KnowsDoc => OneDocPerPlace']_vars

=============================================================================
