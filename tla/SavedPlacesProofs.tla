-------------------------- MODULE SavedPlacesProofs --------------------------
(***************************************************************************)
(* Proofs about SavedPlaces, for every account and every bound.            *)
(***************************************************************************)
EXTENDS SavedPlaces, NaturalsInduction, WellFoundedInduction, TLAPS

(* The operations of the store keep the types of the collections. *)

LEMMA DeletePlaceType ==
    ASSUME NEW h \in SUBSET HistoryDoc, NEW d
    PROVE  DeletePlace(h, d) \in SUBSET HistoryDoc
BY DEF DeletePlace

LEMMA UpdatePlaceType ==
    ASSUME NEW h \in SUBSET HistoryDoc, NEW o \in HistoryDoc,
           NEW ts \in SUBSET Titles, NEW dups \in SUBSET Titles
    PROVE  UpdatePlace(h, o, ts, dups) \in SUBSET HistoryDoc
BY DEF UpdatePlace, DeletePlace, HistoryDoc, Object

LEMMA AddPlaceType ==
    ASSUME NEW h \in SUBSET HistoryDoc, NEW d \in DocIds,
           NEW p \in Places \cup {NoPlace}, NEW i \in PlaceIds,
           NEW ts \in SUBSET Titles, NEW dups \in SUBSET Titles
    PROVE  AddPlaceToHistory(h, d, p, i, ts, dups) \in SUBSET HistoryDoc
BY DEF AddPlaceToHistory, HistoryDoc, Object

LEMMA RemoveListInPlacesType ==
    ASSUME NEW h \in SUBSET HistoryDoc, NEW ds, NEW t
    PROVE  RemoveListInPlaces(h, ds, t) \in SUBSET HistoryDoc
BY DEF RemoveListInPlaces, HistoryDoc, Object

LEMMA RemoveSelectedType ==
    ASSUME NEW h \in SUBSET HistoryDoc, NEW os, NEW t
    PROVE  RemoveListFromSelectedPlaces(h, os, t) \in SUBSET HistoryDoc
<1> DEFINE single == {o \in os : InOneList(o)}
           rest == {o \in h : o.doc \notin DocsOf(single)}
<1>1. rest \in SUBSET HistoryDoc
  OBVIOUS
<1>2. RemoveListInPlaces(rest, DocsOf(os \ single), t) \in SUBSET HistoryDoc
  BY <1>1, RemoveListInPlacesType
<1> QED
  BY <1>2 DEF RemoveListFromSelectedPlaces

LEMMA RetitledType ==
    ASSUME NEW o \in HistoryDoc, NEW old, NEW new \in Titles, NEW M
    PROVE  Retitled(o, old, new, M) \in HistoryDoc
<1> DEFINE ts == (IF old \in o.twice THEN o.list ELSE o.list \ {old}) \cup {new}
           dups == (IF o \in M THEN o.twice ELSE o.twice \ {old}) \cup ({new} \cap o.list)
<1>1. ts \in SUBSET Titles /\ dups \in SUBSET Titles
  BY DEF HistoryDoc, Object
<1>2. Retitled(o, old, new, M) \in {o, [o EXCEPT !.list = ts, !.twice = dups]}
  BY DEF Retitled, HistoryDoc, Object
<1> HIDE DEF ts, dups
<1> QED
  BY <1>1, <1>2 DEF HistoryDoc, Object

LEMMA UpdateTitleInPlacesType ==
    ASSUME NEW h \in SUBSET HistoryDoc, NEW os \in SUBSET HistoryDoc,
           NEW old, NEW new \in Titles, NEW M
    PROVE  UpdateTitleInPlaces(h, os, old, new, M) \in SUBSET HistoryDoc
BY RetitledType DEF UpdateTitleInPlaces

LEMMA AddNewListType ==
    ASSUME NEW ls \in SUBSET ListDoc, NEW lid \in ListIds, NEW t \in Titles
    PROVE  AddNewList(ls, lid, t) \in SUBSET ListDoc
BY DEF AddNewList, ListDoc

LEMMA DeleteListType ==
    ASSUME NEW ls \in SUBSET ListDoc, NEW lid
    PROVE  DeleteListDoc(ls, lid) \in SUBSET ListDoc
BY DEF DeleteListDoc

LEMMA UpdateListTitleType ==
    ASSUME NEW ls \in SUBSET ListDoc, NEW lid, NEW t \in Titles
    PROVE  UpdateListTitle(ls, lid, t) \in SUBSET ListDoc
BY DEF UpdateListTitle, ListDoc

LEMMA AddIdType ==
    ASSUME NEW ls \in SUBSET ListDoc, NEW lids, NEW i \in PlaceIds
    PROVE  AddNewPlaceToLists(ls, lids, i) \in SUBSET ListDoc
BY DEF AddNewPlaceToLists, ListDoc

LEMMA RemoveIdsType ==
    ASSUME NEW ls \in SUBSET ListDoc, NEW lids, NEW ids
    PROVE  RemovePlacesFromLists(ls, lids, ids) \in SUBSET ListDoc
BY DEF RemovePlacesFromLists, ListDoc

(* An addition or removal of place ids changes no key and no title. *)

LEMMA AddIdHeads ==
    ASSUME NEW ls \in SUBSET ListDoc, NEW lids, NEW i
    PROVE  Heads(AddNewPlaceToLists(ls, lids, i)) = Heads(ls)
<1> DEFINE f(l) == IF l.lid \in lids THEN [l EXCEPT !.places = @ \cup {i}] ELSE l
<1>1. \A l \in ls : f(l).lid = l.lid /\ f(l).title = l.title
  BY DEF ListDoc
<1>2. AddNewPlaceToLists(ls, lids, i) = {f(l) : l \in ls}
  BY DEF AddNewPlaceToLists
<1> HIDE DEF f
<1>3. Heads({f(l) : l \in ls}) = {<<f(l).lid, f(l).title>> : l \in ls}
  BY Zenon DEF Heads
<1> QED
  BY <1>1, <1>2, <1>3 DEF Heads

LEMMA RemoveIdsHeads ==
    ASSUME NEW ls \in SUBSET ListDoc, NEW lids, NEW ids
    PROVE  Heads(RemovePlacesFromLists(ls, lids, ids)) = Heads(ls)
<1> DEFINE f(l) == IF l.lid \in lids THEN [l EXCEPT !.places = @ \ ids] ELSE l
<1>1. \A l \in ls : f(l).lid = l.lid /\ f(l).title = l.title
  BY DEF ListDoc
<1>2. RemovePlacesFromLists(ls, lids, ids) = {f(l) : l \in ls}
  BY DEF RemovePlacesFromLists
<1> HIDE DEF f
<1>3. Heads({f(l) : l \in ls}) = {<<f(l).lid, f(l).title>> : l \in ls}
  BY Zenon DEF Heads
<1> QED
  BY <1>1, <1>2, <1>3 DEF Heads

-----------------------------------------------------------------------------
(* Type correctness *)

LEMMA AskType ==
    ASSUME NEW kinds \in SUBSET ReadKinds
    PROVE  Ask(kinds) \subseteq Read
<1> SUFFICES ASSUME NEW k \in kinds
             PROVE  [kind |-> k, answered |-> FALSE, docs |-> {}, lists |-> {}]
                      \in Read
  BY DEF Ask
<1>1. {} \in SUBSET HistoryDoc /\ {} \in SUBSET ListDoc /\ FALSE \in BOOLEAN
  OBVIOUS
<1> QED
  BY <1>1 DEF Read

LEMMA NowType ==
    ASSUME TypeOK, NEW k
    PROVE  DocsNow(k) \in SUBSET HistoryDoc /\ ListsNow(k) \in SUBSET ListDoc
BY DEF DocsNow, ListsNow, PlacesAt, TypeOK

LEMMA AnswerType ==
    ASSUME TypeOK, NEW r \in reads
    PROVE  DocsOfRead(r) \in SUBSET HistoryDoc /\ ListsOfRead(r) \in SUBSET ListDoc
BY NowType DEF DocsOfRead, ListsOfRead, TypeOK, Read

LEMMA BlankTypes ==
    /\ Blank \in Object
    /\ BlankList \in AnyList
    /\ NoSaved \in [lists : SUBSET ListDoc, doubled : SUBSET ListDoc,
                    places : SUBSET HistoryDoc, empty : BOOLEAN, seeAll : BOOLEAN]
    /\ NoDetail \in [open : BOOLEAN, list : AnyList, rows : SUBSET HistoryDoc,
                     pins : SUBSET HistoryDoc]
    /\ NoSave \in [place : Object, already : BOOLEAN, lists : SUBSET ListDoc,
                   doubled : SUBSET ListDoc, ids : SUBSET PlaceIds]
    /\ NoEdit \in [list : AnyList, places : SUBSET HistoryDoc]
<1>1. 0 \in PlaceIds
  BY BoundAssumption DEF PlaceIds
<1>2. Blank \in Object
  BY <1>1 DEF Blank, Unsaved, Object
<1>3. BlankList \in AnyList
  BY DEF AnyList
<1> QED
  BY <1>2, <1>3 DEF NoSaved, NoDetail, NoSave, NoEdit

LEMMA InitType == Init => TypeOK /\ CopiesKnowTheirDoc
<1> SUFFICES ASSUME Init PROVE TypeOK /\ CopiesKnowTheirDoc
  OBVIOUS
<1>1. TypeOK
  BY BlankTypes, AccountAssumption DEF Init, TypeOK
<1>2. CopiesKnowTheirDoc
  BY DEF Init, CopiesKnowTheirDoc, Blank, Unsaved, NoSave
<1> QED
  BY <1>1, <1>2

\* The reads and their completions.
LEMMA ReadStepType ==
    ASSUME TypeOK, CopiesKnowTheirDoc, UNCHANGED edits, NEW r \in reads,
           AnswerRead(r) \/ FailRead(r) \/ DeliverRead(r)
    PROVE  TypeOK' /\ CopiesKnowTheirDoc'
<1> USE DEF stores, views, purges
<1>a. r \in Read
  BY DEF TypeOK
<1>b. /\ DocsOfRead(r) \in SUBSET HistoryDoc /\ ListsOfRead(r) \in SUBSET ListDoc
      /\ DocsNow(r.kind) \in SUBSET HistoryDoc /\ ListsNow(r.kind) \in SUBSET ListDoc
  BY AnswerType, NowType
<1>1. CASE AnswerRead(r)
  <2>1. [r EXCEPT !.answered = TRUE, !.docs = DocsNow(r.kind),
                  !.lists = ListsNow(r.kind)] \in Read
    BY <1>a, <1>b DEF Read
  <2> QED
    BY <1>1, <2>1 DEF AnswerRead, TypeOK, CopiesKnowTheirDoc
<1>2. CASE FailRead(r)
  <2>1. [r EXCEPT !.answered = TRUE] \in Read
    BY <1>a DEF Read
  <2>2. reads' \in SUBSET Read
    BY <1>2, <2>1 DEF FailRead, TypeOK
  <2>3. UNCHANGED <<stores, base, screen, views, purges, acks, lost, crashed>>
    BY <1>2 DEF FailRead
  <2>4. TypeOK'
    BY <2>2, <2>3 DEF TypeOK
  <2> QED
    BY <2>3, <2>4 DEF CopiesKnowTheirDoc
<1>3. CASE DeliverLists(r)
  BY <1>3, <1>b DEF DeliverLists, TypeOK, CopiesKnowTheirDoc
<1>4. CASE DeliverHistory(r)
  BY <1>4, <1>b DEF DeliverHistory, ShowHistory, TrapAfter, TypeOK,
                    CopiesKnowTheirDoc
<1>5. CASE DeliverSaveLists(r)
  <2>1. save' \in [place : Object, already : BOOLEAN, lists : SUBSET ListDoc,
                   doubled : SUBSET ListDoc, ids : SUBSET PlaceIds]
    BY <1>5, <1>b DEF DeliverSaveLists, TypeOK
  <2>2. save'.place = save.place /\ save'.already = save.already
    BY <1>5 DEF DeliverSaveLists, TypeOK
  <2> QED
    BY <1>5, <2>1, <2>2 DEF DeliverSaveLists, TypeOK, CopiesKnowTheirDoc
<1>6. CASE DeliverSaveIds(r)
  <2>1. IdsOf(DocsOfRead(r)) \in SUBSET PlaceIds
    BY <1>b DEF IdsOf, HistoryDoc, Object
  <2> QED
    BY <1>6, <2>1 DEF DeliverSaveIds, TypeOK, CopiesKnowTheirDoc
<1>7. CASE DeliverAddress(r)
  <2>1. current' = current \/ current' \in HistoryDoc
    BY <1>7, <1>b DEF DeliverAddress
  <2>2. CopiesKnowTheirDoc'
    BY <1>7, <2>1 DEF DeliverAddress, CopiesKnowTheirDoc, HistoryDoc
  <2>3. TypeOK'
    BY <1>7, <2>1 DEF DeliverAddress, TypeOK, HistoryDoc
  <2> QED
    BY <2>2, <2>3
<1> QED
  BY <1>1, <1>2, <1>3, <1>4, <1>5, <1>6, <1>7 DEF DeliverRead

\* The steps that only move between the screens.
LEMMA LookType ==
    ASSUME TypeOK, CopiesKnowTheirDoc, Look, UNCHANGED edits
    PROVE  TypeOK' /\ CopiesKnowTheirDoc'
<1> USE DEF stores, views, purges
<1>a. /\ Ask(SavedReads) \subseteq Read /\ Ask(SaveReads) \subseteq Read
      /\ Ask({"address"}) \subseteq Read
  BY AskType DEF ReadKinds
<1>1. CASE OpenSaved
  BY <1>1, <1>a DEF OpenSaved, TypeOK, CopiesKnowTheirDoc
<1>2. CASE CloseSaved
  <2>1. {[u EXCEPT !.own = FALSE] : u \in listPurges} \subseteq ListPurge
    <3> SUFFICES ASSUME NEW u \in ListPurge
                 PROVE  [u EXCEPT !.own = FALSE] \in ListPurge
      BY DEF TypeOK
    <3> QED
      BY DEF ListPurge
  <2> QED
    BY <1>2, <2>1, BlankTypes DEF CloseSaved, TypeOK, CopiesKnowTheirDoc
<1>3. CASE OpenRecent
  BY <1>3, BlankTypes DEF OpenRecent, TypeOK, CopiesKnowTheirDoc
<1>4. CASE CloseDetail
  BY <1>4, <1>a, BlankTypes DEF CloseDetail, BackToSaved, TrapAfter, TypeOK,
                                CopiesKnowTheirDoc
<1>5. CASE ClosePlace
  <2>1. current' = Blank /\ Blank \in Object /\ Blank.list = {}
    BY <1>5, BlankTypes DEF ClosePlace, Blank, Unsaved
  <2> QED
    BY <1>5, <1>a, <2>1 DEF ClosePlace, BackToSaved, ReadsOf, TrapAfter, TypeOK,
                            CopiesKnowTheirDoc
<1>6. CASE TapSave
  <2>1. save' \in [place : Object, already : BOOLEAN, lists : SUBSET ListDoc,
                   doubled : SUBSET ListDoc, ids : SUBSET PlaceIds]
    BY <1>6 DEF TapSave, NoSave, TypeOK, AlreadySaved
  <2>2. save'.already => save'.place.doc \in DocIds
    BY <1>6 DEF TapSave, NoSave, AlreadySaved, CopiesKnowTheirDoc
  <2> QED
    BY <1>6, <1>a, <2>1, <2>2 DEF TapSave, TypeOK, CopiesKnowTheirDoc
<1>7. CASE CancelSave
  BY <1>7, BlankTypes DEF CancelSave, BackToPlace, ReadsOf, TypeOK,
                          CopiesKnowTheirDoc, NoSave
<1>8. CASE CancelEdit
  BY <1>8, <1>a, BlankTypes DEF CancelEdit, BackToSaved, TrapAfter, TypeOK,
                                CopiesKnowTheirDoc
<1>9. ASSUME NEW l \in saved.lists, OpenDetail(l) \/ OpenEdit(l)
      PROVE  TypeOK' /\ CopiesKnowTheirDoc'
  <2>1. l \in AnyList /\ PlacesOf(l) \subseteq HistoryDoc
    BY DEF TypeOK, AnyList, PlacesOf
  <2>2. CASE OpenDetail(l)
    BY <2>2, <2>1 DEF OpenDetail, TypeOK, CopiesKnowTheirDoc
  <2>3. CASE OpenEdit(l)
    BY <2>3, <2>1 DEF OpenEdit, TypeOK, CopiesKnowTheirDoc
  <2> QED
    BY <1>9, <2>2, <2>3
<1>10. ASSUME NEW o \in Openable, OpenPlace(o)
       PROVE  TypeOK' /\ CopiesKnowTheirDoc'
  <2>1. o \in HistoryDoc \/ (o \in Object /\ o.list = {})
    <3>1. \A p \in Places : Unsaved(p) \in Object /\ Unsaved(p).list = {}
      BY BoundAssumption DEF Unsaved, Object, PlaceIds
    <3> QED
      BY <3>1 DEF Openable, TypeOK
  <2> QED
    BY <1>10, <1>a, <2>1 DEF OpenPlace, TypeOK, CopiesKnowTheirDoc, HistoryDoc
<1> QED
  BY <1>1, <1>2, <1>3, <1>4, <1>5, <1>6, <1>7, <1>8, <1>9, <1>10 DEF Look

\* The edits.
LEMMA EditType ==
    ASSUME TypeOK, CopiesKnowTheirDoc, Edit, edits' = edits + 1
    PROVE  TypeOK' /\ CopiesKnowTheirDoc'
<1> USE DEF stores, views, purges
<1>a. edits' \in Nat
  BY DEF TypeOK
<1>b. history \in SUBSET HistoryDoc /\ lists \in SUBSET ListDoc
  BY DEF TypeOK
<1>1. ASSUME NEW l \in saved.lists, DeleteList(l)
      PROVE  TypeOK' /\ CopiesKnowTheirDoc'
  <2>1. lists' \in SUBSET ListDoc
    BY <1>1, <1>b, DeleteListType DEF DeleteList
  <2>2. [title |-> l.title, own |-> TRUE, answered |-> FALSE, docs |-> {}]
          \in ListPurge
    <3>1. l.title \in Titles /\ {} \in SUBSET HistoryDoc
      BY DEF TypeOK, ListDoc
    <3> QED
      BY <3>1 DEF ListPurge
  <2> QED
    BY <1>1, <1>a, <2>1, <2>2 DEF DeleteList, TypeOK, CopiesKnowTheirDoc
<1>2. ASSUME NEW lid \in ListIds, NEW t \in Titles, NewList(lid, t)
      PROVE  TypeOK' /\ CopiesKnowTheirDoc'
  <2>1. lists' \in SUBSET ListDoc
    BY <1>2, <1>b, AddNewListType DEF NewList
  <2>2. [lid |-> lid, title |-> t, places |-> {}] \in ListDoc
    BY DEF ListDoc
  <2>3. acks' \subseteq [screen : {"saved", "save"}, list : ListDoc]
    <3>1. \A c \in {"saved", "save"} :
             [screen |-> c, list |-> [lid |-> lid, title |-> t, places |-> {}]]
               \in [screen : {"saved", "save"}, list : ListDoc]
      BY <2>2
    <3> QED
      BY <1>2, <3>1 DEF NewList, TypeOK
  <2> QED
    BY <1>2, <1>a, <2>1, <2>3 DEF NewList, TypeOK, CopiesKnowTheirDoc
<1>3. ASSUME NEW o \in detail.rows, RemoveFromList(o)
      PROVE  TypeOK' /\ CopiesKnowTheirDoc'
  <2>1. lists' \in SUBSET ListDoc
    BY <1>3, <1>b, RemoveIdsType DEF RemoveFromList
  <2>2. history' \in SUBSET HistoryDoc
    BY <1>3, <1>b, DeletePlaceType, RemoveListInPlacesType DEF RemoveFromList
  <2> QED
    BY <1>3, <1>a, <2>1, <2>2 DEF RemoveFromList, TypeOK, CopiesKnowTheirDoc
<1>4. ASSUME NEW o \in detail.rows, DeleteEverywhere(o)
      PROVE  TypeOK' /\ CopiesKnowTheirDoc'
  <2>1. history' \in SUBSET HistoryDoc
    BY <1>4, <1>b, DeletePlaceType DEF DeleteEverywhere
  <2>2. [id |-> o.id, titles |-> o.list, answered |-> FALSE, lids |-> {}]
          \in PlacePurge
    <3>1. o \in Object /\ {} \in SUBSET ListIds
      BY DEF TypeOK, HistoryDoc
    <3> QED
      BY <3>1 DEF PlacePurge, Object
  <2>3. placePurges' \subseteq PlacePurge
    BY <1>4, <2>2 DEF DeleteEverywhere, TypeOK
  <2>4. crashed' \in {"no", "unwrap", "cell", "query", "items"}
    BY <1>4 DEF DeleteEverywhere, TypeOK
  <2> QED
    BY <1>4, <1>a, <2>1, <2>3, <2>4 DEF DeleteEverywhere, TypeOK,
                                         CopiesKnowTheirDoc
<1>5. ASSUME NEW S \in SUBSET save.lists
      PROVE  /\ TitlesOf(S) \in SUBSET Titles
             /\ \A i \in PlaceIds : Checked(S, i) \in SUBSET ListDoc
             /\ \A D \in SUBSET S :
                   /\ Doubles(S, D) \in SUBSET Titles
                   /\ save.already => Resave(S, D) \in SUBSET HistoryDoc
             /\ \A ls \in SUBSET ListDoc : \A L : Uncheck(ls, L) \in SUBSET ListDoc
  <2>1. TitlesOf(S) \in SUBSET Titles
    BY <1>5 DEF TypeOK, TitlesOf, ListDoc
  <2>2. \A i \in PlaceIds : Checked(S, i) \in SUBSET ListDoc
    BY <1>b, AddIdType DEF Checked
  <2>3. ASSUME NEW D \in SUBSET S
        PROVE  /\ Doubles(S, D) \in SUBSET Titles
               /\ save.already => Resave(S, D) \in SUBSET HistoryDoc
    <3>1. save.already => save.place \in HistoryDoc
      BY DEF TypeOK, CopiesKnowTheirDoc, HistoryDoc
    <3>2. Doubles(S, D) \in SUBSET Titles
      BY <1>5 DEF TypeOK, Doubles, TitlesOf, ListDoc
    <3> QED
      BY <3>1, <3>2, <2>1, <1>b, DeletePlaceType, UpdatePlaceType DEF Resave
  <2>4. \A ls \in SUBSET ListDoc : \A L : Uncheck(ls, L) \in SUBSET ListDoc
    BY RemoveIdsType DEF Uncheck
  <2> QED
    BY <2>1, <2>2, <2>3, <2>4
<1>6. ASSUME BackToPlace
      PROVE  /\ screen' = "place" /\ save' = NoSave
             /\ reads' \subseteq Read
             /\ acks' \subseteq [screen : {"saved", "save"}, list : ListDoc]
             /\ ~ NoSave.already
  BY <1>6 DEF BackToPlace, ReadsOf, TypeOK, NoSave
<1>7. ASSUME NEW S \in SUBSET save.lists, NEW D \in SUBSET S, SaveAgain(S, D)
      PROVE  TypeOK' /\ CopiesKnowTheirDoc'
  <2>1. save.place.id \in PlaceIds
    BY DEF TypeOK, Object
  <2>2. history' \in SUBSET HistoryDoc /\ lists' \in SUBSET ListDoc
    BY <1>7, <1>5, <2>1 DEF SaveAgain
  <2> QED
    BY <1>7, <1>6, <1>a, <2>2, BlankTypes DEF SaveAgain, TypeOK,
                                              CopiesKnowTheirDoc
<1>8. ASSUME NEW S \in SUBSET save.lists, NEW D \in SUBSET S, NEW d \in DocIds,
             SaveNew(S, D, d)
      PROVE  TypeOK' /\ CopiesKnowTheirDoc'
  <2>1. save.place.place \in Places \cup {NoPlace}
    BY DEF TypeOK, Object
  <2>2. history' \in SUBSET HistoryDoc /\ lists' \in SUBSET ListDoc
    BY <1>8, <1>5, <1>b, <2>1, AddPlaceType DEF SaveNew
  <2> QED
    BY <1>8, <1>6, <1>a, <2>2, BlankTypes DEF SaveNew, TypeOK,
                                              CopiesKnowTheirDoc
<1>9. ASSUME NEW S \in SUBSET save.lists, NEW D \in SUBSET S, NEW ts \in SUBSET Unchecked(S),
             SaveTraps(S, D, ts)
      PROVE  TypeOK' /\ CopiesKnowTheirDoc'
  <2>1. save.place.id \in PlaceIds
    BY DEF TypeOK, Object
  <2>2. history' \in SUBSET HistoryDoc /\ lists' \in SUBSET ListDoc
    BY <1>9, <1>5, <2>1 DEF SaveTraps
  <2> QED
    BY <1>9, <1>a, <2>2 DEF SaveTraps, TypeOK, CopiesKnowTheirDoc
<1>10. ASSUME NEW R \in SUBSET edit.places, NEW t \in Titles, EditDone(R, t)
       PROVE  TypeOK' /\ CopiesKnowTheirDoc'
  <2> DEFINE old == edit.list.title
             kept == edit.places \ R
             removed == RemoveListFromSelectedPlaces(history, R, old)
             emptied == RemovePlacesFromLists(lists, {edit.list.lid}, IdsOf(R))
  <2>1. removed \in SUBSET HistoryDoc /\ emptied \in SUBSET ListDoc
    BY <1>b, RemoveSelectedType, RemoveIdsType
  <2>2. kept \in SUBSET HistoryDoc
    BY DEF TypeOK
  <2>3. \A M : UpdateTitleInPlaces(removed, kept, old, t, M) \in SUBSET HistoryDoc
    BY <2>1, <2>2, UpdateTitleInPlacesType
  <2>4. UpdateListTitle(emptied, edit.list.lid, t) \in SUBSET ListDoc
    BY <2>1, UpdateListTitleType
  <2>5. history' \in SUBSET HistoryDoc /\ lists' \in SUBSET ListDoc
    BY <1>10, <2>1, <2>3, <2>4 DEF EditDone
  <2>6. \A M : {IF o \in kept THEN Retitled(o, old, t, M) ELSE o : o \in saved.places}
                  \subseteq HistoryDoc
    BY RetitledType DEF TypeOK
  <2>7. saved' \in [lists : SUBSET ListDoc, doubled : SUBSET ListDoc,
                    places : SUBSET HistoryDoc, empty : BOOLEAN, seeAll : BOOLEAN]
    BY <1>10, <2>6 DEF EditDone, TypeOK
  <2>8. Ask(SavedReads) \subseteq Read
    BY AskType DEF ReadKinds
  <2> QED
    BY <1>10, <1>a, <2>5, <2>7, <2>8, BlankTypes
       DEF EditDone, BackToSaved, TrapAfter, TypeOK, CopiesKnowTheirDoc
<1> QED
  BY <1>1, <1>2, <1>3, <1>4, <1>7, <1>8, <1>9, <1>10 DEF Edit

\* The purges, the completions of addNewList, and the relaunch.
LEMMA ClientType ==
    ASSUME TypeOK, CopiesKnowTheirDoc, Client, UNCHANGED edits
    PROVE  TypeOK' /\ CopiesKnowTheirDoc'
<1> USE DEF stores, views, purges
<1>1. ASSUME NEW r \in reads, AnswerRead(r) \/ FailRead(r) \/ DeliverRead(r)
      PROVE  TypeOK' /\ CopiesKnowTheirDoc'
  BY <1>1, ReadStepType
<1>2. ASSUME NEW a \in acks, DeliverAck(a)
      PROVE  TypeOK' /\ CopiesKnowTheirDoc'
  <2>1. a.list \in ListDoc
    BY DEF TypeOK
  <2>2. CASE a.screen = "saved"
    <3> DEFINE ls == saved.lists \cup {a.list}
               ds == saved.doubled \cup ({a.list} \cap saved.lists)
    <3>1. ls \in SUBSET ListDoc /\ ds \in SUBSET ListDoc
      BY <2>1 DEF TypeOK
    <3>2. saved' = [saved EXCEPT !.lists = ls, !.doubled = ds]
      BY <1>2, <2>2 DEF DeliverAck
    <3> HIDE DEF ls, ds
    <3>3. saved' \in [lists : SUBSET ListDoc, doubled : SUBSET ListDoc,
                      places : SUBSET HistoryDoc, empty : BOOLEAN, seeAll : BOOLEAN]
      BY <3>1, <3>2 DEF TypeOK
    <3> QED
      BY <1>2, <2>2, <3>3 DEF DeliverAck, TypeOK, CopiesKnowTheirDoc
  <2>3. CASE a.screen # "saved"
    <3> DEFINE ls == save.lists \cup {a.list}
               ds == save.doubled \cup ({a.list} \cap save.lists)
    <3>1. ls \in SUBSET ListDoc /\ ds \in SUBSET ListDoc
      BY <2>1 DEF TypeOK
    <3>2. save' = [save EXCEPT !.lists = ls, !.doubled = ds]
      BY <1>2, <2>3 DEF DeliverAck
    <3> HIDE DEF ls, ds
    <3>3. /\ save' \in [place : Object, already : BOOLEAN, lists : SUBSET ListDoc,
                        doubled : SUBSET ListDoc, ids : SUBSET PlaceIds]
          /\ save'.place = save.place /\ save'.already = save.already
      BY <3>1, <3>2 DEF TypeOK
    <3> QED
      BY <1>2, <2>3, <3>3 DEF DeliverAck, TypeOK, CopiesKnowTheirDoc
  <2> QED
    BY <2>2, <2>3
<1>3. ASSUME NEW u \in listPurges, AnswerListPurge(u)
      PROVE  TypeOK' /\ CopiesKnowTheirDoc'
  <2>1. PlacesInList(history, u.title) \in SUBSET HistoryDoc
    BY DEF TypeOK, PlacesInList
  <2>2. [u EXCEPT !.answered = TRUE, !.docs = PlacesInList(history, u.title)]
          \in ListPurge
    <3>1. u \in ListPurge
      BY DEF TypeOK
    <3> QED
      BY <2>1, <3>1 DEF ListPurge
  <2> QED
    BY <1>3, <2>2 DEF AnswerListPurge, TypeOK, CopiesKnowTheirDoc
<1>4. ASSUME NEW u \in listPurges, DeliverListPurge(u)
      PROVE  TypeOK' /\ CopiesKnowTheirDoc'
  <2>1. history' \in SUBSET HistoryDoc
    BY <1>4, RemoveSelectedType DEF DeliverListPurge, TypeOK
  <2>2. saved' \in [lists : SUBSET ListDoc, doubled : SUBSET ListDoc,
                    places : SUBSET HistoryDoc, empty : BOOLEAN, seeAll : BOOLEAN]
    BY <1>4 DEF DeliverListPurge, DropById, TypeOK
  <2> QED
    BY <1>4, <2>1, <2>2 DEF DeliverListPurge, TypeOK, CopiesKnowTheirDoc
<1>8. ASSUME NEW u \in listPurges, PurgeTraps(u)
      PROVE  TypeOK' /\ CopiesKnowTheirDoc'
  <2>1. history' \in SUBSET HistoryDoc
    BY <1>8, RemoveSelectedType DEF PurgeTraps, TypeOK
  <2> QED
    BY <1>8, <2>1 DEF PurgeTraps, TypeOK, CopiesKnowTheirDoc
<1>5. ASSUME NEW u \in placePurges, AnswerPlacePurge(u)
      PROVE  TypeOK' /\ CopiesKnowTheirDoc'
  <2>1. ListsTitled(lists, u.titles) \in SUBSET ListIds
    BY DEF TypeOK, ListsTitled, LidsOf, ListDoc
  <2>2. [u EXCEPT !.answered = TRUE, !.lids = ListsTitled(lists, u.titles)]
          \in PlacePurge
    <3>1. u \in PlacePurge
      BY DEF TypeOK
    <3> QED
      BY <2>1, <3>1 DEF PlacePurge
  <2> QED
    BY <1>5, <2>2 DEF AnswerPlacePurge, TypeOK, CopiesKnowTheirDoc
<1>6. ASSUME NEW u \in placePurges, DeliverPlacePurge(u)
      PROVE  TypeOK' /\ CopiesKnowTheirDoc'
  <2>1. lists' \in SUBSET ListDoc
    BY <1>6, RemoveIdsType DEF DeliverPlacePurge, TypeOK
  <2> QED
    BY <1>6, <2>1, ZenonT(40) DEF DeliverPlacePurge, TypeOK, CopiesKnowTheirDoc
<1>7. CASE FailPurge
  BY <1>7 DEF FailPurge, TypeOK, CopiesKnowTheirDoc
<1> QED
  BY <1>1, <1>2, <1>3, <1>4, <1>5, <1>6, <1>7, <1>8 DEF Client, PurgeStep

LEMMA RelaunchType ==
    ASSUME TypeOK, CopiesKnowTheirDoc, Relaunch, UNCHANGED edits
    PROVE  TypeOK' /\ CopiesKnowTheirDoc'
<1>1. TypeOK'
  BY BlankTypes DEF Relaunch, stores, TypeOK
<1>2. CopiesKnowTheirDoc'
  BY DEF Relaunch, CopiesKnowTheirDoc, Blank, Unsaved, NoSave
<1> QED
  BY <1>1, <1>2

LEMMA TypeStep ==
    ASSUME TypeOK, CopiesKnowTheirDoc, [Next]_vars
    PROVE  TypeOK' /\ CopiesKnowTheirDoc'
<1>1. CASE Edit /\ edits' = edits + 1
  BY <1>1, EditType
<1>2. CASE (Look \/ Client) /\ UNCHANGED edits
  BY <1>2, LookType, ClientType
<1>3. CASE Relaunch /\ UNCHANGED edits
  BY <1>3, RelaunchType
<1>4. CASE UNCHANGED vars
  BY <1>4 DEF vars, TypeOK, CopiesKnowTheirDoc
<1> QED
  BY <1>1, <1>2, <1>3, <1>4 DEF Next

\* The state of the screens and of the two collections is well formed: every
\* write keeps the shape of the documents, whatever copy it was made from.
THEOREM TypeCorrect == Spec => []TypeOK
<1>1. TypeOK /\ CopiesKnowTheirDoc /\ [Next]_vars => (TypeOK /\ CopiesKnowTheirDoc)'
  BY TypeStep
<1> QED
  BY InitType, <1>1, PTL DEF Spec

\* No setData or delete is sent to the empty document key: what SavePlaceView
\* takes for a saved place always has its document.
THEOREM SavesHaveDocument == Spec => []CopiesKnowTheirDoc
<1>1. TypeOK /\ CopiesKnowTheirDoc /\ [Next]_vars => (TypeOK /\ CopiesKnowTheirDoc)'
  BY TypeStep
<1> QED
  BY InitType, <1>1, PTL DEF Spec

-----------------------------------------------------------------------------
(* The default lists the account came with.  They are there, and every     *)
(* copy of one has its title: together this is inductive, for a handler    *)
(* deletes or retitles a list by the key of a copy and spares it by the    *)
(* title of that copy.  A step that changes no key and no title of the     *)
(* collection, and brings no new copy but the blank one, keeps both.       *)

DefaultsKept == DefaultListsSurvive /\ DefaultsKnown

LEMMA DefaultKeys == \A h \in DefaultHeads : h[1] # NoKey /\ h[2] \in DefaultTitles
<1>1. \A l \in InitLists : l.lid # NoKey
  BY AccountAssumption, KeyAssumption DEF ListDoc
<1> QED
  BY <1>1 DEF DefaultHeads, Heads

LEMMA HeadsSubset ==
    ASSUME NEW as, NEW bs, Heads(as) \subseteq Heads(bs), NEW a \in as
    PROVE  \E b \in bs : b.lid = a.lid /\ b.title = a.title
<1>1. <<a.lid, a.title>> \in Heads(bs)
  BY Zenon DEF Heads
<1>2. PICK b \in bs : <<a.lid, a.title>> = <<b.lid, b.title>>
  BY <1>1, Zenon DEF Heads
<1> QED
  BY <1>2

LEMMA SameHeadsStep ==
    ASSUME TypeOK, TypeOK', DefaultsKept, Heads(lists') = Heads(lists),
           ListCopies' \subseteq lists' \cup ListCopies \cup {BlankList}
    PROVE  DefaultsKept'
<1>1. \A m \in lists' : \E k \in lists : k.lid = m.lid /\ k.title = m.title
  BY HeadsSubset
<1>2. \A l \in ListCopies' : \E k \in ListCopies \cup {BlankList} :
         k.lid = l.lid /\ k.title = l.title
  BY <1>1 DEF ListCopies
<1>3. DefaultListsSurvive'
  BY DEF DefaultsKept, DefaultListsSurvive
<1>4. ASSUME NEW l \in ListCopies', NEW h \in DefaultHeads, l.lid = h[1]
      PROVE  l.title = h[2]
  <2>1. PICK k \in ListCopies \cup {BlankList} : k.lid = l.lid /\ k.title = l.title
    BY <1>2
  <2>2. k \in ListCopies
    BY <1>4, <2>1, DefaultKeys DEF BlankList
  <2> QED
    BY <1>4, <2>1, <2>2 DEF DefaultsKept, DefaultsKnown
<1> QED
  BY <1>3, <1>4 DEF DefaultsKept, DefaultsKnown

LEMMA UnionLists ==
    ASSUME NEW rs, NEW x \in UNION {r.lists : r \in rs}
    PROVE  \E r \in rs : x \in r.lists
<1>1. PICK s \in {r.lists : r \in rs} : x \in s
  BY Zenon
<1>2. PICK r \in rs : s = r.lists
  BY Zenon
<1> QED
  BY <1>1, <1>2

LEMMA NoNewCopies ==
    ASSUME TypeOK, TypeOK', DefaultsKept, Heads(lists') = Heads(lists),
           saved'.lists \subseteq ListCopies,
           edit'.list \in ListCopies \cup {BlankList},
           \A r \in reads' : r.lists \subseteq ListCopies,
           \A a \in acks' : a.list \in ListCopies
    PROVE  DefaultsKept'
<1>1. ListCopies' = lists' \cup saved'.lists \cup {edit'.list}
                    \cup ReadLists' \cup AckedLists'
  BY DEF ListCopies
<1>a. ReadLists' \subseteq ListCopies
  BY UnionLists DEF ReadLists
<1>b. AckedLists' \subseteq ListCopies
  BY DEF AckedLists
<1>2. ListCopies' \subseteq lists' \cup ListCopies \cup {BlankList}
  BY <1>1, <1>a, <1>b
<1> QED
  BY <1>2, SameHeadsStep

LEMMA DefaultsInit == Init => DefaultsKept
<1> SUFFICES ASSUME Init PROVE DefaultsKept
  OBVIOUS
<1>a. ReadLists = {} /\ AckedLists = {}
  BY DEF Init, ReadLists, AckedLists
<1>1. ListCopies = InitLists \cup {BlankList}
  BY <1>a DEF Init, ListCopies, NoSaved, NoEdit
<1>2. ASSUME NEW l \in ListCopies, NEW h \in DefaultHeads, l.lid = h[1]
      PROVE  l.title = h[2]
  <2>1. PICK m \in InitLists : h = <<m.lid, m.title>>
    BY DEF DefaultHeads, Heads
  <2>2. l \in InitLists
    BY <1>1, <1>2, DefaultKeys DEF BlankList
  <2> QED
    BY <1>2, <2>1, <2>2, AccountAssumption
<1>3. DefaultListsSurvive
  BY DEF Init, DefaultListsSurvive, DefaultHeads
<1> QED
  BY <1>2, <1>3 DEF DefaultsKept, DefaultsKnown

\* What a list of an account that is not one of its default lists goes
\* through leaves those.
LEMMA OtherList ==
    ASSUME DefaultsKept, NEW e, \A h \in DefaultHeads : h[1] # e,
           NEW l, \A m \in lists : m.lid # e =>
                     \E k \in l : k.lid = m.lid /\ k.title = m.title
    PROVE  DefaultHeads \subseteq Heads(l)
<1> SUFFICES ASSUME NEW h \in DefaultHeads PROVE h \in Heads(l)
  OBVIOUS
<1>1. PICK m \in lists : h = <<m.lid, m.title>>
  BY DEF DefaultsKept, DefaultListsSurvive, Heads
<1>2. PICK k \in l : k.lid = m.lid /\ k.title = m.title
  BY <1>1
<1> QED
  BY <1>1, <1>2 DEF Heads

LEMMA DefaultsDeleteList ==
    ASSUME TypeOK, DefaultsKept, NEW l \in saved.lists, DeleteList(l)
    PROVE  DefaultsKept'
<1>a. ReadLists' = ReadLists /\ AckedLists' = AckedLists
  BY DEF DeleteList, ReadLists, AckedLists
<1>b. lists' \subseteq lists /\ saved'.lists \subseteq saved.lists /\ edit' = edit
  BY DEF DeleteList, DeleteListDoc, TypeOK
<1>1. ListCopies' \subseteq ListCopies
  BY <1>a, <1>b DEF ListCopies
<1>2. \A h \in DefaultHeads : h[1] # l.lid
  <2>1. l \in ListCopies /\ l.title \notin DefaultTitles
    BY DEF ListCopies, DeleteList
  <2> QED
    BY <2>1, DefaultKeys DEF DefaultsKept, DefaultsKnown
<1>3. \A m \in lists : m.lid # l.lid => m \in lists'
  BY DEF DeleteList, DeleteListDoc
<1>4. DefaultListsSurvive'
  BY <1>2, <1>3, OtherList DEF DefaultListsSurvive
<1> QED
  BY <1>1, <1>4 DEF DefaultsKept, DefaultsKnown

LEMMA DefaultsNewList ==
    ASSUME TypeOK, DefaultsKept, NEW lid \in ListIds, NEW t \in Titles,
           NewList(lid, t)
    PROVE  DefaultsKept'
<1> DEFINE new == [lid |-> lid, title |-> t, places |-> {}]
<1>1. lists' = lists \cup {new}
  BY DEF NewList, AddNewList
<1>2. \A l \in lists : l.lid # lid
  BY Zenon DEF NewList, NewLids, KeptLids, LidsOf
<1>3. \A h \in DefaultHeads : h[1] # lid
  BY <1>2 DEF DefaultsKept, DefaultListsSurvive, Heads
<1>4. ListCopies' \subseteq ListCopies \cup {new}
  <2>1. /\ saved' = saved /\ edit' = edit /\ reads' = reads
    BY DEF NewList, views
  <2>a. \A a \in acks' : a \in acks \/ a.list = new
    BY DEF NewList
  <2>2. AckedLists' \subseteq AckedLists \cup {new}
    BY <2>a DEF AckedLists
  <2>3. ReadLists' = ReadLists
    BY <2>1 DEF ReadLists
  <2> QED
    BY <1>1, <2>1, <2>2, <2>3 DEF ListCopies
<1>5. DefaultListsSurvive'
  BY <1>1 DEF DefaultsKept, DefaultListsSurvive, Heads
<1>6. DefaultsKnown'
  BY <1>3, <1>4 DEF DefaultsKept, DefaultsKnown
<1> QED
  BY <1>5, <1>6 DEF DefaultsKept

LEMMA DefaultsEditDone ==
    ASSUME TypeOK, TypeOK', DefaultsKept, NEW R \in SUBSET edit.places,
           NEW t \in Titles, EditDone(R, t)
    PROVE  DefaultsKept'
<1> DEFINE e == edit.list.lid
           emptied == RemovePlacesFromLists(lists, {e}, IdsOf(R))
<1>a. emptied \in SUBSET ListDoc /\ Heads(emptied) = Heads(lists)
  BY RemoveIdsType, RemoveIdsHeads DEF TypeOK
<1>b. reads' = reads \cup Ask(SavedReads) /\ saved'.lists = saved.lists
      /\ edit' = NoEdit /\ acks' = acks
  BY DEF EditDone, BackToSaved, TypeOK
<1>c. ReadLists' = ReadLists /\ AckedLists' = AckedLists
  BY <1>b DEF Ask, ReadLists, AckedLists
<1>d. ListCopies' \subseteq lists' \cup ListCopies \cup {BlankList}
  BY <1>b, <1>c DEF ListCopies, NoEdit
<1>1. CASE t = edit.list.title
  <2>1. lists' = emptied
    BY <1>1 DEF EditDone
  <2> QED
    BY <1>a, <1>d, <2>1, SameHeadsStep
<1>2. CASE t # edit.list.title
  <2>1. /\ lists' = UpdateListTitle(emptied, e, t)
        /\ edit.list.title \notin DefaultTitles
    BY <1>2 DEF EditDone, TitleAllowed
  <2>2. \A h \in DefaultHeads : h[1] # e
    <3>1. edit.list \in ListCopies
      BY DEF ListCopies
    <3> QED
      BY <2>1, <3>1, DefaultKeys DEF DefaultsKept, DefaultsKnown
  <2>3. ASSUME NEW m \in lists, m.lid # e
        PROVE  \E k \in lists' : k.lid = m.lid /\ k.title = m.title
    <3>1. PICK k \in emptied : k.lid = m.lid /\ k.title = m.title
      BY <1>a, HeadsSubset
    <3> QED
      BY <2>1, <2>3, <3>1 DEF UpdateListTitle
  <2>4. ASSUME NEW m \in lists', m.lid # e
        PROVE  \E k \in lists : k.lid = m.lid /\ k.title = m.title
    <3>1. PICK k \in emptied :
             m = IF k.lid = e THEN [k EXCEPT !.title = t] ELSE k
      BY <2>1 DEF UpdateListTitle
    <3>2. k.lid # e
      BY <1>a, <2>4, <3>1 DEF ListDoc
    <3> QED
      BY <1>a, <3>1, <3>2, HeadsSubset
  <2>5. ASSUME NEW l \in ListCopies', NEW h \in DefaultHeads, l.lid = h[1]
        PROVE  l.title = h[2]
    <3>1. PICK k \in ListCopies \cup {BlankList} : k.lid = l.lid /\ k.title = l.title
      BY <1>d, <2>2, <2>4, <2>5 DEF ListCopies
    <3>2. k \in ListCopies
      BY <2>5, <3>1, DefaultKeys DEF BlankList
    <3> QED
      BY <2>5, <3>1, <3>2 DEF DefaultsKept, DefaultsKnown
  <2>6. DefaultListsSurvive'
    BY <2>2, <2>3, OtherList DEF DefaultListsSurvive
  <2> QED
    BY <2>5, <2>6 DEF DefaultsKept, DefaultsKnown
<1> QED
  BY <1>1, <1>2

\* The copies there are, as NoNewCopies asks for them.
LEMMA OldCopies ==
    /\ lists \subseteq ListCopies /\ saved.lists \subseteq ListCopies
    /\ edit.list \in ListCopies
    /\ \A r \in reads : r.lists \subseteq ListCopies
    /\ \A a \in acks : a.list \in ListCopies
<1>1. \A r \in reads : r.lists \subseteq ReadLists
  BY Zenon DEF ReadLists
<1>2. \A a \in acks : a.list \in AckedLists
  BY Zenon DEF AckedLists
<1> QED
  BY <1>1, <1>2 DEF ListCopies

LEMMA DefaultsLook ==
    ASSUME TypeOK, TypeOK', DefaultsKept, Look
    PROVE  DefaultsKept'
<1> USE DEF stores, views, purges
<1>1. lists' = lists
  BY DEF Look, OpenSaved, CloseSaved, OpenRecent, CloseDetail, ClosePlace,
         TapSave, CancelSave, CancelEdit, OpenDetail, OpenEdit, OpenPlace
<1>2. saved'.lists \subseteq saved.lists
  BY DEF Look, OpenSaved, CloseSaved, OpenRecent, CloseDetail, ClosePlace,
         TapSave, CancelSave, CancelEdit, OpenDetail, OpenEdit, OpenPlace,
         NoSaved
<1>3. edit'.list \in saved.lists \cup {edit.list, BlankList}
  BY DEF Look, OpenSaved, CloseSaved, OpenRecent, CloseDetail, ClosePlace,
         TapSave, CancelSave, CancelEdit, OpenDetail, OpenEdit, OpenPlace,
         NoEdit
<1>4. \E ks : reads' \subseteq reads \cup Ask(ks)
  <2>1. \/ reads' \subseteq reads \/ reads' \subseteq reads \cup Ask(SavedReads)
        \/ reads' \subseteq reads \cup Ask(SaveReads)
        \/ reads' \subseteq reads \cup Ask({"address"})
    BY DEF Look, OpenSaved, CloseSaved, OpenRecent, CloseDetail, ClosePlace,
           TapSave, CancelSave, CancelEdit, OpenDetail, OpenEdit, OpenPlace,
           BackToSaved, BackToPlace, ReadsOf
  <2> QED
    BY <2>1
<1>5. acks' \subseteq acks
  BY DEF Look, OpenSaved, CloseSaved, OpenRecent, CloseDetail, ClosePlace,
         TapSave, CancelSave, CancelEdit, OpenDetail, OpenEdit, OpenPlace,
         BackToPlace
<1>6. \A r \in reads' : r.lists \subseteq ListCopies
  <2>1. PICK ks : reads' \subseteq reads \cup Ask(ks)
    BY <1>4
  <2>2. \A r \in Ask(ks) : r.lists = {}
    BY DEF Ask
  <2> QED
    BY <2>1, <2>2, OldCopies
<1> QED
  BY <1>1, <1>2, <1>3, <1>5, <1>6, OldCopies, NoNewCopies

\* Edits that change no key and no title of a list.
LEMMA DefaultsOtherEdits ==
    ASSUME TypeOK, TypeOK', DefaultsKept,
           \/ \E o \in detail.rows : RemoveFromList(o) \/ DeleteEverywhere(o)
           \/ \E S \in SUBSET save.lists : \E D \in SUBSET S :
                 \/ SaveAgain(S, D)
                 \/ \E d \in DocIds : SaveNew(S, D, d)
                 \/ \E ts \in SUBSET Unchecked(S) : SaveTraps(S, D, ts)
    PROVE  DefaultsKept'
<1> USE DEF stores, views, purges
<1>a. ASSUME NEW S, NEW i \in PlaceIds
      PROVE  Checked(S, i) \in SUBSET ListDoc /\ Heads(Checked(S, i)) = Heads(lists)
  BY AddIdType, AddIdHeads DEF Checked, TypeOK
<1>b. ASSUME NEW ls \in SUBSET ListDoc, NEW L
      PROVE  Heads(Uncheck(ls, L)) = Heads(ls)
  BY RemoveIdsHeads DEF Uncheck
<1>c. save.place.id \in PlaceIds
  BY DEF TypeOK, Object
<1>1. ASSUME NEW o \in detail.rows, RemoveFromList(o)
      PROVE  DefaultsKept'
  <2>1. Heads(lists') = Heads(lists)
    BY <1>1, RemoveIdsHeads DEF RemoveFromList, TypeOK
  <2> QED
    BY <1>1, <2>1, OldCopies, NoNewCopies DEF RemoveFromList
<1>2. ASSUME NEW o \in detail.rows, DeleteEverywhere(o)
      PROVE  DefaultsKept'
  BY <1>2, OldCopies, NoNewCopies DEF DeleteEverywhere
<1>3. ASSUME NEW S \in SUBSET save.lists, NEW D \in SUBSET S, SaveAgain(S, D)
      PROVE  DefaultsKept'
  <2>1. Heads(lists') = Heads(lists)
    BY <1>3, <1>a, <1>b, <1>c DEF SaveAgain
  <2> QED
    BY <1>3, <2>1, OldCopies, NoNewCopies DEF SaveAgain, BackToPlace
<1>4. ASSUME NEW S \in SUBSET save.lists, NEW D \in SUBSET S, NEW d \in DocIds,
             SaveNew(S, D, d)
      PROVE  DefaultsKept'
  <2>1. Heads(lists') = Heads(lists)
    BY <1>4, <1>a DEF SaveNew
  <2> QED
    BY <1>4, <2>1, OldCopies, NoNewCopies DEF SaveNew, BackToPlace
<1>5. ASSUME NEW S \in SUBSET save.lists, NEW D \in SUBSET S, NEW ts \in SUBSET Unchecked(S),
             SaveTraps(S, D, ts)
      PROVE  DefaultsKept'
  <2>1. Heads(lists') = Heads(lists)
    BY <1>5, <1>a, <1>b, <1>c DEF SaveTraps
  <2> QED
    BY <1>5, <2>1, OldCopies, NoNewCopies DEF SaveTraps
<1> QED
  BY <1>1, <1>2, <1>3, <1>4, <1>5

LEMMA DefaultsEdit ==
    ASSUME TypeOK, TypeOK', DefaultsKept, Edit
    PROVE  DefaultsKept'
BY DefaultsDeleteList, DefaultsNewList, DefaultsEditDone, DefaultsOtherEdits
   DEF Edit

\* A completion brings no list but those of the collection and of the copies.
LEMMA DefaultsClient ==
    ASSUME TypeOK, TypeOK', DefaultsKept, Client
    PROVE  DefaultsKept'
<1> USE DEF stores, views, purges
<1>a. \A k : ListsNow(k) \subseteq ListCopies
  BY OldCopies DEF ListsNow
<1>1. ASSUME NEW r \in reads, AnswerRead(r)
      PROVE  DefaultsKept'
  <2> DEFINE q == [r EXCEPT !.answered = TRUE, !.docs = DocsNow(r.kind),
                            !.lists = ListsNow(r.kind)]
  <2>1. r \in Read
    BY DEF TypeOK
  <2>2. q.lists \subseteq ListCopies
    BY <1>a, <2>1 DEF Read
  <2>3. reads' = (reads \ {r}) \cup {q}
    BY <1>1 DEF AnswerRead
  <2>4. \A s \in reads' : s.lists \subseteq ListCopies
    BY <2>2, <2>3, OldCopies
  <2> QED
    BY <1>1, <2>4, OldCopies, NoNewCopies DEF AnswerRead
<1>2. ASSUME NEW r \in reads, FailRead(r)
      PROVE  DefaultsKept'
  <2>1. r \in Read /\ r.lists \subseteq ListCopies
    BY OldCopies DEF TypeOK
  <2>2. [r EXCEPT !.answered = TRUE].lists \subseteq ListCopies
    BY <2>1 DEF Read
  <2>3. \A s \in reads' : s.lists \subseteq ListCopies
    BY <1>2, <2>2, OldCopies DEF FailRead
  <2> QED
    BY <1>2, <2>3, OldCopies, NoNewCopies DEF FailRead
<1>3. ASSUME NEW r \in reads, DeliverRead(r)
      PROVE  DefaultsKept'
  <2>1. ListsOfRead(r) \subseteq ListCopies
    BY <1>a, OldCopies DEF ListsOfRead
  <2>2. saved'.lists \subseteq saved.lists \cup ListsOfRead(r)
    BY <1>3 DEF DeliverRead, DeliverLists, DeliverHistory, ShowHistory,
       DeliverSaveLists, DeliverSaveIds, DeliverAddress, TypeOK
  <2>3. /\ reads' \subseteq reads /\ lists' = lists /\ edit' = edit
        /\ acks' = acks
    BY <1>3 DEF DeliverRead, DeliverLists, DeliverHistory, DeliverSaveLists,
       DeliverSaveIds, DeliverAddress
  <2> QED
    BY <2>1, <2>2, <2>3, OldCopies, NoNewCopies
<1>4. ASSUME NEW a \in acks, DeliverAck(a)
      PROVE  DefaultsKept'
  <2>1. saved'.lists \subseteq saved.lists \cup {a.list}
    BY <1>4 DEF DeliverAck, TypeOK
  <2> QED
    BY <1>4, <2>1, OldCopies, NoNewCopies DEF DeliverAck
<1>5. ASSUME PurgeStep \/ FailPurge
      PROVE  DefaultsKept'
  <2>1. Heads(lists') = Heads(lists)
    <3>1. ASSUME NEW u \in placePurges, DeliverPlacePurge(u)
          PROVE  Heads(lists') = Heads(lists)
      BY <3>1, RemoveIdsHeads DEF DeliverPlacePurge, TypeOK
    <3>2. \/ lists' = lists
          \/ \E u \in placePurges : DeliverPlacePurge(u)
      BY <1>5 DEF PurgeStep, FailPurge, AnswerListPurge, DeliverListPurge,
         PurgeTraps, AnswerPlacePurge
    <3> QED
      BY <3>1, <3>2
  <2>2. saved'.lists = saved.lists
    BY <1>5 DEF PurgeStep, FailPurge, AnswerListPurge, DeliverListPurge,
       PurgeTraps, AnswerPlacePurge, DeliverPlacePurge, TypeOK
  <2>3. edit' = edit /\ reads' = reads /\ acks' = acks
    BY <1>5 DEF PurgeStep, FailPurge, AnswerListPurge, DeliverListPurge,
       PurgeTraps, AnswerPlacePurge, DeliverPlacePurge
  <2> QED
    BY <2>1, <2>2, <2>3, OldCopies, NoNewCopies
<1> QED
  BY <1>1, <1>2, <1>3, <1>4, <1>5 DEF Client

LEMMA DefaultsStep ==
    ASSUME TypeOK, TypeOK', DefaultsKept, [Next]_vars
    PROVE  DefaultsKept'
<1>1. CASE Relaunch
  <2>1. /\ lists' = lists /\ saved'.lists = {} /\ edit'.list = BlankList
        /\ reads' = {} /\ acks' = {}
    BY <1>1 DEF Relaunch, stores, NoSaved, NoEdit
  <2> QED
    BY <2>1, NoNewCopies
<1>2. CASE UNCHANGED vars
  BY <1>2, OldCopies, NoNewCopies DEF vars
<1> QED
  BY <1>1, <1>2, DefaultsEdit, DefaultsLook, DefaultsClient DEF Next

\* Every copy of a default list the account came with, on a screen, in an
\* answer not yet delivered or in a completion to come, has the list's title.
THEOREM DefaultsAlwaysKnown == Spec => []DefaultsKnown
<1>1. TypeOK /\ TypeOK' /\ DefaultsKept /\ [Next]_vars => DefaultsKept'
  BY DefaultsStep
<1>2. DefaultsKept => DefaultsKnown
  BY DEF DefaultsKept
<1> QED
  BY DefaultsInit, TypeCorrect, <1>1, <1>2, PTL DEF Spec

\* No default list the account came with is ever deleted or retitled, however
\* old the copy of the lists a handler acts on, and whatever titles the user
\* gives other lists.
THEOREM DefaultListsSafe == Spec => []DefaultListsSurvive
<1>1. TypeOK /\ TypeOK' /\ DefaultsKept /\ [Next]_vars => DefaultsKept'
  BY DefaultsStep
<1>2. DefaultsKept => DefaultListsSurvive
  BY DEF DefaultsKept
<1> QED
  BY DefaultsInit, TypeCorrect, <1>1, <1>2, PTL DEF Spec

-----------------------------------------------------------------------------
(* Keys.  A document's key, id and place never change, and no collection   *)
(* or copy of it has two documents with one key.                           *)

OneKey(os) == \A o1, o2 \in os : o1.doc = o2.doc => o1 = o2

OneHead(ls) == \A l1, l2 \in ls : l1.lid = l2.lid => l1 = l2

\* A document of bs under the same key, with the same id and place.
SameDoc(o, q) == o.doc = q.doc /\ o.id = q.id /\ o.place = q.place

From(as, bs) == \A o \in as : \E q \in bs : SameDoc(o, q)

Unique(os) == \A o1, o2 \in os : o1.id = o2.id => o1 = o2
OneEach(os) == \A o1, o2 \in os : o1.place = o2.place => o1 = o2

\* Documents that come each from one of others are told apart by what tells
\* those apart.
LEMMA FromApart ==
    ASSUME NEW as, NEW bs, OneKey(as), From(as, bs)
    PROVE  /\ Unique(bs) => Unique(as)
           /\ OneEach(bs) => OneEach(as)
<1>1. ASSUME Unique(bs), NEW o1 \in as, NEW o2 \in as, o1.id = o2.id
      PROVE  o1 = o2
  <2>1. PICK q1 \in bs : SameDoc(o1, q1)
    BY DEF From
  <2>2. PICK q2 \in bs : SameDoc(o2, q2)
    BY DEF From
  <2> QED
    BY <1>1, <2>1, <2>2 DEF SameDoc, Unique, OneKey
<1>2. ASSUME OneEach(bs), NEW o1 \in as, NEW o2 \in as, o1.place = o2.place
      PROVE  o1 = o2
  <2>1. PICK q1 \in bs : SameDoc(o1, q1)
    BY DEF From
  <2>2. PICK q2 \in bs : SameDoc(o2, q2)
    BY DEF From
  <2> QED
    BY <1>2, <2>1, <2>2 DEF SameDoc, OneEach, OneKey
<1> QED
  BY <1>1, <1>2 DEF Unique, OneEach

\* What becomes of a document when the title t leaves the documents ds.
Less(o, ds, t) ==
    IF o.doc \in ds THEN [o EXCEPT !.list = @ \ {t}, !.twice = @ \ {t}] ELSE o

LEMMA LessIs ==
    ASSUME NEW o \in HistoryDoc, NEW ds, NEW t
    PROVE  /\ Less(o, ds, t) \in HistoryDoc /\ SameDoc(Less(o, ds, t), o)
           /\ Less(o, ds, t).list = IF o.doc \in ds THEN o.list \ {t} ELSE o.list
           /\ Less(o, ds, t).twice \subseteq o.twice
BY DEF Less, HistoryDoc, Object, SameDoc

LEMMA RemoveInPlacesIs ==
    ASSUME NEW h, NEW ds, NEW t
    PROVE  RemoveListInPlaces(h, ds, t) = {Less(o, ds, t) : o \in h}
BY DEF RemoveListInPlaces, Less

LEMMA RemoveInPlacesKeys ==
    ASSUME NEW h \in SUBSET HistoryDoc, NEW ds, NEW t, OneKey(h)
    PROVE  /\ OneKey(RemoveListInPlaces(h, ds, t))
           /\ From(RemoveListInPlaces(h, ds, t), h)
<1>1. \A o \in RemoveListInPlaces(h, ds, t) : \E q \in h : o = Less(q, ds, t)
  BY RemoveInPlacesIs
<1>2. \A q \in h : SameDoc(Less(q, ds, t), q)
  BY LessIs
<1>3. ASSUME NEW o1 \in RemoveListInPlaces(h, ds, t),
             NEW o2 \in RemoveListInPlaces(h, ds, t), o1.doc = o2.doc
      PROVE  o1 = o2
  <2>1. PICK q1 \in h : o1 = Less(q1, ds, t)
    BY <1>1
  <2>2. PICK q2 \in h : o2 = Less(q2, ds, t)
    BY <1>1
  <2>3. q1.doc = q2.doc
    BY <1>2, <1>3, <2>1, <2>2 DEF SameDoc
  <2> QED
    BY <2>1, <2>2, <2>3 DEF OneKey
<1> QED
  BY <1>1, <1>2, <1>3 DEF OneKey, From

LEMMA DeleteKeys ==
    ASSUME NEW h, NEW d, OneKey(h)
    PROVE  OneKey(DeletePlace(h, d)) /\ From(DeletePlace(h, d), h)
BY DEF DeletePlace, OneKey, From, SameDoc

\* removeListFromSelectedPlaces: the documents whose copy names one list go,
\* the others that were read lose the title.
LEMMA RemoveSelectedIs ==
    ASSUME NEW h, NEW os, NEW t
    PROVE  LET single == {o \in os : InOneList(o)}
           IN  RemoveListFromSelectedPlaces(h, os, t)
                 = {Less(o, DocsOf(os \ single), t) :
                       o \in {q \in h : q.doc \notin DocsOf(single)}}
BY RemoveInPlacesIs DEF RemoveListFromSelectedPlaces

LEMMA RemoveSelectedKeys ==
    ASSUME NEW h \in SUBSET HistoryDoc, NEW os, NEW t, OneKey(h)
    PROVE  /\ OneKey(RemoveListFromSelectedPlaces(h, os, t))
           /\ From(RemoveListFromSelectedPlaces(h, os, t), h)
<1> DEFINE single == {o \in os : InOneList(o)}
           rest == {o \in h : o.doc \notin DocsOf(single)}
<1>1. rest \in SUBSET HistoryDoc /\ OneKey(rest) /\ rest \subseteq h
  BY DEF OneKey
<1>2. RemoveListFromSelectedPlaces(h, os, t)
        = RemoveListInPlaces(rest, DocsOf(os \ single), t)
  BY DEF RemoveListFromSelectedPlaces
<1> HIDE DEF rest, single
<1> QED
  BY <1>1, <1>2, RemoveInPlacesKeys DEF From
\* updatePlace with a copy of the document, or deletePlace.
LEMMA UpdatePlaceKeys ==
    ASSUME NEW h, NEW o \in Object, NEW ts, NEW dups, OneKey(h)
    PROVE  OneKey(UpdatePlace(h, o, ts, dups))
<1>1. [o EXCEPT !.list = ts, !.twice = dups].doc = o.doc
  BY DEF Object
<1> QED
  BY <1>1 DEF UpdatePlace, DeletePlace, OneKey

LEMMA RetitledSame ==
    ASSUME NEW o \in HistoryDoc, NEW old, NEW new, NEW M
    PROVE  SameDoc(Retitled(o, old, new, M), o)
BY DEF Retitled, HistoryDoc, Object, SameDoc

LEMMA RetitledIs ==
    ASSUME NEW o \in HistoryDoc, NEW old, NEW new, NEW M
    PROVE  o.twice = {} =>
             Retitled(o, old, new, M).list
               = IF old \in o.list THEN (o.list \ {old}) \cup {new} ELSE o.list
<1> DEFINE ts == (IF old \in o.twice THEN o.list ELSE o.list \ {old}) \cup {new}
           dups == (IF o \in M THEN o.twice ELSE o.twice \ {old}) \cup ({new} \cap o.list)
<1>1. Retitled(o, old, new, M)
        = IF old \notin o.list THEN o ELSE [o EXCEPT !.list = ts, !.twice = dups]
  BY DEF Retitled, HistoryDoc, Object
<1>2. o.twice = {} => ts = (o.list \ {old}) \cup {new}
  OBVIOUS
<1> HIDE DEF ts, dups
<1> QED
  BY <1>1, <1>2 DEF HistoryDoc, Object

LEMMA RetitledNonempty ==
    ASSUME NEW o \in HistoryDoc, NEW old, NEW new, NEW M, o.list # {}
    PROVE  Retitled(o, old, new, M).list # {}
<1> DEFINE ts == (IF old \in o.twice THEN o.list ELSE o.list \ {old}) \cup {new}
           dups == (IF o \in M THEN o.twice ELSE o.twice \ {old}) \cup ({new} \cap o.list)
<1>1. Retitled(o, old, new, M)
        = IF old \notin o.list THEN o ELSE [o EXCEPT !.list = ts, !.twice = dups]
  BY DEF Retitled, HistoryDoc, Object
<1>2. ts # {}
  OBVIOUS
<1> HIDE DEF ts, dups
<1> QED
  BY <1>1, <1>2 DEF HistoryDoc, Object

LEMMA UpdateTitleKeys ==
    ASSUME NEW h, NEW os \in SUBSET HistoryDoc, NEW old, NEW new, NEW M,
           OneKey(h), OneKey(os)
    PROVE  OneKey(UpdateTitleInPlaces(h, os, old, new, M))
<1> DEFINE rest == {o \in h : o.doc \notin DocsOf(os)}
           back == {Retitled(o, old, new, M) : o \in os}
<1>a. \A q \in os : Retitled(q, old, new, M).doc = q.doc
  BY RetitledSame DEF SameDoc
<1>1. \A o \in back : \E q \in os : /\ o = Retitled(q, old, new, M)
                                   /\ o.doc = q.doc
  BY <1>a
<1>2. \A o \in back : o.doc \in DocsOf(os)
  BY <1>1 DEF DocsOf
<1>3. OneKey(back)
  BY <1>1 DEF OneKey
<1>4. OneKey(rest) /\ \A o \in rest : o.doc \notin DocsOf(os)
  BY DEF OneKey
<1>5. UpdateTitleInPlaces(h, os, old, new, M) = rest \cup back
  BY DEF UpdateTitleInPlaces
<1> HIDE DEF rest, back
<1> QED
  BY <1>2, <1>3, <1>4, <1>5 DEF OneKey

(* The same of the lists: each has its own key, though not its own title. *)

LEMMA AddIdApart ==
    ASSUME NEW ls \in SUBSET ListDoc, NEW lids, NEW i, OneHead(ls)
    PROVE  OneHead(AddNewPlaceToLists(ls, lids, i))
<1> DEFINE f(l) == IF l.lid \in lids THEN [l EXCEPT !.places = @ \cup {i}] ELSE l
<1>1. \A l \in ls : f(l).lid = l.lid /\ f(l).title = l.title
  BY DEF ListDoc
<1>2. AddNewPlaceToLists(ls, lids, i) = {f(l) : l \in ls}
  BY DEF AddNewPlaceToLists
<1> HIDE DEF f
<1> QED
  BY <1>1, <1>2 DEF OneHead

LEMMA RemoveIdsApart ==
    ASSUME NEW ls \in SUBSET ListDoc, NEW lids, NEW ids, OneHead(ls)
    PROVE  OneHead(RemovePlacesFromLists(ls, lids, ids))
<1> DEFINE f(l) == IF l.lid \in lids THEN [l EXCEPT !.places = @ \ ids] ELSE l
<1>1. \A l \in ls : f(l).lid = l.lid /\ f(l).title = l.title
  BY DEF ListDoc
<1>2. RemovePlacesFromLists(ls, lids, ids) = {f(l) : l \in ls}
  BY DEF RemovePlacesFromLists
<1> HIDE DEF f
<1> QED
  BY <1>1, <1>2 DEF OneHead

LEMMA UpdateListTitleApart ==
    ASSUME NEW ls \in SUBSET ListDoc, NEW lid, NEW t, OneHead(ls)
    PROVE  OneHead(UpdateListTitle(ls, lid, t))
<1> DEFINE f(l) == IF l.lid = lid THEN [l EXCEPT !.title = t] ELSE l
<1>1. \A l \in ls : f(l).lid = l.lid
  BY DEF ListDoc
<1>2. UpdateListTitle(ls, lid, t) = {f(l) : l \in ls}
  BY DEF UpdateListTitle
<1> HIDE DEF f
<1> QED
  BY <1>1, <1>2 DEF OneHead

-----------------------------------------------------------------------------
(* Copies of the history, and the copy that SavePlaceView holds.            *)

KeysApart ==
    /\ OneKey(history) /\ OneKey(saved.places) /\ OneKey(edit.places)
    /\ \A r \in reads : OneKey(r.docs)

\* What SavePlaceView takes for a saved place is a copy that names a list.
CopyNamesList == save.already <=> save.place.list # {}

Apart == KeysApart /\ OneHead(lists) /\ CopyNamesList

LEMMA NoKeys == OneKey({})
BY DEF OneKey

LEMMA FewerKeys ==
    ASSUME NEW as, NEW bs, as \subseteq bs, OneKey(bs)
    PROVE  OneKey(as)
BY DEF OneKey

LEMMA AskedDocs ==
    ASSUME NEW ks, NEW r \in Ask(ks)
    PROVE  r.docs = {} /\ r.lists = {}
BY DEF Ask

LEMMA ApartInit == Init => Apart
<1> SUFFICES ASSUME Init PROVE Apart
  OBVIOUS
<1>1. OneKey(history) /\ OneHead(lists)
  BY AccountAssumption DEF Init, OneKey, OneHead
<1>2. saved.places = {} /\ edit.places = {} /\ reads = {} /\ ~save.already
      /\ save.place.list = {}
  BY DEF Init, NoSaved, NoEdit, NoSave, Blank, Unsaved
<1> QED
  BY <1>1, <1>2, NoKeys DEF Apart, KeysApart, CopyNamesList

\* The steps that only move between the screens.
LEMMA ApartLook ==
    ASSUME TypeOK, Apart, Look
    PROVE  Apart'
<1> USE DEF stores, views, purges
<1>1. history' = history /\ lists' = lists
  BY DEF Look, OpenSaved, CloseSaved, OpenRecent, CloseDetail, ClosePlace,
         TapSave, CancelSave, CancelEdit, OpenDetail, OpenEdit, OpenPlace
<1>2. saved'.places \subseteq saved.places
  BY DEF Look, OpenSaved, CloseSaved, OpenRecent, CloseDetail, ClosePlace,
         TapSave, CancelSave, CancelEdit, OpenDetail, OpenEdit, OpenPlace,
         NoSaved
<1>3. edit'.places \subseteq saved.places \/ edit'.places \subseteq edit.places
  BY DEF Look, OpenSaved, CloseSaved, OpenRecent, CloseDetail, ClosePlace,
         TapSave, CancelSave, CancelEdit, OpenDetail, OpenEdit, OpenPlace,
         NoEdit, PlacesOf
<1>4. \E ks : reads' \subseteq reads \cup Ask(ks)
  <2>1. \/ reads' \subseteq reads \/ reads' \subseteq reads \cup Ask(SavedReads)
        \/ reads' \subseteq reads \cup Ask(SaveReads)
        \/ reads' \subseteq reads \cup Ask({"address"})
    BY DEF Look, OpenSaved, CloseSaved, OpenRecent, CloseDetail, ClosePlace,
           TapSave, CancelSave, CancelEdit, OpenDetail, OpenEdit, OpenPlace,
           BackToSaved, BackToPlace, ReadsOf
  <2> QED
    BY <2>1
<1>5. CopyNamesList'
  <2>1. CASE TapSave
    BY <2>1 DEF TapSave, NoSave, AlreadySaved, CopyNamesList
  <2>2. CASE CancelSave
    BY <2>2 DEF CancelSave, BackToPlace, NoSave, Blank, Unsaved, CopyNamesList
  <2>3. TapSave \/ CancelSave \/ save' = save
    BY DEF Look, OpenSaved, CloseSaved, OpenRecent, CloseDetail, ClosePlace,
           TapSave, CancelSave, CancelEdit, OpenDetail, OpenEdit, OpenPlace
  <2> QED
    BY <2>1, <2>2, <2>3 DEF Apart, CopyNamesList
<1>6. \A r \in reads' : OneKey(r.docs)
  BY <1>4, AskedDocs, NoKeys DEF Apart, KeysApart
<1> QED
  BY <1>1, <1>2, <1>3, <1>5, <1>6, FewerKeys DEF Apart, KeysApart
LEMMA NewKey ==
    ASSUME NEW d \in NewDocs
    PROVE  \A o \in history : o.doc # d
<1>1. DocsOf(history) \subseteq DocsOf(KeptDocs)
  BY DEF DocsOf, KeptDocs
<1> QED
  BY <1>1 DEF NewDocs, DocsOf

LEMMA ApartSave ==
    ASSUME TypeOK, CopiesKnowTheirDoc, Apart, NEW S \in SUBSET save.lists,
           NEW D \in SUBSET S,
           \/ SaveAgain(S, D)
           \/ \E d \in DocIds : SaveNew(S, D, d)
           \/ \E ts \in SUBSET Unchecked(S) : SaveTraps(S, D, ts)
    PROVE  Apart'
<1> USE DEF views, purges
<1>a. save.place \in Object /\ lists \in SUBSET ListDoc /\ OneHead(lists)
  BY DEF TypeOK, Apart
<1>b. ASSUME NEW i \in PlaceIds
      PROVE  Checked(S, i) \in SUBSET ListDoc /\ OneHead(Checked(S, i))
  BY <1>a, AddIdType, AddIdApart DEF Checked
<1>c. ASSUME NEW ls \in SUBSET ListDoc, OneHead(ls), NEW L
      PROVE  OneHead(Uncheck(ls, L))
  BY <1>c, RemoveIdsApart DEF Uncheck
<1>1. OneHead(lists')
  <2>1. save.place.id \in PlaceIds
    BY <1>a DEF Object
  <2>2. CASE SaveAgain(S, D)
    BY <2>1, <2>2, <1>b, <1>c DEF SaveAgain
  <2>3. ASSUME NEW d \in DocIds, SaveNew(S, D, d) PROVE OneHead(lists')
    BY <2>3, <1>b DEF SaveNew
  <2>4. ASSUME NEW ts \in SUBSET Unchecked(S), SaveTraps(S, D, ts) PROVE OneHead(lists')
    BY <2>1, <2>4, <1>b, <1>c DEF SaveTraps
  <2> QED
    BY <2>2, <2>3, <2>4
<1>2. OneKey(history')
  <2>1. OneKey(history)
    BY DEF Apart, KeysApart
  <2>2. OneKey(Resave(S, D))
    BY <1>a, <2>1, DeleteKeys, UpdatePlaceKeys DEF Resave
  <2>3. ASSUME NEW d \in DocIds, SaveNew(S, D, d) PROVE OneKey(history')
    <3> DEFINE new == [doc |-> d, place |-> save.place.place, id |-> NextId(save.ids),
                       list |-> TitlesOf(S), twice |-> Doubles(S, D)]
    <3>1. history' = history \cup {new} /\ new.doc = d /\ d \in NewDocs
      BY <2>3 DEF SaveNew, AddPlaceToHistory
    <3>2. \A o \in history : o.doc # d
      BY <3>1, NewKey
    <3> HIDE DEF new
    <3> QED
      BY <2>1, <3>1, <3>2 DEF OneKey
  <2> QED
    BY <2>2, <2>3 DEF SaveAgain, SaveTraps
<1>3. CopyNamesList'
  <2>1. save' = NoSave \/ save' = save
    BY DEF SaveAgain, SaveNew, SaveTraps, BackToPlace
  <2> QED
    BY <2>1 DEF NoSave, Blank, Unsaved, CopyNamesList, Apart
<1>4. reads' \subseteq reads /\ saved' = saved /\ edit' = edit
  BY DEF SaveAgain, SaveNew, SaveTraps, BackToPlace
<1> QED
  BY <1>1, <1>2, <1>3, <1>4 DEF Apart, KeysApart

LEMMA ApartEditDone ==
    ASSUME TypeOK, Apart, NEW R \in SUBSET edit.places, NEW t \in Titles, EditDone(R, t)
    PROVE  Apart'
<1> DEFINE old == edit.list.title
           kept == edit.places \ R
           removed == RemoveListFromSelectedPlaces(history, R, old)
           emptied == RemovePlacesFromLists(lists, {edit.list.lid}, IdsOf(R))
<1>a. /\ removed \in SUBSET HistoryDoc /\ OneKey(removed)
      /\ kept \in SUBSET HistoryDoc /\ OneKey(kept)
  BY RemoveSelectedType, RemoveSelectedKeys, FewerKeys DEF TypeOK, Apart, KeysApart
<1>b. emptied \in SUBSET ListDoc /\ OneHead(emptied)
  BY RemoveIdsType, RemoveIdsApart DEF TypeOK, Apart
<1>1. OneKey(history')
  <2>1. \/ history' = removed
        \/ \E M : history' = UpdateTitleInPlaces(removed, kept, old, t, M)
    BY DEF EditDone
  <2> HIDE DEF old, kept, removed
  <2> QED
    BY <1>a, <2>1, UpdateTitleKeys
<1>2. OneHead(lists')
  <2>1. CASE t = old
    BY <1>b, <2>1 DEF EditDone
  <2>2. CASE t # old
    <3>1. lists' = UpdateListTitle(emptied, edit.list.lid, t)
      BY <2>2 DEF EditDone
    <3> HIDE DEF emptied
    <3> QED
      BY <1>b, <3>1, UpdateListTitleApart
  <2> QED
    BY <2>1, <2>2
<1>3. OneKey(saved'.places)
  <2> DEFINE f(o, M) == IF o \in kept THEN Retitled(o, old, t, M) ELSE o
  <2>1. saved' = saved \/ \E M : saved'.places = {f(o, M) : o \in saved.places}
    BY DEF EditDone, TypeOK
  <2>2. \A o \in saved.places : \A M : f(o, M).doc = o.doc
    <3>1. saved.places \in SUBSET HistoryDoc
      BY DEF TypeOK
    <3>2. \A o \in HistoryDoc : \A M : Retitled(o, old, t, M).doc = o.doc
      BY RetitledSame DEF SameDoc
    <3> QED
      BY <3>1, <3>2
  <2> HIDE DEF f, kept, old
  <2> QED
    BY <2>1, <2>2 DEF Apart, KeysApart, OneKey
<1>4. edit'.places = {} /\ save' = save /\ reads' = reads \cup Ask(SavedReads)
  BY DEF EditDone, NoEdit, BackToSaved
<1>5. \A r \in reads' : OneKey(r.docs)
  BY <1>4, AskedDocs, NoKeys DEF Apart, KeysApart
<1> QED
  BY <1>1, <1>2, <1>3, <1>4, <1>5, NoKeys DEF Apart, KeysApart, CopyNamesList

\* The other edits.
LEMMA ApartOtherEdits ==
    ASSUME TypeOK, Apart,
           \/ \E l \in saved.lists : DeleteList(l)
           \/ \E lid \in ListIds, t \in Titles : NewList(lid, t)
           \/ \E o \in detail.rows : RemoveFromList(o) \/ DeleteEverywhere(o)
    PROVE  Apart'
<1> USE DEF views
<1>1. OneKey(history')
  <2>1. /\ OneKey(history) /\ history \in SUBSET HistoryDoc
    BY DEF Apart, KeysApart, TypeOK
  <2>2. \/ history' = history \/ \E d : history' = DeletePlace(history, d)
        \/ \E ds, t : history' = RemoveListInPlaces(history, ds, t)
    BY DEF DeleteList, NewList, RemoveFromList, DeleteEverywhere
  <2> QED
    BY <2>1, <2>2, DeleteKeys, RemoveInPlacesKeys
<1>2. OneHead(lists')
  <2>a. OneHead(lists) /\ lists \in SUBSET ListDoc
    BY DEF Apart, TypeOK
  <2>1. ASSUME NEW l \in saved.lists, DeleteList(l) PROVE OneHead(lists')
    BY <2>1, <2>a DEF DeleteList, DeleteListDoc, OneHead
  <2>2. ASSUME NEW lid \in ListIds, NEW t \in Titles, NewList(lid, t)
        PROVE  OneHead(lists')
    <3>1. lists' = lists \cup {[lid |-> lid, title |-> t, places |-> {}]}
      BY <2>2 DEF NewList, AddNewList
    <3>2. \A l \in lists : l.lid # lid
      <4>1. LidsOf(lists) \subseteq KeptLids
        BY DEF LidsOf, KeptLids
      <4> QED
        BY <2>2, <4>1 DEF NewList, NewLids, LidsOf
    <3> DEFINE new == [lid |-> lid, title |-> t, places |-> {}]
    <3>3. lists' = lists \cup {new} /\ new.lid = lid
      BY <3>1
    <3> HIDE DEF new
    <3> QED
      BY <2>a, <3>2, <3>3 DEF OneHead
  <2>3. ASSUME NEW o \in detail.rows, RemoveFromList(o) PROVE OneHead(lists')
    BY <2>3, <2>a, RemoveIdsApart DEF RemoveFromList
  <2>4. ASSUME NEW o \in detail.rows, DeleteEverywhere(o) PROVE OneHead(lists')
    BY <2>4, <2>a DEF DeleteEverywhere
  <2> QED
    BY <2>1, <2>2, <2>3, <2>4
<1>3. saved'.places = saved.places /\ edit' = edit /\ save' = save /\ reads' = reads
  BY DEF DeleteList, NewList, RemoveFromList, DeleteEverywhere, TypeOK
<1> QED
  BY <1>1, <1>2, <1>3 DEF Apart, KeysApart, CopyNamesList
\* A completion brings copies only of the history.
LEMMA ApartClient ==
    ASSUME TypeOK, Apart, Client
    PROVE  Apart'
<1> USE DEF stores, views, purges
<1>a. /\ OneKey(history) /\ OneKey(saved.places) /\ OneKey(edit.places)
      /\ \A r \in reads : OneKey(r.docs)
      /\ OneHead(lists) /\ CopyNamesList
  BY DEF Apart, KeysApart
<1>b. \A k : OneKey(DocsNow(k))
  <2>1. \A k : DocsNow(k) \subseteq history
    BY DEF DocsNow, PlacesAt
  <2> QED
    BY <1>a, <2>1, FewerKeys
<1>1. ASSUME NEW r \in reads, AnswerRead(r) \/ FailRead(r)
      PROVE  Apart'
  <2>1. r \in Read
    BY DEF TypeOK
  <2>2. \/ reads' = (reads \ {r})
                    \cup {[r EXCEPT !.answered = TRUE, !.docs = DocsNow(r.kind),
                                    !.lists = ListsNow(r.kind)]}
        \/ reads' = (reads \ {r}) \cup {[r EXCEPT !.answered = TRUE]}
    BY <1>1 DEF AnswerRead, FailRead
  <2>3. /\ [r EXCEPT !.answered = TRUE, !.docs = DocsNow(r.kind),
                     !.lists = ListsNow(r.kind)].docs = DocsNow(r.kind)
        /\ [r EXCEPT !.answered = TRUE].docs = r.docs
    BY <2>1 DEF Read
  <2>4. \A q \in reads' : OneKey(q.docs)
    BY <1>a, <1>b, <2>2, <2>3
  <2>5. UNCHANGED <<history, lists, saved, edit, save>>
    BY <1>1 DEF AnswerRead, FailRead
  <2> QED
    BY <1>a, <2>4, <2>5 DEF Apart, KeysApart, CopyNamesList
<1>2. ASSUME NEW r \in reads, DeliverRead(r)
      PROVE  Apart'
  <2>1. OneKey(DocsOfRead(r))
    BY <1>a, <1>b DEF DocsOfRead
  <2>2. saved'.places = saved.places \/ saved'.places = DocsOfRead(r)
    BY <1>2 DEF DeliverRead, DeliverLists, DeliverHistory, ShowHistory,
       DeliverSaveLists, DeliverSaveIds, DeliverAddress, TypeOK
  <2>3. save'.already = save.already /\ save'.place = save.place
    BY <1>2 DEF DeliverRead, DeliverLists, DeliverHistory, DeliverSaveLists,
       DeliverSaveIds, DeliverAddress, TypeOK
  <2>4. UNCHANGED <<history, lists, edit>> /\ reads' \subseteq reads
    BY <1>2 DEF DeliverRead, DeliverLists, DeliverHistory, DeliverSaveLists,
       DeliverSaveIds, DeliverAddress
  <2> QED
    BY <1>a, <2>1, <2>2, <2>3, <2>4 DEF Apart, KeysApart, CopyNamesList
<1>3. ASSUME NEW a \in acks, DeliverAck(a)
      PROVE  Apart'
  <2>1. /\ saved'.places = saved.places
        /\ save'.already = save.already /\ save'.place = save.place
    BY <1>3 DEF DeliverAck, TypeOK
  <2>2. UNCHANGED <<history, lists, edit, reads>>
    BY <1>3 DEF DeliverAck
  <2> QED
    BY <1>a, <2>1, <2>2 DEF Apart, KeysApart, CopyNamesList
<1>4. ASSUME PurgeStep \/ FailPurge
      PROVE  Apart'
  <2>1. OneKey(history')
    <3>1. \/ history' = history
          \/ \E os, t : history' = RemoveListFromSelectedPlaces(history, os, t)
      BY <1>4 DEF PurgeStep, FailPurge, AnswerListPurge, DeliverListPurge,
         PurgeTraps, AnswerPlacePurge, DeliverPlacePurge
    <3> QED
      BY <1>a, <3>1, RemoveSelectedKeys DEF TypeOK
  <2>2. OneHead(lists')
    <3>1. \/ lists' = lists
          \/ \E lids, ids : lists' = RemovePlacesFromLists(lists, lids, ids)
      BY <1>4 DEF PurgeStep, FailPurge, AnswerListPurge, DeliverListPurge,
         PurgeTraps, AnswerPlacePurge, DeliverPlacePurge
    <3> QED
      BY <1>a, <3>1, RemoveIdsApart DEF TypeOK
  <2>3. saved'.places \subseteq saved.places
    BY <1>4 DEF PurgeStep, FailPurge, AnswerListPurge, DeliverListPurge,
       PurgeTraps, AnswerPlacePurge, DeliverPlacePurge, DropById, TypeOK
  <2>4. UNCHANGED <<edit, reads, save>>
    BY <1>4 DEF PurgeStep, FailPurge, AnswerListPurge, DeliverListPurge,
       PurgeTraps, AnswerPlacePurge, DeliverPlacePurge
  <2> QED
    BY <1>a, <2>1, <2>2, <2>3, <2>4, FewerKeys DEF Apart, KeysApart, CopyNamesList
<1> QED
  BY <1>1, <1>2, <1>3, <1>4 DEF Client

LEMMA ApartStep ==
    ASSUME TypeOK, CopiesKnowTheirDoc, Apart, [Next]_vars
    PROVE  Apart'
<1>1. CASE Edit
  BY <1>1, ApartSave, ApartEditDone, ApartOtherEdits DEF Edit
<1>2. CASE Look \/ Client
  BY <1>2, ApartLook, ApartClient
<1>3. CASE Relaunch
  <2>1. /\ UNCHANGED <<history, lists>> /\ saved'.places = {} /\ edit'.places = {}
        /\ reads' = {} /\ ~save'.already /\ save'.place.list = {}
    BY <1>3 DEF Relaunch, stores, NoSaved, NoEdit, NoSave, Blank, Unsaved
  <2> QED
    BY <2>1, NoKeys DEF Apart, KeysApart, CopyNamesList
<1>4. CASE UNCHANGED vars
  BY <1>4 DEF vars, Apart, KeysApart, CopyNamesList
<1> QED
  BY <1>1, <1>2, <1>3, <1>4 DEF Next

\* In the history, on every screen and in every answer under way a document is
\* there once, and a list is there once; SavePlaceView edits only copies that
\* name a list.  Of the titles nothing of the kind holds: two lists may have one.
THEOREM AlwaysApart == Spec => []Apart
<1>1. TypeOK /\ CopiesKnowTheirDoc /\ Apart /\ [Next]_vars => Apart'
  BY ApartStep
<1> QED
  BY ApartInit, TypeCorrect, SavesHaveDocument, <1>1, PTL DEF Spec
-----------------------------------------------------------------------------
(* Ids and documents: only a Done that does not know what is in use doubles *)
(* one.                                                                     *)

\* A place id that is allocated is above those it was allocated over.
LEMMA NextIdNew ==
    ASSUME NEW ids \in SUBSET PlaceIds
    PROVE  NextId(ids) \notin ids
<1> DEFINE all == ids \cup {0}
           T == {k \in Nat : \E i \in all : k = MaxId - i}
           R == OpToRel(<, Nat)
<1>1. all \subseteq 0..MaxId /\ MaxId \in Nat
  BY BoundAssumption DEF PlaceIds
<1>2. \A i \in all : MaxId - i \in T
  BY <1>1
<1>3. T \subseteq Nat /\ T # {}
  BY <1>2
<1>4. PICK k \in T : \A m \in T : ~(<<m, k>> \in R)
  <2>1. IsWellFoundedOn(R, Nat)
    BY NatLessThanWellFounded
  <2> HIDE DEF R, T
  <2> QED
    BY <1>3, <2>1, WFMin
<1>5. \A m \in T : ~(m < k)
  BY <1>4 DEF OpToRel
<1>6. PICK i \in all : k = MaxId - i
  BY <1>4
<1>7. \A j \in all : j <= i
  BY <1>1, <1>2, <1>5, <1>6
<1> HIDE DEF all
<1>8. PICK m \in all : /\ \A j \in all : j <= m
                       /\ NextId(ids) = 1 + m
  BY <1>7 DEF NextId, all
<1> QED
  BY <1>1, <1>8 DEF all

\* Every step but a Done keeps what tells documents apart.
LEMMA HistoryFrom ==
    ASSUME TypeOK, Apart, [Next]_vars,
           ~ \E S \in SUBSET save.lists : \E D \in SUBSET S :
                \/ SaveAgain(S, D)
                \/ \E d \in DocIds : SaveNew(S, D, d)
                \/ \E ts \in SUBSET Unchecked(S) : SaveTraps(S, D, ts),
           ~ \E R \in SUBSET edit.places, t \in Titles : EditDone(R, t)
    PROVE  From(history', history)
<1> USE DEF stores, views, purges
<1>a. OneKey(history) /\ history \in SUBSET HistoryDoc
  BY DEF Apart, KeysApart, TypeOK
<1>b. From(history, history)
  BY DEF From, SameDoc
<1>1. CASE Edit
  <2>1. \/ history' = history \/ \E d : history' = DeletePlace(history, d)
        \/ \E ds, t : history' = RemoveListInPlaces(history, ds, t)
    BY <1>1 DEF Edit, DeleteList, NewList, RemoveFromList, DeleteEverywhere
  <2> QED
    BY <1>a, <1>b, <2>1, DeleteKeys, RemoveInPlacesKeys
<1>2. CASE Look
  BY <1>2, <1>b DEF Look, OpenSaved, CloseSaved, OpenRecent, CloseDetail, ClosePlace,
     TapSave, CancelSave, CancelEdit, OpenDetail, OpenEdit, OpenPlace
<1>3. CASE Client
  <2>1. \/ history' = history
        \/ \E os, t : history' = RemoveListFromSelectedPlaces(history, os, t)
    BY <1>3 DEF Client, AnswerRead, FailRead, DeliverRead, DeliverLists,
       DeliverHistory, DeliverSaveLists, DeliverSaveIds, DeliverAddress, DeliverAck,
       PurgeStep, FailPurge, AnswerListPurge, DeliverListPurge, PurgeTraps,
       AnswerPlacePurge, DeliverPlacePurge
  <2> QED
    BY <1>a, <1>b, <2>1, RemoveSelectedKeys
<1>4. CASE Relaunch \/ UNCHANGED vars
  BY <1>4, <1>b DEF Relaunch, vars
<1> QED
  BY <1>1, <1>2, <1>3, <1>4 DEF Next

\* A document is written over with the copy o of it.
LEMMA OverwriteApart ==
    ASSUME NEW h, NEW o \in Object, NEW ts, NEW dups, NEW h2,
           h2 = DeletePlace(h, o.doc) \/ h2 = UpdatePlace(h, o, ts, dups)
    PROVE  /\ /\ Unique(h)
              /\ \A q \in h : q.id = o.id => q.doc = o.doc
              => Unique(h2)
           /\ /\ OneEach(h)
              /\ \A q \in h : q.place = o.place => q.doc = o.doc
              => OneEach(h2)
<1> DEFINE new == [o EXCEPT !.list = ts, !.twice = dups]
           rest == {q \in h : q.doc # o.doc}
<1>1. new.id = o.id /\ new.place = o.place
  BY DEF Object
<1>2. h2 = rest \/ h2 = rest \cup {new}
  BY DEF DeletePlace, UpdatePlace
<1> HIDE DEF new
<1> QED
  BY <1>1, <1>2 DEF Unique, OneEach

LEMMA KnownSave ==
    ASSUME TypeOK, CopiesKnowTheirDoc, Apart, NEW S \in SUBSET save.lists,
           NEW D \in SUBSET S,
           \/ SaveAgain(S, D)
           \/ \E d \in DocIds : SaveNew(S, D, d)
           \/ \E ts \in SUBSET Unchecked(S) : SaveTraps(S, D, ts)
    PROVE  /\ Unique(history) /\ KnowsIds => Unique(history')
           /\ OneEach(history) /\ KnowsDoc => OneEach(history')
<1>a. screen = "save" /\ save.place \in Object /\ save.ids \in SUBSET PlaceIds
  BY DEF SaveAgain, SaveNew, SaveTraps, TypeOK
<1>1. CASE save.already /\ history' = Resave(S, D)
  <2>1. KnowsIds => \A q \in history : q.id = save.place.id => q.doc = save.place.doc
    BY <1>a, <1>1 DEF KnowsIds
  <2>2. KnowsDoc => \A q \in history : q.place = save.place.place => q.doc = save.place.doc
    BY <1>a, <1>1 DEF KnowsDoc, DocsOf, PlacesAt
  <2>3. \/ history' = DeletePlace(history, save.place.doc)
        \/ history' = UpdatePlace(history, save.place, TitlesOf(S), Doubles(S, D))
    BY <1>1 DEF Resave
  <2> QED
    BY <1>a, <2>1, <2>2, <2>3, OverwriteApart
<1>2. ASSUME NEW d \in DocIds, SaveNew(S, D, d)
      PROVE  /\ Unique(history) /\ KnowsIds => Unique(history')
             /\ OneEach(history) /\ KnowsDoc => OneEach(history')
  <2> DEFINE new == [doc |-> d, place |-> save.place.place, id |-> NextId(save.ids),
                     list |-> TitlesOf(S), twice |-> Doubles(S, D)]
  <2>1. /\ history' = history \cup {new} /\ ~save.already
        /\ new.id = NextId(save.ids) /\ new.place = save.place.place
    BY <1>2 DEF SaveNew, AddPlaceToHistory
  <2>2. KnowsIds => \A q \in history : q.id # new.id
    BY <1>a, <2>1, NextIdNew DEF KnowsIds, IdsOf
  <2>3. KnowsDoc => \A q \in history : q.place # new.place
    BY <1>a, <2>1 DEF KnowsDoc, DocsOf, PlacesAt
  <2> HIDE DEF new
  <2> QED
    BY <2>1, <2>2, <2>3 DEF Unique, OneEach
<1> QED
  BY <1>1, <1>2 DEF SaveAgain, SaveTraps

\* The copies os are written back, their titles changed.
LEMMA WrittenBackApart ==
    ASSUME NEW h, NEW as, NEW os \in SUBSET HistoryDoc, NEW old, NEW new, NEW M,
           OneKey(as), From(as, h), OneKey(os)
    PROVE  /\ /\ Unique(h)
              /\ \A o \in os, q \in h \cup os : o.id = q.id => o.doc = q.doc
              => Unique(UpdateTitleInPlaces(as, os, old, new, M))
           /\ /\ OneEach(h)
              /\ \A o \in os, q \in h \cup os : o.place = q.place => o.doc = q.doc
              => OneEach(UpdateTitleInPlaces(as, os, old, new, M))
<1> DEFINE rest == {o \in as : o.doc \notin DocsOf(os)}
           back == {Retitled(o, old, new, M) : o \in os}
<1>1. UpdateTitleInPlaces(as, os, old, new, M) = rest \cup back
  BY DEF UpdateTitleInPlaces
<1>a. \A q \in os : SameDoc(Retitled(q, old, new, M), q)
  BY RetitledSame
<1>2. \A o \in back : \E q \in os : o = Retitled(q, old, new, M) /\ SameDoc(o, q)
  BY <1>a
<1>3. \A o \in rest : /\ \E q \in h : SameDoc(o, q)
                      /\ \A q \in os : q.doc # o.doc
  BY DEF From, DocsOf
<1>4. Unique(as) /\ OneKey(rest) => Unique(rest)
  BY DEF Unique
<1>5. /\ Unique(h) => Unique(as)
      /\ OneEach(h) => OneEach(as)
  BY FromApart
<1> HIDE DEF rest, back
<1>6. ASSUME Unique(h),
             \A o \in os, q \in h \cup os : o.id = q.id => o.doc = q.doc,
             NEW o1 \in rest \cup back, NEW o2 \in rest \cup back, o1.id = o2.id
      PROVE  o1 = o2
  <2>1. CASE o1 \in rest /\ o2 \in rest
    BY <1>5, <1>6, <2>1 DEF rest, Unique
  <2>2. CASE o1 \in back /\ o2 \in back
    BY <1>2, <1>6, <2>2 DEF SameDoc, OneKey
  <2>3. CASE o1 \in rest /\ o2 \in back
    BY <1>2, <1>3, <1>6, <2>3 DEF SameDoc
  <2>4. CASE o1 \in back /\ o2 \in rest
    BY <1>2, <1>3, <1>6, <2>4 DEF SameDoc
  <2> QED
    BY <2>1, <2>2, <2>3, <2>4
<1>7. ASSUME OneEach(h),
             \A o \in os, q \in h \cup os : o.place = q.place => o.doc = q.doc,
             NEW o1 \in rest \cup back, NEW o2 \in rest \cup back, o1.place = o2.place
      PROVE  o1 = o2
  <2>1. CASE o1 \in rest /\ o2 \in rest
    BY <1>5, <1>7, <2>1 DEF rest, OneEach
  <2>2. CASE o1 \in back /\ o2 \in back
    BY <1>2, <1>7, <2>2 DEF SameDoc, OneKey
  <2>3. CASE o1 \in rest /\ o2 \in back
    BY <1>2, <1>3, <1>7, <2>3 DEF SameDoc
  <2>4. CASE o1 \in back /\ o2 \in rest
    BY <1>2, <1>3, <1>7, <2>4 DEF SameDoc
  <2> QED
    BY <2>1, <2>2, <2>3, <2>4
<1> QED
  BY <1>1, <1>6, <1>7 DEF Unique, OneEach

LEMMA KnownEdit ==
    ASSUME TypeOK, Apart, NEW R \in SUBSET edit.places, NEW t \in Titles, EditDone(R, t)
    PROVE  /\ Unique(history) /\ KnowsIds => Unique(history')
           /\ OneEach(history) /\ KnowsDoc => OneEach(history')
<1> DEFINE old == edit.list.title
           kept == edit.places \ R
           removed == RemoveListFromSelectedPlaces(history, R, old)
<1>1. /\ OneKey(removed) /\ From(removed, history)
      /\ kept \in SUBSET HistoryDoc /\ OneKey(kept)
  BY RemoveSelectedKeys, FewerKeys DEF TypeOK, Apart, KeysApart
<1>2. \/ history' = removed
      \/ \E M : history' = UpdateTitleInPlaces(removed, kept, old, t, M)
  BY DEF EditDone
<1>3. screen = "edit" /\ kept \subseteq edit.places
  BY DEF EditDone
<1>4. /\ KnowsIds => \A o \in kept, q \in history \cup kept : o.id = q.id => o.doc = q.doc
      /\ KnowsDoc => \A o \in kept, q \in history \cup kept :
                        o.place = q.place => o.doc = q.doc
  BY <1>3 DEF KnowsIds, KnowsDoc
<1> HIDE DEF old, kept, removed
<1> QED
  BY <1>1, <1>2, <1>4, FromApart, WrittenBackApart

LEMMA KnownStep ==
    ASSUME TypeOK, CopiesKnowTheirDoc, Apart, [Next]_vars
    PROVE  /\ UniqueIds /\ KnowsIds => UniqueIds'
           /\ OneDocPerPlace /\ KnowsDoc => OneDocPerPlace'
<1>1. /\ UniqueIds <=> Unique(history)
      /\ OneDocPerPlace <=> OneEach(history)
      /\ UniqueIds' <=> Unique(history')
      /\ OneDocPerPlace' <=> OneEach(history')
  BY DEF UniqueIds, OneDocPerPlace, Unique, OneEach
<1>2. ASSUME From(history', history)
      PROVE  /\ Unique(history) => Unique(history')
             /\ OneEach(history) => OneEach(history')
  BY <1>2, ApartStep, FromApart DEF Apart, KeysApart
<1> QED
  BY <1>1, <1>2, HistoryFrom, KnownSave, KnownEdit

\* No step makes two places share an id, or gives a place a second document,
\* unless it is a Done that does not know the ids in use, or the document the
\* place has: whatever reads are late, fail or are never answered.
THEOREM OnlyUnknownDoubles == Spec => DoubledOnlyUnknown
<1>1. TypeOK /\ CopiesKnowTheirDoc /\ Apart /\ [Next]_vars
        => [/\ UniqueIds /\ KnowsIds => UniqueIds'
            /\ OneDocPerPlace /\ KnowsDoc => OneDocPerPlace']_vars
  BY KnownStep
<1> QED
  BY TypeCorrect, SavesHaveDocument, AlwaysApart, <1>1, PTL DEF Spec, DoubledOnlyUnknown
-----------------------------------------------------------------------------
(* The relation.  What Fresh says of a screen, and then each kind of step:  *)
(* every title of a document stays backed by a list, every id of a list by  *)
(* a document, and no document is left in no list.                          *)

Fresh == Intact /\ TitlesApart /\ FreshScreen /\ FreshCells /\ FreshPurges

Related == TitlesBacked /\ IdsBacked /\ NoOrphan

\* Each of ls has its own key and its own title.
OwnTitle(ls) == \A l1, l2 \in ls : l1.lid = l2.lid \/ l1.title = l2.title => l1 = l2

LEMMA FreshLists ==
    ASSUME Apart, Fresh
    PROVE  OwnTitle(lists) /\ \A o \in history : o.twice = {}
BY DEF Apart, OneHead, Fresh, TitlesApart, OwnTitle

\* The document SavePlaceView edits is the document it was opened on, or there
\* is none for the place.
LEMMA FreshSave ==
    ASSUME TypeOK, CopiesKnowTheirDoc, Apart, Fresh, screen = "save"
    PROVE  /\ Heads(save.lists) = Heads(lists) /\ save.ids = IdsOf(history)
           /\ save.place.list \subseteq TitlesOf(lists)
           /\ save.already => save.place \in history /\ save.place.list # {}
           /\ ~save.already => /\ save.place.list = {}
                               /\ PlacesAt(history, save.place.place) = {}
<1>1. /\ Heads(save.lists) = Heads(lists) /\ save.ids = IdsOf(history)
      /\ save.place.list \subseteq TitlesOf(lists)
      /\ \/ save.place \in history
         \/ save.place.doc = NoKey /\ PlacesAt(history, save.place.place) = {}
  BY DEF Fresh, FreshScreen
<1>2. CASE save.already
  BY <1>1, <1>2, KeyAssumption DEF CopiesKnowTheirDoc, Apart, CopyNamesList
<1>3. CASE ~save.already
  BY <1>1, <1>3 DEF Apart, CopyNamesList, Fresh, Intact, NoOrphan
<1> QED
  BY <1>1, <1>2, <1>3

LEMMA FreshKnows ==
    ASSUME TypeOK, CopiesKnowTheirDoc, Apart, Fresh
    PROVE  KnowsIds /\ KnowsDoc
<1>a. UniqueIds /\ OneDocPerPlace
  BY DEF Fresh, Intact
<1>1. CASE screen = "save"
  <2>1. CASE save.already
    BY <1>a, <1>1, <2>1, FreshSave
       DEF KnowsIds, KnowsDoc, UniqueIds, OneDocPerPlace, DocsOf, PlacesAt
  <2>2. CASE ~save.already
    BY <1>1, <2>2, FreshSave DEF KnowsIds, KnowsDoc, DocsOf
  <2> QED
    BY <2>1, <2>2
<1>2. CASE screen = "edit"
  <2>1. edit.places \subseteq history
    BY <1>2 DEF Fresh, FreshScreen, PlacesInList
  <2> QED
    BY <1>a, <1>2, <2>1 DEF KnowsIds, KnowsDoc, UniqueIds, OneDocPerPlace
<1>3. CASE screen # "save" /\ screen # "edit"
  BY <1>3 DEF KnowsIds, KnowsDoc
<1> QED
  BY <1>1, <1>2, <1>3

\* The list that a copy with the key and title of one was made of.
LEMMA ListOf ==
    ASSUME NEW ls, Heads(ls) \subseteq Heads(lists), NEW l \in ls
    PROVE  \E m \in lists : m.lid = l.lid /\ m.title = l.title
BY HeadsSubset

\* A deleted list is replaced by its purge.
LEMMA IntactDeleteList ==
    ASSUME TypeOK, Apart, Fresh, NEW l \in saved.lists, DeleteList(l)
    PROVE  Related'
<1> DEFINE purge == [title |-> l.title, own |-> TRUE, answered |-> FALSE, docs |-> {}]
<1>a. TitlesBacked /\ IdsBacked /\ NoOrphan /\ OwnTitle(lists)
  BY FreshLists DEF Fresh, Intact
<1>1. /\ history' = history /\ lists' = {m \in lists : m.lid # l.lid}
      /\ listPurges' = listPurges \cup {purge} /\ placePurges' = placePurges
      /\ purge.title = l.title /\ ~purge.answered
  BY DEF DeleteList, DeleteListDoc
<1> HIDE DEF purge
<1>2. PICK m \in lists : m.lid = l.lid /\ m.title = l.title
  BY ListOf DEF Fresh, FreshScreen, DeleteList
<1>3. ASSUME NEW o \in history, NEW t \in o.list
      PROVE  \/ BeingPurged(o, t)'
             \/ \E k \in lists' : k.title = t /\ o.id \in k.places
  <2>1. CASE BeingPurged(o, t)
    BY <1>1, <2>1 DEF BeingPurged
  <2>2. ASSUME NEW k \in lists, k.title = t, o.id \in k.places
        PROVE  \/ BeingPurged(o, t)'
               \/ \E j \in lists' : j.title = t /\ o.id \in j.places
    <3>1. CASE k.lid # l.lid
      BY <1>1, <2>2, <3>1
    <3>2. CASE k.lid = l.lid
      <4>1. t = l.title
        BY <1>2, <1>a, <2>2, <3>2 DEF OwnTitle
      <4> QED
        BY <1>1, <4>1 DEF BeingPurged
    <3> QED
      BY <3>1, <3>2
  <2> QED
    BY <1>a, <2>1, <2>2 DEF TitlesBacked
<1>4. TitlesBacked'
  BY <1>1, <1>3 DEF TitlesBacked
<1>5. IdsBacked' /\ NoOrphan'
  BY <1>a, <1>1 DEF IdsBacked, NoOrphan, BeingTakenOut
<1> QED
  BY <1>4, <1>5 DEF Related

LEMMA IntactNewList ==
    ASSUME TypeOK, Fresh, NEW lid \in ListIds, NEW t \in Titles, NewList(lid, t)
    PROVE  Related'
<1> DEFINE new == [lid |-> lid, title |-> t, places |-> {}]
<1>a. TitlesBacked /\ IdsBacked /\ NoOrphan
  BY DEF Fresh, Intact
<1>1. /\ history' = history /\ lists' = lists \cup {new} /\ new.places = {}
      /\ listPurges' = listPurges /\ placePurges' = placePurges
  BY DEF NewList, AddNewList, purges
<1> HIDE DEF new
<1>2. TitlesBacked'
  BY <1>a, <1>1 DEF TitlesBacked, BeingPurged
<1>3. IdsBacked'
  BY <1>a, <1>1 DEF IdsBacked, BeingTakenOut
<1> QED
  BY <1>a, <1>1, <1>2, <1>3 DEF NoOrphan, Related
\* The list l with other places.
Row(k, l, ps) == k.lid = l.lid /\ k.title = l.title /\ k.places = ps

\* The places of the list l once ids leave the lists lids, or i enters them.
Left(l, lids, ids) == IF l.lid \in lids THEN l.places \ ids ELSE l.places
More(l, lids, i) == IF l.lid \in lids THEN l.places \cup {i} ELSE l.places

LEMMA RemoveIdsIs ==
    ASSUME NEW ls \in SUBSET ListDoc, NEW lids, NEW ids, NEW now,
           now = RemovePlacesFromLists(ls, lids, ids)
    PROVE  /\ \A l \in ls : \E k \in now : Row(k, l, Left(l, lids, ids))
           /\ \A k \in now : \E l \in ls : Row(k, l, Left(l, lids, ids))
<1> DEFINE f(l) == IF l.lid \in lids THEN [l EXCEPT !.places = @ \ ids] ELSE l
<1>1. \A l \in ls : Row(f(l), l, Left(l, lids, ids))
  BY DEF ListDoc, Row, Left
<1>2. now = {f(l) : l \in ls}
  BY DEF RemovePlacesFromLists
<1> HIDE DEF f
<1> QED
  BY <1>1, <1>2

LEMMA AddIdIs ==
    ASSUME NEW ls \in SUBSET ListDoc, NEW lids, NEW i, NEW now,
           now = AddNewPlaceToLists(ls, lids, i)
    PROVE  /\ \A l \in ls : \E k \in now : Row(k, l, More(l, lids, i))
           /\ \A k \in now : \E l \in ls : Row(k, l, More(l, lids, i))
<1> DEFINE f(l) == IF l.lid \in lids THEN [l EXCEPT !.places = @ \cup {i}] ELSE l
<1>1. \A l \in ls : Row(f(l), l, More(l, lids, i))
  BY DEF ListDoc, Row, More
<1>2. now = {f(l) : l \in ls}
  BY DEF AddNewPlaceToLists
<1> HIDE DEF f
<1> QED
  BY <1>1, <1>2

\* removePlaceFromList, and the document without the title or without its last.
LEMMA IntactRemoveFromList ==
    ASSUME TypeOK, Apart, Fresh, NEW o \in detail.rows, RemoveFromList(o)
    PROVE  Related'
<1> DEFINE T == detail.list.title
           lid == detail.list.lid
<1>a. /\ TitlesBacked /\ IdsBacked /\ NoOrphan /\ UniqueIds
      /\ OneKey(history) /\ OwnTitle(lists)
      /\ history \in SUBSET HistoryDoc /\ lists \in SUBSET ListDoc
      /\ \A h \in history : h.twice = {}
  BY FreshLists DEF Fresh, Intact, Apart, KeysApart, TypeOK
<1>b. detail.list # BlankList
  BY DEF RemoveFromList, BlankList
<1>1. /\ Heads({detail.list}) \subseteq Heads(lists)
      /\ o \in history /\ T \in o.list
  BY <1>b DEF RemoveFromList, Fresh, FreshScreen, PlacesInList
<1>2. PICK L \in lists : L.lid = lid /\ L.title = T
  BY <1>1, ListOf
<1>3. /\ listPurges' = listPurges /\ placePurges' = placePurges
      /\ lists' = RemovePlacesFromLists(lists, {lid}, {o.id})
      /\ history' = IF o.list = {T} THEN DeletePlace(history, o.doc)
                    ELSE RemoveListInPlaces(history, {o.doc}, T)
  <2>1. InOneList(o) <=> o.list = {T}
    BY <1>1, <1>a DEF InOneList
  <2> QED
    BY <2>1 DEF RemoveFromList, purges
<1> HIDE DEF T, lid
\* What is left of the history: o without T, if that is something.
<1>4. ASSUME NEW h \in history
      PROVE  /\ h # o => h \in history'
             /\ h = o /\ o.list # {T} =>
                  \E q \in history' : SameDoc(q, o) /\ q.list = o.list \ {T}
  <2>1. h # o => h.doc # o.doc
    BY <1>1, <1>a DEF OneKey
  <2>2. CASE o.list = {T}
    BY <1>3, <2>1, <2>2 DEF DeletePlace
  <2>3. CASE o.list # {T}
    <3>1. history' = {Less(q, {o.doc}, T) : q \in history}
      BY <1>3, <2>3, RemoveInPlacesIs
    <3>2. h # o => Less(h, {o.doc}, T) = h
      BY <2>1 DEF Less
    <3>3. SameDoc(Less(o, {o.doc}, T), o) /\ Less(o, {o.doc}, T).list = o.list \ {T}
      BY <1>1, <1>a, LessIs
    <3> QED
      BY <1>1, <3>1, <3>2, <3>3
  <2> QED
    BY <2>2, <2>3
<1>5. ASSUME NEW q \in history'
      PROVE  \/ q \in history /\ q # o
             \/ SameDoc(q, o) /\ q.list = o.list \ {T} /\ o.list # {T}
  <2>1. CASE o.list = {T}
    BY <1>3, <2>1 DEF DeletePlace
  <2>2. CASE o.list # {T}
    <3>1. PICK h \in history : q = Less(h, {o.doc}, T)
      BY <1>3, <2>2, RemoveInPlacesIs
    <3>2. CASE h = o
      BY <1>a, <2>2, <3>1, <3>2, LessIs, ZenonT(40)
    <3>3. CASE h # o
      <4>1. h.doc # o.doc
        BY <1>1, <1>a, <3>3 DEF OneKey
      <4> QED
        BY <3>1, <3>3, <4>1 DEF Less
    <3> QED
      BY <3>2, <3>3
  <2> QED
    BY <2>1, <2>2
<1> DEFINE left(l) == IF l.lid \in {lid} THEN l.places \ {o.id} ELSE l.places
<1>6. /\ \A l \in lists : \E k \in lists' : Row(k, l, left(l))
      /\ \A k \in lists' : \E l \in lists : Row(k, l, left(l))
  <2>1. /\ \A l \in lists : \E k \in lists' : Row(k, l, Left(l, {lid}, {o.id}))
        /\ \A k \in lists' : \E l \in lists : Row(k, l, Left(l, {lid}, {o.id}))
    <3>1. PICK one, ids : one = {lid} /\ ids = {o.id}
      OBVIOUS
    <3>2. lists' = RemovePlacesFromLists(lists, one, ids)
      BY <1>3, <3>1
    <3>3. /\ \A l \in lists : \E k \in lists' : Row(k, l, Left(l, one, ids))
          /\ \A k \in lists' : \E l \in lists : Row(k, l, Left(l, one, ids))
      BY <1>a, <3>2, RemoveIdsIs
    <3> QED
      BY <3>1, <3>3
  <2>2. \A l : Left(l, {lid}, {o.id}) = left(l)
    BY DEF Left
  <2> HIDE DEF left
  <2> QED
    BY <2>1, <2>2
<1>7. TitlesBacked'
  <2> SUFFICES ASSUME NEW q \in history', NEW t \in q.list
               PROVE  BeingPurged(q, t)' \/ \E k \in lists' : k.title = t /\ q.id \in k.places
    BY DEF TitlesBacked
  <2>1. PICK h \in history : /\ SameDoc(q, h) /\ t \in h.list
                             /\ h = o => t # T
    BY <1>1, <1>5 DEF SameDoc
  <2>2. CASE BeingPurged(h, t)
    BY <1>3, <2>1, <2>2 DEF BeingPurged, SameDoc
  <2>3. ASSUME NEW l \in lists, l.title = t, h.id \in l.places
        PROVE  \E k \in lists' : k.title = t /\ q.id \in k.places
    <3>1. l.lid = lid => h.id # o.id
      <4>1. l.lid = lid => t = T
        BY <1>2, <1>a, <2>3 DEF OwnTitle
      <4> QED
        BY <1>1, <1>a, <2>1, <4>1 DEF UniqueIds
    <3>2. h.id \in left(l)
      BY <2>3, <3>1
    <3> HIDE DEF left
    <3> QED
      BY <1>6, <2>1, <2>3, <3>2 DEF Row, SameDoc
  <2>4. BeingPurged(h, t) \/ \E l \in lists : l.title = t /\ h.id \in l.places
    BY <1>a, <2>1 DEF TitlesBacked
  <2> QED
    BY <2>2, <2>3, <2>4
<1>8. IdsBacked'
  <2> SUFFICES ASSUME NEW k \in lists', NEW i \in k.places
               PROVE  BeingTakenOut(k, i)' \/ \E q \in history' : q.id = i /\ k.title \in q.list
    BY DEF IdsBacked
  <2>1. PICK l \in lists : Row(k, l, left(l))
    BY <1>6
  <2>2. i \in l.places /\ (l.lid = lid => i # o.id)
    BY <2>1 DEF Row
  <2>3. CASE BeingTakenOut(l, i)
    BY <1>3, <2>1, <2>3 DEF BeingTakenOut, Row
  <2>4. ASSUME NEW h \in history, h.id = i, l.title \in h.list
        PROVE  \E q \in history' : q.id = i /\ k.title \in q.list
    <3>1. CASE h # o
      BY <1>4, <2>1, <2>4, <3>1 DEF Row
    <3>2. CASE h = o
      <4>1. l.title # T
        BY <1>2, <1>a, <2>2, <2>4, <3>2 DEF OwnTitle
      <4> QED
        BY <1>4, <2>1, <2>4, <3>2, <4>1 DEF Row, SameDoc
    <3> QED
      BY <3>1, <3>2
  <2> QED
    BY <1>a, <2>2, <2>3, <2>4 DEF IdsBacked
<1>9. NoOrphan'
  <2>1. o.list # {T} => o.list \ {T} # {}
    BY <1>1
  <2> QED
    BY <1>a, <1>5, <2>1 DEF NoOrphan
<1> QED
  BY <1>7, <1>8, <1>9 DEF Related

\* The document goes, its place purge takes it out of its lists.
LEMMA IntactDeleteEverywhere ==
    ASSUME TypeOK, Apart, Fresh, NEW o \in detail.rows, DeleteEverywhere(o)
    PROVE  Related' /\ crashed' = crashed
<1> DEFINE purge == [id |-> o.id, titles |-> o.list, answered |-> FALSE, lids |-> {}]
<1>a. /\ TitlesBacked /\ IdsBacked /\ NoOrphan
      /\ OneKey(history) /\ lists \in SUBSET ListDoc
  BY DEF Fresh, Intact, Apart, KeysApart, TypeOK
<1>1. o \in history
  <2>1. detail.list = BlankList
    <3>1. detail.list \in AnyList /\ detail.list.lid = NoKey
      BY DEF DeleteEverywhere, TypeOK
    <3> QED
      BY <3>1, KeyAssumption DEF AnyList, ListDoc
  <2> QED
    BY <2>1 DEF DeleteEverywhere, Fresh, FreshScreen
<1>2. /\ history' = DeletePlace(history, o.doc) /\ crashed' = crashed
      /\ placePurges' = placePurges \cup {purge}
      /\ listPurges' = listPurges /\ lists' = lists
      /\ purge.id = o.id /\ purge.titles = o.list /\ ~purge.answered
  <2>1. o.list # {}
    BY <1>1, <1>a DEF NoOrphan
  <2> QED
    BY <2>1 DEF DeleteEverywhere
<1> HIDE DEF purge
<1>3. history' \subseteq history /\ \A h \in history : h # o => h \in history'
  BY <1>1, <1>2, <1>a DEF DeletePlace, OneKey
<1>4. TitlesBacked' /\ NoOrphan'
  BY <1>a, <1>2, <1>3 DEF TitlesBacked, BeingPurged, NoOrphan
<1>5. ASSUME NEW l \in lists, NEW i \in l.places
      PROVE  BeingTakenOut(l, i)' \/ \E h \in history' : h.id = i /\ l.title \in h.list
  <2>1. CASE BeingTakenOut(l, i)
    BY <1>2, <2>1 DEF BeingTakenOut
  <2>2. ASSUME NEW h \in history, h.id = i, l.title \in h.list
        PROVE  BeingTakenOut(l, i)' \/ \E q \in history' : q.id = i /\ l.title \in q.list
    <3>1. CASE h = o
      BY <1>2, <2>2, <3>1 DEF BeingTakenOut
    <3>2. CASE h # o
      BY <1>3, <2>2, <3>2
    <3> QED
      BY <3>1, <3>2
  <2> QED
    BY <1>a, <2>1, <2>2 DEF IdsBacked
<1>6. IdsBacked'
  BY <1>2, <1>5 DEF IdsBacked
<1> QED
  BY <1>2, <1>4, <1>6 DEF Related
\* The rows of SavePlaceView are the lists: a row checked or not says the same
\* of the list.
LEMMA RowsAreLists ==
    ASSUME OwnTitle(lists), Heads(save.lists) = Heads(lists),
           NEW S \in SUBSET save.lists, NEW l \in lists
    PROVE  /\ l.lid \in LidsOf(S) <=> l.title \in TitlesOf(S)
           /\ \A ts : l.lid \in LidsOf({s \in S : s.title \notin ts})
                        <=> l.title \in TitlesOf(S) \ ts
           /\ l.title \in TitlesOf(save.lists)
<1>1. \A s \in save.lists : (s.lid = l.lid) <=> (s.title = l.title)
  <2> SUFFICES ASSUME NEW s \in save.lists
               PROVE  (s.lid = l.lid) <=> (s.title = l.title)
    OBVIOUS
  <2>1. PICK m \in lists : m.lid = s.lid /\ m.title = s.title
    BY ListOf
  <2> QED
    BY <2>1 DEF OwnTitle
<1>2. PICK s \in save.lists : s.lid = l.lid /\ s.title = l.title
  <2>1. <<l.lid, l.title>> \in Heads(save.lists)
    BY DEF Heads
  <2>2. PICK s \in save.lists : <<l.lid, l.title>> = <<s.lid, s.title>>
    BY <2>1, Zenon DEF Heads
  <2> QED
    BY <2>2
<1>3. l.lid \in LidsOf(S) <=> l.title \in TitlesOf(S)
  BY <1>1 DEF LidsOf, TitlesOf
<1>4. ASSUME NEW ts
      PROVE  l.lid \in LidsOf({s1 \in S : s1.title \notin ts})
                <=> l.title \in TitlesOf(S) \ ts
  BY <1>1 DEF LidsOf, TitlesOf
<1> QED
  BY <1>2, <1>3, <1>4 DEF TitlesOf

\* Done on a saved place: its titles become those of the checked rows, and its
\* id is in exactly their lists.
LEMMA IntactSaveAgain ==
    ASSUME TypeOK, CopiesKnowTheirDoc, Apart, Fresh, NEW S \in SUBSET save.lists,
           NEW D \in SUBSET S, SaveAgain(S, D)
    PROVE  Related'
<1>0. PICK L \in FirstRows(save.place.list \ TitlesOf(S)) :
         lists' = Uncheck(Checked(S, save.place.id), L)
  BY DEF SaveAgain, Unchecked
<1> DEFINE P == save.place
           ts == TitlesOf(S)
           added == LidsOf({l \in S : l.title \notin P.list})
           taken == LidsOf(L)
           more(l) == IF l.lid \in added THEN l.places \cup {P.id} ELSE l.places
           checked == AddNewPlaceToLists(lists, added, P.id)
           \* What the list l holds of P after Done.
           has(l) == \/ l.title \in ts \ P.list
                     \/ P.id \in l.places /\ l.title \notin P.list \ ts
<1>a. /\ TitlesBacked /\ IdsBacked /\ NoOrphan /\ UniqueIds
      /\ OneKey(history) /\ OwnTitle(lists)
      /\ history \in SUBSET HistoryDoc /\ lists \in SUBSET ListDoc
      /\ \A h \in history : h.twice = {}
  BY FreshLists DEF Fresh, Intact, Apart, KeysApart, TypeOK
<1>b. /\ Heads(save.lists) = Heads(lists) /\ P \in history
      /\ P.id \in PlaceIds
  BY <1>a, FreshSave DEF SaveAgain, HistoryDoc, Object
<1>1. /\ listPurges' = listPurges /\ placePurges' = placePurges
      /\ lists' = RemovePlacesFromLists(checked, taken, {P.id})
      /\ history' = IF S = {} THEN DeletePlace(history, P.doc)
                    ELSE UpdatePlace(history, P, ts, Doubles(S, D))
  BY <1>0 DEF SaveAgain, Checked, Uncheck, Resave, purges
<1>2. \A l \in lists : /\ l.lid \in added <=> l.title \in ts \ P.list
                       /\ l.lid \in taken <=> l.title \in P.list \ ts
  <2>1. L \in SUBSET save.lists /\ TitlesOf(L) = P.list \ ts
    BY <1>0 DEF FirstRows
  <2>2. \A l \in lists : l.lid \in taken <=> l.title \in P.list \ ts
    BY <1>a, <1>b, <2>1, RowsAreLists
  <2>3. \A l \in lists : l.lid \in added <=> l.title \in ts \ P.list
    <3>1. \A ps : \A l \in lists :
             l.lid \in LidsOf({k \in S : k.title \notin ps}) <=> l.title \in ts \ ps
      BY <1>a, <1>b, RowsAreLists
    <3> QED
      BY <3>1
  <2> QED
    BY <2>2, <2>3
<1>3. checked \in SUBSET ListDoc
  BY <1>a, <1>b, AddIdType
<1>4. /\ \A l \in lists : \E k \in checked : Row(k, l, more(l))
      /\ \A k \in checked : \E l \in lists : Row(k, l, more(l))
  <2>1. /\ \A l \in lists : \E k \in checked : Row(k, l, More(l, added, P.id))
        /\ \A k \in checked : \E l \in lists : Row(k, l, More(l, added, P.id))
    <3> HIDE DEF added, P
    <3> QED
      BY <1>a, AddIdIs
  <2>2. \A l : More(l, added, P.id) = more(l)
    BY DEF More
  <2> HIDE DEF more, added, checked
  <2> QED
    BY <2>1, <2>2
<1> DEFINE left(l) == IF l.lid \in taken THEN l.places \ {P.id} ELSE l.places
<1>5. /\ \A l \in checked : \E k \in lists' : Row(k, l, left(l))
      /\ \A k \in lists' : \E l \in checked : Row(k, l, left(l))
  <2>1. /\ \A l \in checked : \E k \in lists' : Row(k, l, Left(l, taken, {P.id}))
        /\ \A k \in lists' : \E l \in checked : Row(k, l, Left(l, taken, {P.id}))
    <3> HIDE DEF taken, checked, P
    <3> QED
      BY <1>1, <1>3, RemoveIdsIs
  <2>2. \A l : Left(l, taken, {P.id}) = left(l)
    BY DEF Left
  <2> HIDE DEF left, taken, checked
  <2> QED
    BY <2>1, <2>2
<1> HIDE DEF added, taken, checked
<1> DEFINE Now(k, l) == /\ k.lid = l.lid /\ k.title = l.title
                        /\ \A i : i # P.id => (i \in k.places <=> i \in l.places)
                        /\ P.id \in k.places <=> has(l)
<1>6. ASSUME NEW l \in lists, NEW c \in checked, NEW k \in lists',
             Row(c, l, more(l)), Row(k, c, left(c))
      PROVE  Now(k, l)
  BY <1>2, <1>6 DEF Row
<1>7. /\ \A l \in lists : \E k \in lists' : Now(k, l)
      /\ \A k \in lists' : \E l \in lists : Now(k, l)
  <2> HIDE DEF Now, more, left
  <2> QED
    BY <1>4, <1>5, <1>6
<1> HIDE DEF more, left
<1> DEFINE new == [P EXCEPT !.list = ts, !.twice = Doubles(S, D)]
<1>8. new.doc = P.doc /\ new.id = P.id /\ new.list = ts /\ (S # {} => ts # {})
  BY <1>a, <1>b DEF HistoryDoc, Object, TitlesOf
<1>9. /\ \A h \in history : h # P => h \in history'
      /\ S # {} => new \in history'
      /\ \A q \in history' : \/ q \in history /\ q # P /\ q.id # P.id
                             \/ S # {} /\ q = new
  <2>1. \A h \in history : h # P => h.doc # P.doc /\ h.id # P.id
    BY <1>a, <1>b DEF OneKey, UniqueIds
  <2>2. \A h \in history : h # P => h \in DeletePlace(history, P.doc)
    BY <2>1 DEF DeletePlace
  <2>3. \A q \in DeletePlace(history, P.doc) : q \in history /\ q # P /\ q.id # P.id
    BY <2>1 DEF DeletePlace
  <2>4. UpdatePlace(history, P, ts, Doubles(S, D)) = DeletePlace(history, P.doc) \cup {new}
    BY DEF UpdatePlace
  <2> HIDE DEF new, ts
  <2> QED
    BY <1>1, <2>2, <2>3, <2>4
<1> HIDE DEF new, P
<1>10. ASSUME NEW q \in history', NEW t \in q.list
       PROVE  BeingPurged(q, t)' \/ \E k \in lists' : k.title = t /\ q.id \in k.places
  <2>1. CASE q \in history /\ q.id # P.id
    <3>1. CASE BeingPurged(q, t)
      BY <1>1, <3>1 DEF BeingPurged
    <3>2. ASSUME NEW l \in lists, l.title = t, q.id \in l.places
          PROVE  \E k \in lists' : k.title = t /\ q.id \in k.places
      BY <1>7, <2>1, <3>2
    <3>3. BeingPurged(q, t) \/ \E l \in lists : l.title = t /\ q.id \in l.places
      BY <1>a, <2>1, <1>10 DEF TitlesBacked
    <3> QED
      BY <3>1, <3>2, <3>3
  <2>2. CASE q = new
    <3>1. t \in ts
      BY <1>8, <1>10, <2>2
    <3>2. PICK l \in lists : l.title = t
      <4>1. PICK s \in S : s.title = t
        BY <3>1 DEF TitlesOf
      <4> QED
        BY <1>b, <4>1, ListOf
    <3>3. has(l)
      <4>1. CASE t \notin P.list
        BY <3>1, <3>2, <4>1
      <4>2. CASE t \in P.list
        <5>1. ~ BeingPurged(P, t)
          BY <3>2 DEF BeingPurged, Fresh, FreshPurges, TitlesOf
        <5>2. PICK m \in lists : m.title = t /\ P.id \in m.places
          BY <1>a, <1>b, <4>2, <5>1 DEF TitlesBacked
        <5>3. m = l
          BY <1>a, <3>2, <5>2 DEF OwnTitle
        <5> QED
          BY <3>1, <3>2, <5>2, <5>3
      <4> QED
        BY <4>1, <4>2
    <3> QED
      BY <1>7, <1>8, <2>2, <3>2, <3>3
  <2> QED
    BY <1>9, <2>1, <2>2
<1>11. ASSUME NEW k \in lists', NEW i \in k.places
       PROVE  BeingTakenOut(k, i)' \/ \E q \in history' : q.id = i /\ k.title \in q.list
  <2>1. PICK l \in lists : Now(k, l)
    BY <1>7
  <2>2. CASE i # P.id
    <3>1. i \in l.places
      BY <1>11, <2>1, <2>2
    <3>2. CASE BeingTakenOut(l, i)
      BY <1>1, <2>1, <3>2 DEF BeingTakenOut
    <3>3. ASSUME NEW h \in history, h.id = i, l.title \in h.list
          PROVE  h \in history' /\ k.title \in h.list
      BY <1>9, <2>1, <2>2, <3>3
    <3> QED
      BY <1>a, <3>1, <3>2, <3>3 DEF IdsBacked
  <2>3. CASE i = P.id
    <3>1. l.title \in ts
      <4>1. has(l)
        BY <1>11, <2>1, <2>3
      <4>2. CASE P.id \in l.places /\ l.title \notin P.list \ ts
        <5>1. ~ BeingTakenOut(l, P.id)
          BY <1>b DEF BeingTakenOut, Fresh, FreshPurges, IdsOf
        <5>2. PICK h \in history : h.id = P.id /\ l.title \in h.list
          BY <1>a, <4>2, <5>1 DEF IdsBacked
        <5>3. h = P
          BY <1>a, <1>b, <5>2 DEF UniqueIds
        <5> QED
          BY <4>2, <5>2, <5>3
      <4> QED
        BY <4>1, <4>2
    <3>2. S # {}
      BY <3>1 DEF TitlesOf
    <3> QED
      BY <1>8, <1>9, <2>1, <2>3, <3>1, <3>2
  <2> QED
    BY <2>2, <2>3
<1>12. NoOrphan'
  BY <1>a, <1>8, <1>9 DEF NoOrphan
<1> QED
  BY <1>10, <1>11, <1>12 DEF TitlesBacked, IdsBacked, Related
\* A fresh screen has a row for every title of the place.
LEMMA NoSaveTraps ==
    ASSUME TypeOK, CopiesKnowTheirDoc, Apart, Fresh, NEW S \in SUBSET save.lists,
           NEW D, NEW ts
    PROVE  ~SaveTraps(S, D, ts)
<1> SUFFICES ASSUME SaveTraps(S, D, ts) PROVE FALSE
  OBVIOUS
<1>1. Heads(save.lists) = Heads(lists) /\ save.place.list \subseteq TitlesOf(lists)
  BY FreshSave DEF SaveTraps
<1>2. PICK t \in save.place.list : t \notin TitlesOf(save.lists)
  BY DEF SaveTraps, Unchecked
<1>3. PICK l \in lists : l.title = t
  BY <1>1, <1>2 DEF TitlesOf
<1> QED
  BY <1>1, <1>2, <1>3, FreshLists, RowsAreLists

\* Done on an unsaved place: a new id, in the checked lists alone.
LEMMA IntactSaveNew ==
    ASSUME TypeOK, CopiesKnowTheirDoc, Apart, Fresh, NEW S \in SUBSET save.lists,
           NEW D \in SUBSET S, NEW d \in DocIds, SaveNew(S, D, d)
    PROVE  Related'
<1> DEFINE added == LidsOf({l \in S : l.title \notin save.place.list})
           new == [doc |-> d, place |-> save.place.place, id |-> NextId(save.ids),
                   list |-> TitlesOf(S), twice |-> Doubles(S, D)]
<1>a. /\ TitlesBacked /\ IdsBacked /\ NoOrphan
      /\ OwnTitle(lists) /\ lists \in SUBSET ListDoc
  BY FreshLists DEF Fresh, Intact, TypeOK
<1>b. Heads(save.lists) = Heads(lists) /\ save.place.list = {}
  BY FreshSave DEF SaveNew
<1>1. PICK i : /\ i = NextId(save.ids)
               /\ lists' = AddNewPlaceToLists(lists, added, i)
               /\ listPurges' = listPurges /\ placePurges' = placePurges
               /\ history' = history \cup {new} /\ S # {}
  BY DEF SaveNew, Checked, AddPlaceToHistory, purges
<1>2. new.id = i /\ new.list = TitlesOf(S)
  BY <1>1
<1>3. \A l \in lists : l.lid \in added <=> l.title \in TitlesOf(S)
  <2>1. Heads(save.lists) = Heads(lists)
    BY <1>b
  <2>2. \A ts : \A l \in lists :
           l.lid \in LidsOf({s \in S : s.title \notin ts}) <=> l.title \in TitlesOf(S) \ ts
    BY <1>a, <2>1, RowsAreLists
  <2>3. \A l \in lists : l.lid \in added <=> l.title \in TitlesOf(S) \ save.place.list
    BY <2>2
  <2> QED
    BY <1>b, <2>3
<1> HIDE DEF added, new
<1> DEFINE more(l) == IF l.lid \in added THEN l.places \cup {i} ELSE l.places
<1>4. /\ \A l \in lists : \E k \in lists' : Row(k, l, more(l))
      /\ \A k \in lists' : \E l \in lists : Row(k, l, more(l))
  <2>1. /\ \A l \in lists : \E k \in lists' : Row(k, l, More(l, added, i))
        /\ \A k \in lists' : \E l \in lists : Row(k, l, More(l, added, i))
    BY <1>a, <1>1, AddIdIs
  <2>2. \A l : More(l, added, i) = more(l)
    BY DEF More
  <2> HIDE DEF more
  <2> QED
    BY <2>1, <2>2
<1>5. ASSUME NEW q \in history', NEW t \in q.list
      PROVE  BeingPurged(q, t)' \/ \E k \in lists' : k.title = t /\ q.id \in k.places
  <2>1. CASE q \in history
    <3>1. CASE BeingPurged(q, t)
      BY <1>1, <3>1 DEF BeingPurged
    <3>2. ASSUME NEW l \in lists, l.title = t, q.id \in l.places
          PROVE  \E k \in lists' : k.title = t /\ q.id \in k.places
      BY <1>4, <3>2 DEF Row
    <3>3. BeingPurged(q, t) \/ \E l \in lists : l.title = t /\ q.id \in l.places
      BY <1>a, <1>5, <2>1 DEF TitlesBacked
    <3> QED
      BY <3>1, <3>2, <3>3
  <2>2. CASE q = new
    <3>1. PICK l \in lists : l.title = t
      <4>1. PICK s \in S : s.title = t
        BY <1>2, <1>5, <2>2 DEF TitlesOf
      <4> QED
        BY <1>b, <4>1, ListOf
    <3>2. i \in more(l)
      BY <1>2, <1>3, <1>5, <2>2, <3>1
    <3> HIDE DEF more
    <3> QED
      BY <1>2, <1>4, <2>2, <3>1, <3>2 DEF Row
  <2> QED
    BY <1>1, <2>1, <2>2
<1>6. ASSUME NEW k \in lists', NEW j \in k.places
      PROVE  BeingTakenOut(k, j)' \/ \E q \in history' : q.id = j /\ k.title \in q.list
  <2>1. PICK l \in lists : Row(k, l, more(l))
    BY <1>4
  <2>2. j \in l.places \/ (j = i /\ l.title \in TitlesOf(S))
    BY <1>3, <1>6, <2>1 DEF Row
  <2>3. CASE j \in l.places
    <3>1. CASE BeingTakenOut(l, j)
      BY <1>1, <2>1, <3>1 DEF BeingTakenOut, Row
    <3>2. ASSUME NEW h \in history, h.id = j, l.title \in h.list
          PROVE  h \in history' /\ k.title \in h.list
      BY <1>1, <2>1, <3>2 DEF Row
    <3> QED
      BY <1>a, <2>3, <3>1, <3>2 DEF IdsBacked
  <2>4. CASE j = i /\ l.title \in TitlesOf(S)
    BY <1>1, <1>2, <2>1, <2>4 DEF Row
  <2> QED
    BY <2>2, <2>3, <2>4
<1>7. NoOrphan'
  BY <1>a, <1>1, <1>2 DEF NoOrphan, TitlesOf
<1> QED
  BY <1>5, <1>6, <1>7 DEF TitlesBacked, IdsBacked, Related

\* The two purges are asked or delivered.
LEMMA IntactListPurge ==
    ASSUME TypeOK, Apart, Fresh, NEW u \in listPurges,
           AnswerListPurge(u) \/ DeliverListPurge(u) \/ PurgeTraps(u)
    PROVE  Related' /\ crashed' = crashed
<1>a. /\ TitlesBacked /\ IdsBacked /\ NoOrphan
      /\ OneKey(history) /\ history \in SUBSET HistoryDoc
      /\ \A h \in history : h.twice = {}
  BY FreshLists DEF Fresh, Intact, Apart, KeysApart, TypeOK
<1>b. u \in ListPurge
  BY DEF TypeOK
<1>1. CASE AnswerListPurge(u)
  <2> DEFINE v == [u EXCEPT !.answered = TRUE, !.docs = PlacesInList(history, u.title)]
  <2>1. /\ listPurges' = (listPurges \ {u}) \cup {v}
        /\ UNCHANGED <<history, lists, placePurges, crashed>>
        /\ v.title = u.title /\ v.docs = PlacesInList(history, u.title)
    BY <1>1, <1>b DEF AnswerListPurge, stores, ListPurge
  <2> HIDE DEF v
  <2>2. ASSUME NEW o \in history, NEW t \in o.list, BeingPurged(o, t)
        PROVE  BeingPurged(o, t)'
    <3>1. PICK w \in listPurges : w.title = t /\ (w.answered => o.doc \in DocsOf(w.docs))
      BY <2>2 DEF BeingPurged
    <3>2. CASE w # u
      BY <2>1, <3>1, <3>2 DEF BeingPurged
    <3>3. CASE w = u
      <4>1. o.doc \in DocsOf(v.docs)
        BY <2>1, <2>2, <3>1, <3>3 DEF PlacesInList, DocsOf
      <4> QED
        BY <2>1, <3>1, <3>3, <4>1 DEF BeingPurged
    <3> QED
      BY <3>2, <3>3
  <2>3. TitlesBacked'
    <3>1. history' = history /\ lists' = lists
      BY <2>1
    <3> QED
      BY <1>a, <2>2, <3>1 DEF TitlesBacked
  <2>4. IdsBacked' /\ NoOrphan'
    BY <1>a, <2>1 DEF IdsBacked, NoOrphan, BeingTakenOut
  <2> QED
    BY <2>1, <2>3, <2>4 DEF Related
<1>2. CASE DeliverListPurge(u)
  <2> DEFINE T == u.title
             single == {o \in u.docs : InOneList(o)}
             rest == {o \in history : o.doc \notin DocsOf(single)}
  <2>1. /\ u.docs = PlacesInList(history, T) /\ T \notin TitlesOf(lists)
    BY <1>2 DEF DeliverListPurge, Fresh, FreshPurges
  <2>2. /\ history' = {Less(o, DocsOf(u.docs \ single), T) : o \in rest}
        /\ listPurges' = listPurges \ {u}
        /\ UNCHANGED <<lists, placePurges, crashed>>
    BY <1>2, RemoveSelectedIs DEF DeliverListPurge
  <2>3. \A h \in history : /\ h.doc \in DocsOf(single) <=> h.list = {T}
                           /\ h.doc \in DocsOf(u.docs \ single)
                                <=> T \in h.list /\ h.list # {T}
    <3>1. single = {o \in history : o.list = {T}}
      BY <1>a, <2>1 DEF PlacesInList, InOneList
    <3>2. u.docs \ single = {o \in history : T \in o.list /\ o.list # {T}}
      BY <2>1, <3>1 DEF PlacesInList
    <3> HIDE DEF single
    <3> QED
      BY <1>a, <3>1, <3>2 DEF DocsOf, OneKey
  <2> HIDE DEF single
  <2>4. ASSUME NEW h \in history, h.list # {T}
        PROVE  \E q \in history' : SameDoc(q, h) /\ q.list = h.list \ {T}
    <3> DEFINE q == Less(h, DocsOf(u.docs \ single), T)
    <3>1. h \in rest
      BY <2>3, <2>4
    <3>2. q \in history'
      BY <2>2, <3>1
    <3>3. SameDoc(q, h) /\ q.list = h.list \ {T}
      <4>1. /\ SameDoc(q, h)
            /\ q.list = IF h.doc \in DocsOf(u.docs \ single) THEN h.list \ {T} ELSE h.list
        BY <1>a, LessIs
      <4>2. T \notin h.list => h.list \ {T} = h.list
        OBVIOUS
      <4> QED
        BY <2>3, <2>4, <4>1, <4>2
    <3> QED
      BY <3>2, <3>3
  <2>5. ASSUME NEW q \in history'
        PROVE  \E h \in history : SameDoc(q, h) /\ q.list = h.list \ {T} /\ h.list # {T}
    <3>1. PICK h \in rest : q = Less(h, DocsOf(u.docs \ single), T)
      BY <2>2
    <3>2. h.list # {T}
      BY <2>3, <3>1
    <3>3. SameDoc(q, h) /\ q.list = h.list \ {T}
      <4>1. /\ SameDoc(q, h)
            /\ q.list = IF h.doc \in DocsOf(u.docs \ single) THEN h.list \ {T} ELSE h.list
        BY <1>a, <3>1, LessIs
      <4>2. T \notin h.list => h.list \ {T} = h.list
        OBVIOUS
      <4> QED
        BY <2>3, <3>1, <3>2, <4>1, <4>2
    <3> QED
      BY <3>1, <3>2, <3>3
  <2>6. TitlesBacked'
    <3> SUFFICES ASSUME NEW q \in history', NEW t \in q.list
                 PROVE  BeingPurged(q, t)' \/ \E l \in lists' : l.title = t /\ q.id \in l.places
      BY DEF TitlesBacked
    <3>1. PICK h \in history : SameDoc(q, h) /\ t \in h.list /\ t # T
      BY <2>5
    <3>2. CASE BeingPurged(h, t)
      BY <2>2, <3>1, <3>2 DEF BeingPurged, SameDoc
    <3>3. CASE \E l \in lists : l.title = t /\ h.id \in l.places
      BY <2>2, <3>1, <3>3 DEF SameDoc
    <3>4. BeingPurged(h, t) \/ \E l \in lists : l.title = t /\ h.id \in l.places
      BY <1>a, <3>1 DEF TitlesBacked
    <3> QED
      BY <3>2, <3>3, <3>4
  <2>7. IdsBacked'
    <3> SUFFICES ASSUME NEW l \in lists, NEW i \in l.places
                 PROVE  BeingTakenOut(l, i)' \/ \E q \in history' : q.id = i /\ l.title \in q.list
      BY <2>2 DEF IdsBacked
    <3>1. CASE BeingTakenOut(l, i)
      BY <2>2, <3>1 DEF BeingTakenOut
    <3>2. ASSUME NEW h \in history, h.id = i, l.title \in h.list
          PROVE  \E q \in history' : q.id = i /\ l.title \in q.list
      <4>1. l.title # T
        BY <2>1 DEF TitlesOf
      <4> QED
        BY <2>4, <3>2, <4>1 DEF SameDoc
    <3> QED
      BY <1>a, <3>1, <3>2 DEF IdsBacked
  <2>8. NoOrphan'
    BY <1>a, <2>5 DEF NoOrphan
  <2> QED
    BY <2>2, <2>6, <2>7, <2>8 DEF Related
<1>3. ~PurgeTraps(u)
  BY DEF PurgeTraps, Fresh, FreshCells, Dropped, IdsOf
<1> QED
  BY <1>1, <1>2, <1>3

LEMMA IntactPlacePurge ==
    ASSUME TypeOK, Apart, Fresh, NEW u \in placePurges,
           AnswerPlacePurge(u) \/ DeliverPlacePurge(u)
    PROVE  Related' /\ crashed' = crashed
<1>a. /\ TitlesBacked /\ IdsBacked /\ NoOrphan
      /\ lists \in SUBSET ListDoc /\ u \in PlacePurge
  BY DEF Fresh, Intact, TypeOK
<1>1. CASE AnswerPlacePurge(u)
  <2> DEFINE v == [u EXCEPT !.answered = TRUE, !.lids = ListsTitled(lists, u.titles)]
  <2>1. /\ placePurges' = (placePurges \ {u}) \cup {v}
        /\ UNCHANGED <<history, lists, listPurges, crashed>>
        /\ v.id = u.id /\ v.answered /\ v.lids = ListsTitled(lists, u.titles)
        /\ ~u.answered
    BY <1>1, <1>a DEF AnswerPlacePurge, stores, PlacePurge
  <2> HIDE DEF v
  <2>2. ASSUME NEW l \in lists, NEW i, BeingTakenOut(l, i)
        PROVE  BeingTakenOut(l, i)'
    <3>1. PICK w \in placePurges :
             w.id = i /\ IF w.answered THEN l.lid \in w.lids ELSE l.title \in w.titles
      BY <2>2 DEF BeingTakenOut
    <3>2. CASE w # u
      BY <2>1, <3>1, <3>2 DEF BeingTakenOut
    <3>3. CASE w = u
      <4>1. l.lid \in v.lids
        BY <2>1, <3>1, <3>3 DEF ListsTitled, LidsOf
      <4> QED
        BY <2>1, <3>1, <3>3, <4>1 DEF BeingTakenOut
    <3> QED
      BY <3>2, <3>3
  <2>3. IdsBacked'
    <3>1. history' = history /\ lists' = lists
      BY <2>1
    <3> QED
      BY <1>a, <2>2, <3>1 DEF IdsBacked
  <2>4. TitlesBacked' /\ NoOrphan'
    BY <1>a, <2>1 DEF TitlesBacked, NoOrphan, BeingPurged
  <2> QED
    BY <2>1, <2>3, <2>4 DEF Related
<1>2. CASE DeliverPlacePurge(u)
  <2>1. PICK i : /\ i = u.id
                 /\ lists' = RemovePlacesFromLists(lists, u.lids, {i})
                 /\ placePurges' = placePurges \ {u} /\ u.answered
                 /\ UNCHANGED <<history, listPurges, crashed>>
    BY <1>2 DEF DeliverPlacePurge
  <2> DEFINE left(l) == IF l.lid \in u.lids THEN l.places \ {i} ELSE l.places
  <2>2. /\ \A l \in lists : \E k \in lists' : Row(k, l, left(l))
        /\ \A k \in lists' : \E l \in lists : Row(k, l, left(l))
    <3>1. /\ \A l \in lists : \E k \in lists' : Row(k, l, Left(l, u.lids, {i}))
          /\ \A k \in lists' : \E l \in lists : Row(k, l, Left(l, u.lids, {i}))
      BY <1>a, <2>1, RemoveIdsIs
    <3>2. \A l : Left(l, u.lids, {i}) = left(l)
      BY DEF Left
    <3> HIDE DEF left
    <3> QED
      BY <3>1, <3>2
  <2>3. \A h \in history : h.id # i
    BY <2>1 DEF Fresh, FreshPurges, IdsOf
  <2>4. TitlesBacked'
    <3> SUFFICES ASSUME NEW h \in history, NEW t \in h.list
                 PROVE  BeingPurged(h, t)' \/ \E k \in lists' : k.title = t /\ h.id \in k.places
      BY <2>1 DEF TitlesBacked
    <3>1. CASE BeingPurged(h, t)
      BY <2>1, <3>1 DEF BeingPurged
    <3>2. ASSUME NEW l \in lists, l.title = t, h.id \in l.places
          PROVE  \E k \in lists' : k.title = t /\ h.id \in k.places
      <4>1. h.id \in left(l)
        BY <2>3, <3>2
      <4> HIDE DEF left
      <4> QED
        BY <2>2, <3>2, <4>1 DEF Row
    <3>3. BeingPurged(h, t) \/ \E l \in lists : l.title = t /\ h.id \in l.places
      BY <1>a DEF TitlesBacked
    <3> QED
      BY <3>1, <3>2, <3>3
  <2>5. IdsBacked'
    <3> SUFFICES ASSUME NEW k \in lists', NEW j \in k.places
                 PROVE  BeingTakenOut(k, j)' \/ \E h \in history : h.id = j /\ k.title \in h.list
      BY <2>1 DEF IdsBacked
    <3>1. PICK l \in lists : Row(k, l, left(l))
      BY <2>2
    <3>2. j \in l.places /\ (l.lid \in u.lids => j # i)
      BY <3>1 DEF Row
    <3>3. CASE BeingTakenOut(l, j)
      <4>1. PICK w \in placePurges :
               w.id = j /\ IF w.answered THEN l.lid \in w.lids ELSE l.title \in w.titles
        BY <3>3 DEF BeingTakenOut
      <4>2. w # u
        BY <2>1, <3>2, <4>1
      <4> QED
        BY <2>1, <3>1, <4>1, <4>2 DEF BeingTakenOut, Row
    <3>4. CASE \E h \in history : h.id = j /\ l.title \in h.list
      BY <3>1, <3>4 DEF Row
    <3> QED
      BY <1>a, <3>2, <3>3, <3>4 DEF IdsBacked
  <2>6. NoOrphan'
    BY <1>a, <2>1 DEF NoOrphan
  <2> QED
    BY <2>1, <2>4, <2>5, <2>6 DEF Related
<1> QED
  BY <1>1, <1>2
\* The titles a document has after Done of EditListController: T is the title
\* of the list, t the new one, R what was taken out.
Renamed(h, R, T, t) ==
    IF h \in R THEN h.list \ {T}
    ELSE IF T \in h.list THEN (h.list \ {T}) \cup {t}
    ELSE h.list

\* Done of EditListController on a fresh screen: what becomes of each document.
LEMMA EditedDocs ==
    ASSUME TypeOK, Apart, Fresh, NEW R \in SUBSET edit.places, NEW t \in Titles,
           EditDone(R, t)
    PROVE  LET T == edit.list.title
           IN  /\ edit.places = PlacesInList(history, T)
               /\ \A h \in history : ~(h \in R /\ h.list = {T}) =>
                     \E q \in history' : SameDoc(q, h) /\ q.list = Renamed(h, R, T, t)
               /\ \A q \in history' : \E h \in history :
                     /\ ~(h \in R /\ h.list = {T})
                     /\ SameDoc(q, h) /\ q.list = Renamed(h, R, T, t)
<1>0. PICK T : T = edit.list.title
  OBVIOUS
<1> DEFINE kept == edit.places \ R
           single == {o \in R : InOneList(o)}
           rest == {o \in history : o.doc \notin DocsOf(single)}
           several == DocsOf(R \ single)
           removed == {Less(o, several, T) : o \in rest}
<1>a. /\ OneKey(history) /\ history \in SUBSET HistoryDoc
      /\ \A h \in history : h.twice = {}
  BY FreshLists DEF Apart, KeysApart, TypeOK
<1>1. edit.places = PlacesInList(history, T)
  BY <1>0 DEF EditDone, Fresh, FreshScreen
<1>2. /\ R \subseteq history /\ kept \subseteq history
      /\ \A h \in R \cup kept : T \in h.list
  BY <1>1 DEF PlacesInList
<1>3. \A h \in history : /\ h.doc \in DocsOf(single) <=> h \in R /\ h.list = {T}
                         /\ h.doc \in several <=> h \in R /\ h.list # {T}
                         /\ h.doc \in DocsOf(kept) <=> h \in kept
  <2>1. \A h \in R : InOneList(h) <=> h.list = {T}
    BY <1>2, <1>a DEF InOneList
  <2>2. /\ single \subseteq history /\ R \ single \subseteq history
        /\ \A h \in R : h \in single <=> h.list = {T}
    BY <1>2, <2>1
  <2>3. \A h \in history, A \in SUBSET history : h.doc \in DocsOf(A) <=> h \in A
    BY <1>a DEF OneKey, DocsOf
  <2> HIDE DEF single, kept
  <2>4. \A h \in history : /\ h.doc \in DocsOf(single) <=> h \in single
                           /\ h.doc \in DocsOf(R \ single) <=> h \in R \ single
                           /\ h.doc \in DocsOf(kept) <=> h \in kept
    BY <1>2, <2>2, <2>3
  <2>5. single \subseteq R
    BY DEF single
  <2> QED
    BY <2>2, <2>4, <2>5
<1>4. /\ removed = RemoveListFromSelectedPlaces(history, R, T)
      /\ t = T => history' = removed
      /\ t # T => \E M : history' = UpdateTitleInPlaces(removed, kept, T, t, M)
  BY <1>0, RemoveSelectedIs DEF EditDone
<1>5. \A h \in rest : SameDoc(Less(h, several, T), h)
  BY <1>a, LessIs
<1>6. \A h \in rest : Less(h, several, T).list = IF h \in R THEN h.list \ {T} ELSE h.list
  <2> SUFFICES ASSUME NEW h \in rest
               PROVE  Less(h, several, T).list = IF h \in R THEN h.list \ {T} ELSE h.list
    OBVIOUS
  <2>1. h \in HistoryDoc /\ (h.doc \in several <=> h \in R)
    BY <1>a, <1>3
  <2> HIDE DEF several
  <2> QED
    BY <2>1, LessIs
<1>7. \A h \in history : h \in rest <=> ~(h \in R /\ h.list = {T})
  BY <1>3
<1>8. \A h \in kept : h \in rest /\ h \notin R
  BY <1>2, <1>7
<1>9. rest \subseteq history
  OBVIOUS
<1> HIDE DEF single, rest, several
<1>10. CASE t = T
  <2>1. \A h \in rest : Less(h, several, T).list = Renamed(h, R, T, t)
    <3> SUFFICES ASSUME NEW h \in rest
                 PROVE  Less(h, several, T).list = Renamed(h, R, T, t)
      OBVIOUS
    <3>1. T \in h.list => (h.list \ {T}) \cup {T} = h.list
      OBVIOUS
    <3> QED
      BY <1>6, <1>10, <3>1 DEF Renamed
  <2>2. history' = removed
    BY <1>4, <1>10
  <2> QED
    BY <1>0, <1>1, <1>5, <1>7, <1>9, <2>1, <2>2
<1>11. CASE t # T
  <2>0. PICK M : history' = UpdateTitleInPlaces(removed, kept, T, t, M)
    BY <1>4, <1>11
  <2>1. history' = {o \in removed : o.doc \notin DocsOf(kept)}
                   \cup {Retitled(o, T, t, M) : o \in kept}
    BY <2>0 DEF UpdateTitleInPlaces
  <2>2. \A h \in kept : /\ SameDoc(Retitled(h, T, t, M), h)
                        /\ Retitled(h, T, t, M).list = Renamed(h, R, T, t)
    <3> SUFFICES ASSUME NEW h \in kept
                 PROVE  /\ SameDoc(Retitled(h, T, t, M), h)
                        /\ Retitled(h, T, t, M).list = Renamed(h, R, T, t)
      OBVIOUS
    <3>1. h \in HistoryDoc /\ T \in h.list /\ h \notin R /\ h.twice = {}
      BY <1>a, <1>2
    <3> QED
      BY <3>1, RetitledSame, RetitledIs DEF Renamed
  <2>3. \A h \in rest \ kept :
           /\ Less(h, several, T).list = Renamed(h, R, T, t)
           /\ Less(h, several, T).doc \notin DocsOf(kept)
    <3> SUFFICES ASSUME NEW h \in rest, h \notin kept
                 PROVE  /\ Less(h, several, T).list = Renamed(h, R, T, t)
                        /\ Less(h, several, T).doc \notin DocsOf(kept)
      OBVIOUS
    <3>1. h \in R \/ T \notin h.list
      BY <1>1, <1>9 DEF PlacesInList
    <3>2. h.doc \notin DocsOf(kept)
      BY <1>3, <1>9
    <3> QED
      BY <1>5, <1>6, <3>1, <3>2 DEF Renamed, SameDoc
  <2>4. ASSUME NEW h \in rest
        PROVE  \E q \in history' : SameDoc(q, h) /\ q.list = Renamed(h, R, T, t)
    <3>1. CASE h \in kept
      <4> HIDE DEF kept
      <4> QED
        BY <2>1, <2>2, <3>1
    <3>2. CASE h \notin kept
      <4> HIDE DEF kept
      <4> QED
        BY <1>5, <2>1, <2>3, <2>4, <3>2
    <3> QED
      BY <3>1, <3>2
  <2>5. ASSUME NEW q \in history'
        PROVE  \E h \in rest : SameDoc(q, h) /\ q.list = Renamed(h, R, T, t)
    <3>1. CASE q \in {Retitled(o, T, t, M) : o \in kept}
      <4>1. PICK h \in kept : q = Retitled(h, T, t, M)
        BY <3>1
      <4> QED
        BY <1>8, <2>2, <4>1
    <3>2. CASE q \in removed /\ q.doc \notin DocsOf(kept)
      <4>1. PICK h \in rest : q = Less(h, several, T)
        BY <3>2
      <4>2. h \notin kept
        <5>1. q.doc = h.doc
          BY <1>5, <4>1 DEF SameDoc
        <5> QED
          BY <3>2, <5>1 DEF DocsOf
      <4> QED
        BY <1>5, <2>3, <4>1, <4>2
    <3> QED
      BY <2>1, <3>1, <3>2
  <2> QED
    BY <1>0, <1>1, <1>7, <1>9, <2>4, <2>5
<1> QED
  BY <1>0, <1>10, <1>11

LEMMA RetitledRows ==
    ASSUME NEW ls \in SUBSET ListDoc, NEW e, NEW t
    PROVE  LET Is(k, l) == /\ k.lid = l.lid /\ k.places = l.places
                           /\ k.title = IF l.lid = e THEN t ELSE l.title
               now == UpdateListTitle(ls, e, t)
           IN  /\ \A l \in ls : \E k \in now : Is(k, l)
               /\ \A k \in now : \E l \in ls : Is(k, l)
<1> DEFINE f(l) == IF l.lid = e THEN [l EXCEPT !.title = t] ELSE l
           Is(k, l) == /\ k.lid = l.lid /\ k.places = l.places
                       /\ k.title = IF l.lid = e THEN t ELSE l.title
<1>1. \A l \in ls : Is(f(l), l)
  BY DEF ListDoc
<1>2. UpdateListTitle(ls, e, t) = {f(l) : l \in ls}
  BY DEF UpdateListTitle
<1> HIDE DEF f, Is
<1>3. /\ \A l \in ls : \E k \in {f(m) : m \in ls} : Is(k, l)
      /\ \A k \in {f(m) : m \in ls} : \E l \in ls : Is(k, l)
  BY <1>1
<1> QED
  BY <1>2, <1>3 DEF Is

\* What Done of EditListController makes of a list: e is its key, ids what was
\* taken out.
Edited(k, l, e, ids, t) ==
    /\ k.lid = l.lid
    /\ k.title = IF l.lid = e THEN t ELSE l.title
    /\ k.places = IF l.lid = e THEN l.places \ ids ELSE l.places

\* And of each list.
LEMMA EditedLists ==
    ASSUME TypeOK, NEW R \in SUBSET edit.places, NEW t \in Titles, EditDone(R, t),
           \A l \in lists : l.lid = edit.list.lid => l.title = edit.list.title
    PROVE  /\ \A l \in lists : \E k \in lists' :
                 Edited(k, l, edit.list.lid, IdsOf(R), t)
           /\ \A k \in lists' : \E l \in lists :
                 Edited(k, l, edit.list.lid, IdsOf(R), t)
<1>1. PICK e, ids : e = edit.list.lid /\ ids = IdsOf(R)
  OBVIOUS
<1>2. PICK one : one = {e}
  OBVIOUS
<1>3. PICK em : em = RemovePlacesFromLists(lists, one, ids)
  OBVIOUS
<1>4. lists \in SUBSET ListDoc /\ em \in SUBSET ListDoc
  <2>1. lists \in SUBSET ListDoc
    BY DEF TypeOK
  <2> QED
    BY <1>3, <2>1, RemoveIdsType
<1> DEFINE left(l) == IF l.lid \in one THEN l.places \ ids ELSE l.places
<1>5. /\ \A l \in lists : \E k \in em : Row(k, l, left(l))
      /\ \A k \in em : \E l \in lists : Row(k, l, left(l))
  <2> DEFINE f(l) == IF l.lid \in one THEN [l EXCEPT !.places = @ \ ids] ELSE l
  <2>1. \A l \in lists : Row(f(l), l, left(l))
    BY <1>4 DEF ListDoc, Row
  <2>2. em = {f(l) : l \in lists}
    BY <1>3 DEF RemovePlacesFromLists
  <2> HIDE DEF f, left
  <2> QED
    BY <2>1, <2>2
<1>6. \A l \in lists : left(l) = IF l.lid = e THEN l.places \ ids ELSE l.places
  BY <1>2
<1> HIDE DEF left
<1>7. CASE t = edit.list.title
  <2>1. lists' = em
    BY <1>1, <1>2, <1>3, <1>7 DEF EditDone
  <2>2. \A l \in lists : l.title = IF l.lid = e THEN t ELSE l.title
    BY <1>1, <1>7
  <2>3. \A k, l : l \in lists /\ Row(k, l, left(l)) => Edited(k, l, e, ids, t)
    BY <1>6, <2>2 DEF Row, Edited
  <2> QED
    BY <1>1, <1>5, <2>1, <2>3
<1>8. CASE t # edit.list.title
  <2> DEFINE Is(k, m) == /\ k.lid = m.lid /\ k.places = m.places
                         /\ k.title = IF m.lid = e THEN t ELSE m.title
  <2>1. lists' = UpdateListTitle(em, e, t)
    BY <1>1, <1>2, <1>3, <1>8 DEF EditDone
  <2>2. /\ \A m \in em : \E k \in lists' : Is(k, m)
        /\ \A k \in lists' : \E m \in em : Is(k, m)
    BY <1>4, <2>1, RetitledRows
  <2>3. \A k, m, l : l \in lists /\ Row(m, l, left(l)) /\ Is(k, m)
                        => Edited(k, l, e, ids, t)
    BY <1>6 DEF Row, Edited
  <2> HIDE DEF Is
  <2>4. /\ \A l \in lists : \E k \in lists' : Edited(k, l, e, ids, t)
        /\ \A k \in lists' : \E l \in lists : Edited(k, l, e, ids, t)
    BY <1>5, <2>2, <2>3
  <2> QED
    BY <1>1, <2>4
<1> QED
  BY <1>7, <1>8
\* Done of EditListController, which retitles and takes out in one step.
LEMMA IntactEditDone ==
    ASSUME TypeOK, Apart, Fresh, NEW R \in SUBSET edit.places, NEW t \in Titles,
           EditDone(R, t)
    PROVE  Related' /\ crashed' = "no"
<1>1. PICK e, T, ids : e = edit.list.lid /\ T = edit.list.title /\ ids = IdsOf(R)
  OBVIOUS
<1>a. /\ TitlesBacked /\ IdsBacked /\ NoOrphan /\ UniqueIds
      /\ screen = "edit" /\ OwnTitle(lists)
      /\ listPurges' = listPurges /\ placePurges' = placePurges
  BY FreshLists DEF Fresh, Intact, EditDone, purges
<1>2. \A l \in lists : l.lid = e <=> l.title = T
  <2>1. PICK m \in lists : m.lid = e /\ m.title = T
    BY <1>1, <1>a, ListOf DEF Fresh, FreshScreen
  <2> QED
    BY <1>a, <2>1 DEF OwnTitle
<1>3. T \in TitlesOf(lists)
  <2>1. \E m \in lists : m.title = T
    BY <1>1, <1>a, ListOf DEF Fresh, FreshScreen
  <2> QED
    BY <2>1 DEF TitlesOf
<1>4. /\ edit.places = PlacesInList(history, T)
      /\ \A h \in history : ~(h \in R /\ h.list = {T}) =>
            \E q \in history' : SameDoc(q, h) /\ q.list = Renamed(h, R, T, t)
      /\ \A q \in history' : \E h \in history :
            /\ ~(h \in R /\ h.list = {T})
            /\ SameDoc(q, h) /\ q.list = Renamed(h, R, T, t)
  BY <1>1, EditedDocs
<1>5. /\ \A l \in lists : \E k \in lists' : Edited(k, l, e, ids, t)
      /\ \A k \in lists' : \E l \in lists : Edited(k, l, e, ids, t)
  BY <1>1, <1>2, EditedLists
<1>6. /\ R \subseteq history /\ \A h \in R : T \in h.list
      /\ \A h \in history : h.id \in ids <=> h \in R
  <2>1. R \subseteq history /\ \A h \in R : T \in h.list
    BY <1>4 DEF PlacesInList
  <2> QED
    BY <1>1, <1>a, <2>1 DEF UniqueIds, IdsOf
<1>7. /\ \A u \in listPurges : u.title # T
      /\ \A u \in placePurges : T \in u.titles => u.answered
  BY <1>1, <1>3, <1>a DEF Fresh, FreshPurges, FreshScreen
<1>8. TitlesBacked'
  <2> SUFFICES ASSUME NEW q \in history', NEW tt \in q.list
               PROVE  \/ BeingPurged(q, tt)'
                      \/ \E k \in lists' : k.title = tt /\ q.id \in k.places
    BY DEF TitlesBacked
  <2>1. PICK h \in history : SameDoc(q, h) /\ q.list = Renamed(h, R, T, t)
    BY <1>4
  <2>2. \/ tt \in h.list /\ tt # T
        \/ tt = t /\ h \notin R /\ T \in h.list
    BY <2>1 DEF Renamed
  <2>3. CASE tt \in h.list /\ tt # T
    <3>1. CASE BeingPurged(h, tt)
      BY <1>a, <2>1, <3>1 DEF BeingPurged, SameDoc
    <3>2. ASSUME NEW l \in lists, l.title = tt, h.id \in l.places
          PROVE  \E k \in lists' : k.title = tt /\ q.id \in k.places
      <4>1. PICK k \in lists' : Edited(k, l, e, ids, t)
        BY <1>5
      <4> QED
        BY <1>2, <2>1, <2>3, <3>2, <4>1 DEF Edited, SameDoc
    <3> QED
      BY <1>a, <2>3, <3>1, <3>2 DEF TitlesBacked
  <2>4. CASE tt = t /\ h \notin R /\ T \in h.list
    <3>1. PICK l \in lists : l.title = T /\ h.id \in l.places
      BY <1>7, <1>a, <2>4 DEF TitlesBacked, BeingPurged
    <3>2. PICK k \in lists' : Edited(k, l, e, ids, t)
      BY <1>5
    <3> QED
      BY <1>2, <1>6, <2>1, <2>4, <3>1, <3>2 DEF Edited, SameDoc
  <2> QED
    BY <2>2, <2>3, <2>4
<1>9. IdsBacked'
  <2> SUFFICES ASSUME NEW k \in lists', NEW i \in k.places
               PROVE  \/ BeingTakenOut(k, i)'
                      \/ \E q \in history' : q.id = i /\ k.title \in q.list
    BY DEF IdsBacked
  <2>1. PICK l \in lists : Edited(k, l, e, ids, t)
    BY <1>5
  <2>2. i \in l.places
    BY <2>1 DEF Edited
  <2>3. CASE BeingTakenOut(l, i)
    <3>1. PICK u \in placePurges :
             u.id = i /\ IF u.answered THEN l.lid \in u.lids ELSE l.title \in u.titles
      BY <2>3 DEF BeingTakenOut
    <3>2. IF u.answered THEN k.lid \in u.lids ELSE k.title \in u.titles
      BY <1>2, <1>7, <2>1, <3>1 DEF Edited
    <3> QED
      BY <1>a, <3>1, <3>2 DEF BeingTakenOut
  <2>4. ASSUME NEW h \in history, h.id = i, l.title \in h.list
        PROVE  \E q \in history' : q.id = i /\ k.title \in q.list
    <3>1. ~(h \in R /\ h.list = {T}) /\ k.title \in Renamed(h, R, T, t)
      <4>1. CASE l.lid = e
        <5>1. h \notin R /\ T \in h.list /\ k.title = t
          BY <1>2, <1>6, <2>1, <2>4, <4>1 DEF Edited
        <5> QED
          BY <5>1 DEF Renamed
      <4>2. CASE l.lid # e
        BY <1>2, <2>1, <2>4, <4>2 DEF Edited, Renamed
      <4> QED
        BY <4>1, <4>2
    <3>2. PICK q \in history' : SameDoc(q, h) /\ q.list = Renamed(h, R, T, t)
      BY <1>4, <3>1
    <3> QED
      BY <2>4, <3>1, <3>2 DEF SameDoc
  <2> QED
    BY <1>a, <2>2, <2>3, <2>4 DEF IdsBacked
<1>10. NoOrphan'
  <2> SUFFICES ASSUME NEW q \in history'
               PROVE  q.list # {}
    BY DEF NoOrphan
  <2>1. PICK h \in history : /\ ~(h \in R /\ h.list = {T})
                             /\ q.list = Renamed(h, R, T, t)
    BY <1>4
  <2>2. h.list # {}
    BY <1>a DEF NoOrphan
  <2>3. CASE h \in R
    BY <1>6, <2>1, <2>2, <2>3 DEF Renamed
  <2>4. CASE h \notin R
    BY <2>1, <2>2, <2>4 DEF Renamed
  <2> QED
    BY <2>3, <2>4
<1>11. crashed' = "no"
  <2>1. crashed' = TrapAfter(saved')
    BY DEF EditDone, BackToSaved
  <2>2. \A o \in saved'.places : o.list # {}
    <3>1. \A o \in saved.places : o.list # {} /\ o \in HistoryDoc
      BY DEF Fresh, FreshCells, TypeOK
    <3>2. ASSUME NEW M, NEW o \in saved.places
          PROVE  Retitled(o, T, t, M).list # {}
      <4>1. o \in HistoryDoc /\ o.list # {}
        BY <3>1
      <4> QED
        BY <4>1, RetitledNonempty
    <3>3. CASE saved' = saved
      BY <3>1, <3>3
    <3>4. ASSUME NEW M,
                 saved' = [saved EXCEPT !.places =
                   {IF o \in edit.places \ R THEN Retitled(o, T, t, M) ELSE o : o \in @}]
          PROVE  \A o \in saved'.places : o.list # {}
      <4> DEFINE f(o) == IF o \in edit.places \ R THEN Retitled(o, T, t, M) ELSE o
      <4>1. saved'.places = {f(o) : o \in saved.places}
        BY <3>4 DEF TypeOK
      <4>2. \A o \in saved.places : f(o).list # {}
        BY <3>1, <3>2
      <4> HIDE DEF f
      <4> QED
        BY <4>1, <4>2
    <3> QED
      BY <1>1, <3>3, <3>4 DEF EditDone
  <2> QED
    BY <2>1, <2>2 DEF TrapAfter, CellTrap
<1> QED
  BY <1>8, <1>9, <1>10, <1>11 DEF Related
\* What leaves the collections alone, and of the purges changes at most whether
\* their screen still waits for them.
LEMMA QuietRelated ==
    ASSUME TypeOK, Fresh, UNCHANGED <<history, lists, placePurges>>,
           \/ listPurges' = listPurges
           \/ listPurges' = {[u EXCEPT !.own = FALSE] : u \in listPurges}
    PROVE  Related'
<1>a. TitlesBacked /\ IdsBacked /\ NoOrphan
  BY DEF Fresh, Intact
<1>1. \A o \in history : \A t \in o.list : BeingPurged(o, t) => BeingPurged(o, t)'
  <2>1. CASE listPurges' = listPurges
    BY <2>1 DEF BeingPurged
  <2>2. CASE listPurges' = {[u EXCEPT !.own = FALSE] : u \in listPurges}
    <3> SUFFICES ASSUME NEW o \in history, NEW t \in o.list, NEW u \in listPurges,
                        u.title = t, u.answered => o.doc \in DocsOf(u.docs)
                 PROVE  BeingPurged(o, t)'
      BY DEF BeingPurged
    <3>1. PICK v : v = [u EXCEPT !.own = FALSE]
      OBVIOUS
    <3>2. v.title = u.title /\ v.answered = u.answered /\ v.docs = u.docs
      BY <3>1 DEF TypeOK, ListPurge
    <3>3. v \in listPurges'
      BY <2>2, <3>1
    <3> QED
      BY <3>2, <3>3 DEF BeingPurged
  <2> QED
    BY <2>1, <2>2
<1>2. TitlesBacked'
  BY <1>a, <1>1 DEF TitlesBacked
<1>3. IdsBacked' /\ NoOrphan'
  BY <1>a DEF IdsBacked, NoOrphan, BeingTakenOut
<1> QED
  BY <1>2, <1>3 DEF Related

\* The cells that come back into view are those of FreshCells.
LEMMA NoCellTrap ==
    ASSUME NEW sv, \A o \in sv.places : o.list # {}
    PROVE  TrapAfter(sv) = "no"
BY DEF TrapAfter, CellTrap

\* Moving between the screens.
LEMMA IntactLook ==
    ASSUME TypeOK, Fresh, Look
    PROVE  Related' /\ crashed' \in {"no", crashed}
<1> USE DEF stores, views, purges
<1>1. UNCHANGED <<history, lists, placePurges>>
  BY DEF Look, OpenSaved, CloseSaved, OpenRecent, CloseDetail, ClosePlace, TapSave,
         CancelSave, CancelEdit, OpenDetail, OpenEdit, OpenPlace
<1>2. \/ listPurges' = listPurges
      \/ listPurges' = {[u EXCEPT !.own = FALSE] : u \in listPurges}
  BY DEF Look, OpenSaved, CloseSaved, OpenRecent, CloseDetail, ClosePlace, TapSave,
         CancelSave, CancelEdit, OpenDetail, OpenEdit, OpenPlace
<1>3. saved' = saved /\ BackToSaved => crashed' = "no"
  BY NoCellTrap DEF BackToSaved, Fresh, FreshCells
<1>4. \/ crashed' = crashed
      \/ saved' = saved /\ BackToSaved
  BY DEF Look, OpenSaved, CloseSaved, OpenRecent, CloseDetail, ClosePlace, TapSave,
         CancelSave, CancelEdit, OpenDetail, OpenEdit, OpenPlace
<1> QED
  BY <1>1, <1>2, <1>3, <1>4, QuietRelated

\* The completions.
LEMMA IntactClient ==
    ASSUME TypeOK, Apart, Fresh, Client, ~lost'
    PROVE  Related' /\ crashed' \in {"no", crashed}
<1>1. ASSUME NEW r \in reads, AnswerRead(r) \/ FailRead(r) \/ DeliverRead(r)
      PROVE  Related' /\ crashed' \in {"no", crashed}
  <2>1. UNCHANGED <<history, lists, listPurges, placePurges>>
    BY <1>1 DEF AnswerRead, FailRead, DeliverRead, DeliverLists, DeliverHistory,
                DeliverSaveLists, DeliverSaveIds, DeliverAddress, stores, purges
  <2>2. CASE DeliverHistory(r)
    <3>1. \A o \in DocsOfRead(r) : o.list # {}
      BY <2>2 DEF DeliverHistory, DocsOfRead, DocsNow, Fresh, FreshCells, Intact,
                  NoOrphan
    <3>2. \A o \in saved.places : o.list # {}
      BY DEF Fresh, FreshCells
    <3>3. saved'.places = IF DocsOfRead(r) = {} THEN saved.places ELSE DocsOfRead(r)
      BY <2>2 DEF DeliverHistory, ShowHistory, TypeOK
    <3>4. TrapAfter(saved') = "no"
      BY <3>1, <3>2, <3>3, NoCellTrap
    <3> QED
      BY <2>1, <2>2, <3>4, QuietRelated DEF DeliverHistory
  <2>3. CASE ~DeliverHistory(r)
    <3>1. crashed' = crashed
      BY <1>1, <2>3 DEF AnswerRead, FailRead, DeliverRead, DeliverLists,
                        DeliverSaveLists, DeliverSaveIds, DeliverAddress
    <3> QED
      BY <2>1, <3>1, QuietRelated
  <2> QED
    BY <2>2, <2>3
<1>2. ASSUME NEW a \in acks, DeliverAck(a)
      PROVE  Related' /\ crashed' \in {"no", crashed}
  <2>1. UNCHANGED <<history, lists, listPurges, placePurges, crashed>>
    BY <1>2 DEF DeliverAck, stores, purges
  <2> QED
    BY <2>1, QuietRelated
<1>3. CASE PurgeStep
  BY <1>3, IntactListPurge, IntactPlacePurge DEF PurgeStep
<1>4. ~FailPurge
  BY DEF FailPurge
<1> QED
  BY <1>1, <1>2, <1>3, <1>4 DEF Client

\* The user's edits.
LEMMA IntactEdit ==
    ASSUME TypeOK, CopiesKnowTheirDoc, Apart, Fresh, Edit
    PROVE  Related' /\ crashed' \in {"no", crashed}
<1>1. ASSUME NEW l \in saved.lists, DeleteList(l)
      PROVE  Related' /\ crashed' = crashed
  BY <1>1, IntactDeleteList DEF DeleteList
<1>2. ASSUME NEW lid \in ListIds, NEW t \in Titles, NewList(lid, t)
      PROVE  Related' /\ crashed' = crashed
  BY <1>2, IntactNewList DEF NewList
<1>3. ASSUME NEW o \in detail.rows, RemoveFromList(o)
      PROVE  Related' /\ crashed' = crashed
  BY <1>3, IntactRemoveFromList DEF RemoveFromList
<1>4. ASSUME NEW S \in SUBSET save.lists, NEW D \in SUBSET S, SaveAgain(S, D)
      PROVE  Related' /\ crashed' = crashed
  BY <1>4, IntactSaveAgain DEF SaveAgain
<1>5. ASSUME NEW S \in SUBSET save.lists, NEW D \in SUBSET S, NEW d \in DocIds,
             SaveNew(S, D, d)
      PROVE  Related' /\ crashed' = crashed
  BY <1>5, IntactSaveNew DEF SaveNew
<1> QED
  BY <1>1, <1>2, <1>3, <1>4, <1>5, IntactDeleteEverywhere, NoSaveTraps,
     IntactEditDone DEF Edit

\* The app is started again with no purge in flight.
LEMMA IntactRelaunch ==
    ASSUME TypeOK, Fresh, Relaunch, ~lost'
    PROVE  Related' /\ crashed' = "no"
<1>1. /\ UNCHANGED <<history, lists, listPurges, placePurges>>
      /\ crashed' = "no"
  BY DEF Relaunch, stores
<1> QED
  BY <1>1, QuietRelated

LEMMA FreshStep ==
    ASSUME TypeOK, CopiesKnowTheirDoc, Apart, Fresh, [Next]_vars, ~lost'
    PROVE  Intact' /\ crashed' \in {"no", crashed}
<1>1. Related' /\ crashed' \in {"no", crashed}
  <2>1. CASE Edit
    BY <2>1, IntactEdit
  <2>2. CASE Look
    BY <2>2, IntactLook
  <2>3. CASE Client
    BY <2>3, IntactClient
  <2>4. CASE Relaunch
    BY <2>4, IntactRelaunch
  <2>5. CASE UNCHANGED vars
    <3>1. UNCHANGED <<history, lists, listPurges, placePurges, crashed>>
      BY <2>5 DEF vars
    <3> QED
      BY <3>1, QuietRelated
  <2> QED
    BY <2>1, <2>2, <2>3, <2>4, <2>5 DEF Next
<1>2. UniqueIds' /\ OneDocPerPlace'
  BY FreshKnows, KnownStep DEF Fresh, Intact
<1> QED
  BY <1>1, <1>2 DEF Related, Intact

\* While the screen, its cells and the purges are fresh and no title is given
\* twice, no handler and no completion breaks the relation between history and
\* lists, and none traps: for every account, whatever its titles were, and
\* however many edits, reads and purges.  A title that is doubled in the step
\* itself (a new list, a list retitled like another) breaks nothing yet.
THEOREM FreshStepsIntact == Spec => FreshStepsStayIntact
<1>1. TypeOK /\ CopiesKnowTheirDoc /\ Apart /\ [Next]_vars
        => [Intact /\ TitlesApart /\ FreshScreen /\ FreshCells /\ FreshPurges /\ ~lost'
              => Intact' /\ crashed' \in {"no", crashed}]_vars
  BY FreshStep DEF Fresh
<1> QED
  BY TypeCorrect, SavesHaveDocument, AlwaysApart, <1>1, PTL DEF Spec, FreshStepsStayIntact
=============================================================================
