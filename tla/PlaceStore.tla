----------------------------- MODULE PlaceStore -----------------------------
(***************************************************************************)
(* The user's two Firestore collections, users/<uid>/history and           *)
(* users/<uid>/lists, and the operations ListDbController and              *)
(* PlaceDbController perform on them.  The two collections hold one        *)
(* relation twice: a history document names the titles of its lists, and a *)
(* list document names the ids of its places.  No operation updates both.  *)
(*                                                                         *)
(* A write of the Firestore client applies to the local view at once, in   *)
(* the order of the calls, so an operation is a function from the old      *)
(* collection to the new one.  updateData on a missing document changes    *)
(* nothing; setData writes the document whether it exists or not.          *)
(***************************************************************************)
EXTENDS Integers, FiniteSets

CONSTANTS
    Places,         \* map items, told apart by their address
    Titles,         \* list titles
    DefaultTitles,  \* the titles that Extensions.swift calls default
    ListIds,        \* document ids of the lists collection
    DocIds,         \* document ids of the history collection
    MaxId,          \* bound on the numeric place id
    NoKey,          \* the empty document id ""
    NoPlace,        \* no place
    NoTitle         \* no title

ASSUME DefaultAssumption == DefaultTitles \subseteq Titles
ASSUME BoundAssumption == MaxId \in Nat
ASSUME KeyAssumption == NoKey \notin ListIds \cup DocIds

PlaceIds == 0..MaxId

\* A Place object: a history document once read, or a search result, which
\* has no document (doc = NoKey), id 0 and no list.  Its array of titles is
\* the set of them and the set of those in it more than once; their order is
\* not kept.
Object == [doc   : DocIds \cup {NoKey}, place : Places \cup {NoPlace},
           id    : PlaceIds,            list  : SUBSET Titles,
           twice : SUBSET Titles]
HistoryDoc == {o \in Object : o.doc \in DocIds}
ListDoc == [lid : ListIds, title : Titles, places : SUBSET PlaceIds]

Unsaved(p) == [doc |-> NoKey, place |-> p, id |-> 0, list |-> {}, twice |-> {}]

DocsOf(os) == {o.doc : o \in os}
IdsOf(os) == {o.id : o \in os}
LidsOf(ls) == {l.lid : l \in ls}
TitlesOf(ls) == {l.title : l \in ls}

\* place.list.count == 1
InOneList(o) == o.twice = {} /\ \E t \in o.list : o.list = {t}

-----------------------------------------------------------------------------
(* Queries *)

PlacesInList(h, t) == {o \in h : t \in o.list}
PlacesAt(h, p) == {o \in h : o.place = p}
ListsTitled(ls, ts) == LidsOf({l \in ls : l.title \in ts})

\* ids.max() ?? 0, plus one
MutantNextId(ids) == 1 + Cardinality(ids)

NextId(ids) == 1 + CHOOSE m \in ids \cup {0} : \A i \in ids \cup {0} : i <= m

-----------------------------------------------------------------------------
(* history: PlaceDbController *)

AddPlaceToHistory(h, d, p, i, ts, dups) ==
    h \cup {[doc |-> d, place |-> p, id |-> i, list |-> ts, twice |-> dups]}

DeletePlace(h, d) == {o \in h : o.doc # d}

MutantUpdatePlace(h, o, ts, dups) == h \cup {[o EXCEPT !.list = ts, !.twice = dups]}

UpdatePlace(h, o, ts, dups) ==
    DeletePlace(h, o.doc) \cup {[o EXCEPT !.list = ts, !.twice = dups]}

\* arrayRemove takes every one of the title.
RemoveListInPlaces(h, ds, t) ==
    {IF o.doc \in ds THEN [o EXCEPT !.list = @ \ {t}, !.twice = @ \ {t}] ELSE o : o \in h}

MutantKeepsSingles(h, os, t) == RemoveListInPlaces(h, DocsOf(os), t)


\* Which branch a document takes depends on the copies os that were read,
\* not on what the collection holds now.
RemoveListFromSelectedPlaces(h, os, t) ==
    LET single == {o \in os : InOneList(o)}
    IN  RemoveListInPlaces({o \in h : o.doc \notin DocsOf(single)},
                           DocsOf(os \ single), t)

-----------------------------------------------------------------------------
(* lists: ListDbController *)

AddNewList(ls, lid, t) == ls \cup {[lid |-> lid, title |-> t, places |-> {}]}

DeleteListDoc(ls, lid) == {l \in ls : l.lid # lid}

UpdateListTitle(ls, lid, t) ==
    {IF l.lid = lid THEN [l EXCEPT !.title = t] ELSE l : l \in ls}

AddNewPlaceToLists(ls, lids, i) ==
    {IF l.lid \in lids THEN [l EXCEPT !.places = @ \cup {i}] ELSE l : l \in ls}

RemovePlacesFromLists(ls, lids, ids) ==
    {IF l.lid \in lids THEN [l EXCEPT !.places = @ \ ids] ELSE l : l \in ls}

\* updateTitleInPlaces: the in-memory copies are retitled, in the first place
\* of the title only, and then written back whole, one setData each.  M are the
\* copies that have the title more than twice.
Retitled(o, old, new, M) ==
    IF old \notin o.list THEN o
    ELSE [o EXCEPT !.list = (IF old \in o.twice THEN @ ELSE @ \ {old}) \cup {new},
                   !.twice = (IF o \in M THEN @ ELSE @ \ {old}) \cup ({new} \cap o.list)]

UpdateTitleInPlaces(h, os, old, new, M) ==
    {o \in h : o.doc \notin DocsOf(os)} \cup {Retitled(o, old, new, M) : o \in os}
=============================================================================
