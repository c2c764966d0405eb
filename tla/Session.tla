------------------------------ MODULE Session -------------------------------
(***************************************************************************)
(* What MapController shows of the signed-in user in its search panel: the *)
(* recent searches and the lists; with SavedController, which reads the    *)
(* lists too, and the two collections behind them.  Who is signed in comes *)
(* from Identity; each of its steps is taken together with what the screen *)
(* does at it.                                                             *)
(*                                                                         *)
(* Abstractions.  addDefaultLists adds the four default lists in one go    *)
(* and no default list is ever deleted (SavedPlaces), so the lists of an   *)
(* account are the number of times it was given them, and the lists shown  *)
(* are how many sets of whose are shown.  The user's own lists, and what   *)
(* SavedController shows, are in SavedPlaces.                              *)
(***************************************************************************)
EXTENDS Identity, Naturals, Sequences

CONSTANTS
    Texts, NoText,  \* what the user searches for
    MaxShown,       \* recent searches shown and read
    MaxReads,       \* bound on reads in flight
    MaxSets,        \* bound on sets of default lists
    MaxStored       \* bound on searches stored for one user

ASSUME ShownAssumption == MaxShown \in Nat \ {0}

ASSUME BoundAssumption == MaxReads \in Nat \ {0, 1} /\ MaxSets \in Nat /\ MaxStored \in Nat

VARIABLES
    stored,    \* the collection users/<uid>/search, in the order of adding
    sets,      \* sets of default lists in users/<uid>/lists
    searches,  \* searchVC.searches
    panel,     \* searchVC.lists: sets shown, by owner
    text,      \* searchText
    reads,     \* getDocuments in flight
    acks,      \* completions of addDefaultLists for the panel
    crashed,   \* how the app trapped, or "no"
    odd        \* what happened so far; only properties read it

vars == <<auth, userId, saved, stored, sets, searches, panel, text, reads,
          acks, crashed, odd>>

Search == [title : Texts, id : 1..MaxStored]
SearchesUpTo(max) == {q \in Seq(Search) : Len(q) <= max}
Read == [kind : {"searches", "lists"}, by : {"map", "saved"}, user : Users,
         turn : 1..MaxReads, answered : BOOLEAN, found : SearchesUpTo(MaxShown),
         n : 0..MaxSets]
Nobody == [u \in SomeUser |-> 0]
Oddities == {"failed", "overlap", "early", "switched"}

TypeOK ==
    /\ IdentityOK
    /\ stored \in [Users -> SearchesUpTo(MaxStored)]
    /\ sets \in [Users -> 0..MaxSets]
    /\ searches \in SearchesUpTo(MaxShown)
    /\ panel \in [SomeUser -> Nat]
    /\ text \in Texts \cup {NoText}
    /\ reads \subseteq Read
    /\ acks \in [Users -> Nat]
    /\ crashed \in {"no", "back", "defaults"}
    /\ odd \subseteq Oddities

-----------------------------------------------------------------------------
(***************************************************************************)
(* Asking.  A read is asked, answered with what the collection holds then, *)
(* and delivered on the main queue later.                                  *)
(***************************************************************************)
Turns == {n \in 1..MaxReads : \A r \in reads : r.turn # n}
First(S) == CHOOSE n \in S : \A m \in S : n <= m

ReadOf(kind, by, u, turn) ==
    [kind |-> kind, by |-> by, user |-> u, turn |-> turn, answered |-> FALSE,
     found |-> <<>>, n |-> 0]

\* The lists of u are being read, or being shown, already.
Busy(u) == acks[u] > 0 \/ \E r \in reads : r.kind = "lists" /\ r.user = u
Overlaps(u) == IF Busy(u) THEN {"overlap"} ELSE {}

AskLists(by, u) ==
    /\ Turns # {}
    /\ reads' = reads \cup {ReadOf("lists", by, u, First(Turns))}
    /\ odd' = odd \cup Overlaps(u)

BothReads(u, n, m) == {ReadOf("searches", "map", u, n), ReadOf("lists", "map", u, m)}

\* Reads or writes for the panel that outlive the user they were made for.
Outlived == \/ \E r \in reads : r.by = "map"
            \/ \E u \in Users : acks[u] > 0

Switched(u) ==
    IF u # userId /\ (Outlived \/ (userId # NoUser /\ u # NoUser))
    THEN {"switched"} ELSE {}

\* A sign-out that leaves somebody signed in.
Failing(u) == IF OnMap /\ u # NoUser THEN {"failed"} ELSE {}

\* retrieveSearches and retrieveLists
AskBoth(u) ==
    /\ \E n, m \in Turns :
         /\ n < m
         /\ \A k \in Turns : k = n \/ k >= m
         /\ reads' = reads \cup BothReads(u, n, m)
    /\ odd' = odd \cup Overlaps(u) \cup Switched(u) \cup Failing(u)

DefaultPanel == [Nobody EXCEPT ![NoUser] = 1]

ReloadSearchView(u) ==
    IF u # NoUser
    THEN AskBoth(u) /\ UNCHANGED panel
    ELSE /\ panel' = DefaultPanel
         /\ odd' = odd \cup Switched(u)
         /\ UNCHANGED reads

Launched == [reads |-> IF auth = NoUser THEN {} ELSE BothReads(auth, 1, 2),
             panel |-> IF auth = NoUser THEN DefaultPanel ELSE Nobody]

Init ==
    /\ IdentityInit
    /\ stored = [u \in Users |-> <<>>]
    /\ sets = [u \in Users |-> 0]
    /\ searches = <<>>
    /\ text = NoText
    /\ acks = [u \in Users |-> 0]
    /\ crashed = "no"
    /\ odd = {}
    /\ panel = Launched.panel
    /\ reads = Launched.reads

-----------------------------------------------------------------------------
(***************************************************************************)
(* The steps of Identity and what the screens do at them.                  *)
(***************************************************************************)
\* SavedController appears and reads the lists of its user.
SavedAppears(u) ==
    /\ AskLists("saved", u)
    /\ UNCHANGED <<stored, sets, searches, panel, text, acks, crashed>>

SignInEnds(u) == Arrive(u) /\ SavedAppears(u)

SignInEndsUnseen(u) ==
    /\ auth # u
    /\ SignedInUnseen(u)
    /\ odd' = odd \cup (IF auth = NoUser THEN {} ELSE {"switched"})
    /\ UNCHANGED <<stored, sets, searches, panel, text, reads, acks, crashed>>

OpenSaved == PushSaved /\ SavedAppears(auth)

\* A screen above SavedController is left.
SavedReappears ==
    /\ ~ OnMap
    /\ SavedAppears(saved.user)
    /\ UNCHANGED identity

\* viewWillDisappear: setUpSearchView after a sign-in, otherwise retrieveLists
\* for userId, whatever it is: a document with the empty name traps.
LeaveSaved ==
    /\ PopSaved
    /\ IF saved.from = "signUp"
       THEN ReloadSearchView(KnownAfter) /\ UNCHANGED crashed
       ELSE IF userId # NoUser
       THEN AskLists("map", userId) /\ UNCHANGED <<panel, crashed>>
       ELSE crashed' = "back" /\ UNCHANGED <<reads, odd, panel>>
    /\ UNCHANGED <<stored, sets, searches, text, acks>>

\* removeDetailFpc
ClosePanel ==
    /\ OnMap
    /\ userId # NoUser
    /\ AskLists("map", userId)
    /\ UNCHANGED <<identity, stored, sets, searches, panel, text, acks, crashed>>

\* resetMapView
MutantReset == searches
Reset == <<>>

MapLogOut ==
    /\ LogOut
    /\ searches' = Reset
    /\ ReloadSearchView(auth')
    /\ UNCHANGED <<stored, sets, text, acks, crashed>>

Relaunch ==
    /\ Launch
    /\ searches' = <<>>
    /\ text' = NoText
    /\ acks' = [u \in Users |-> 0]
    /\ panel' = Launched.panel
    /\ reads' = Launched.reads
    /\ UNCHANGED <<stored, sets, crashed, odd>>

-----------------------------------------------------------------------------
(***************************************************************************)
(* Recent searches.                                                        *)
(***************************************************************************)
\* The user searches; searchText is read when the answer has come.  A text may
\* be searched for, and so added, more than once without a step here.
BeginSearch(t) ==
    /\ OnMap
    /\ t # text
    /\ text' = t
    /\ UNCHANGED <<identity, stored, sets, searches, panel, reads, acks, crashed, odd>>

Ids(q) == {q[i].id : i \in DOMAIN q}
Titles(q) == {q[i].title : i \in DOMAIN q}
MaxId(q) == CHOOSE n \in Ids(q) : \A m \in Ids(q) : m <= n
MutantNextId(q) == Len(q) + 1
NextId(q) == IF q = <<>> THEN 1 ELSE MaxId(q) + 1

\* The newest search goes on top and the last row goes when the list is full.
MutantInserted(q, s) ==
    <<s>> \o (IF Len(q) > MaxShown THEN SubSeq(q, 1, Len(q) - 1) ELSE q)
Inserted(q, s) ==
    <<s>> \o (IF Len(q) > MaxShown - 1 THEN SubSeq(q, 1, Len(q) - 1) ELSE q)

\* The searches of userId are being read while one is added.
Early == IF \E r \in reads : r.kind = "searches" THEN {"early"} ELSE {}

\* addSearchToDb, once the search has answered and its block is run.
AddSearch ==
    /\ text # NoText
    /\ userId # NoUser
    /\ text \notin Titles(searches)
    /\ Len(stored[userId]) < MaxStored
    /\ NextId(searches) <= MaxStored
    /\ LET s == [title |-> text, id |-> NextId(searches)]
       IN /\ stored' = [stored EXCEPT ![userId] = Append(@, s)]
          /\ searches' = Inserted(searches, s)
    /\ odd' = odd \cup Early
    /\ UNCHANGED <<identity, sets, panel, text, reads, acks, crashed>>

-----------------------------------------------------------------------------
(***************************************************************************)
(* Answers.                                                                *)
(***************************************************************************)
\* order(by: "id", descending: true).limit(to: MaxShown); equal ids come in
\* either order.
Newest(q) ==
    LET n == IF Len(q) < MaxShown THEN Len(q) ELSE MaxShown
        Picks == {f \in [1..n -> DOMAIN q] :
                    /\ \A i, j \in 1..n : i < j =>
                         f[i] # f[j] /\ q[f[i]].id >= q[f[j]].id
                    /\ \A k \in DOMAIN q \ {f[i] : i \in 1..n} :
                         \A i \in 1..n : q[k].id <= q[f[i]].id}
    IN {[i \in 1..n |-> q[f[i]]] : f \in Picks}

Answered(r, found, n) ==
    reads' = (reads \ {r}) \cup
               {[r EXCEPT !.answered = TRUE, !.found = found, !.n = n]}

AnswerRead(r) ==
    /\ ~ r.answered
    /\ \/ /\ r.kind = "searches"
          /\ \E q \in Newest(stored[r.user]) : Answered(r, q, 0)
       \/ r.kind = "lists" /\ Answered(r, <<>>, sets[r.user])
    /\ UNCHANGED <<identity, stored, sets, searches, panel, text, acks, crashed, odd>>

\* An error is printed and the completion gets an empty array.
FailRead(r) ==
    /\ ~ r.answered
    /\ Answered(r, <<>>, 0)
    /\ odd' = odd \cup {"failed"}
    /\ UNCHANGED <<identity, stored, sets, searches, panel, text, acks, crashed>>

ShowSearches(r) ==
    /\ r.answered
    /\ r.kind = "searches"
    /\ searches' = r.found
    /\ reads' = reads \ {r}
    /\ UNCHANGED <<identity, stored, sets, panel, text, acks, crashed, odd>>

\* An account seems to have no lists.
MutantNoLists(r) == r.n <= 1
NoLists(r) == r.n = 0

\* What the panel shows after a read that found lists.
MutantShownLists(r) == [panel EXCEPT ![r.user] = r.n]
ShownLists(r) == [Nobody EXCEPT ![r.user] = r.n]

\* addDefaultLists: the writes are visible at once, their completion comes
\* from the server.
AddDefaults(u) ==
    /\ sets[u] < MaxSets
    /\ sets' = [sets EXCEPT ![u] = @ + 1]

ShowLists(r) ==
    /\ r.answered
    /\ r.kind = "lists"
    /\ r.by = "map"
    /\ reads' = reads \ {r}
    /\ \/ /\ ~ NoLists(r)
          /\ panel' = ShownLists(r)
          /\ UNCHANGED <<sets, acks, crashed>>
       \/ /\ NoLists(r)
          /\ userId # NoUser
          /\ AddDefaults(userId)
          /\ acks' = [acks EXCEPT ![userId] = @ + 1]
          /\ UNCHANGED <<panel, crashed>>
       \/ /\ NoLists(r)
          /\ userId = NoUser
          /\ crashed' = "defaults"
          /\ UNCHANGED <<sets, acks, panel>>
    /\ UNCHANGED <<identity, stored, searches, text, odd>>

SavedListsCome(r) ==
    /\ r.answered
    /\ r.kind = "lists"
    /\ r.by = "saved"
    /\ reads' = reads \ {r}
    /\ IF NoLists(r) THEN AddDefaults(r.user) ELSE UNCHANGED sets
    /\ UNCHANGED <<identity, stored, searches, panel, text, acks, crashed, odd>>

MutantAppended(u) == panel
Appended(u) == [panel EXCEPT ![u] = @ + 1]

\* The completion of addDefaultLists appends the new lists to those shown.
DefaultsAdded(u) ==
    /\ acks[u] > 0
    /\ acks' = [acks EXCEPT ![u] = @ - 1]
    /\ panel' = Appended(u)
    /\ UNCHANGED <<identity, stored, sets, searches, text, reads, crashed, odd>>

User ==
    \/ \E u \in Users : SignInEnds(u) \/ SignInEndsUnseen(u)
    \/ OpenSaved \/ SavedReappears \/ LeaveSaved \/ ClosePanel \/ MapLogOut
    \/ \E t \in Texts : BeginSearch(t)
    \/ AddSearch

Delivered(r) == ShowSearches(r) \/ ShowLists(r) \/ SavedListsCome(r)
Answer(r) == AnswerRead(r) \/ FailRead(r)

Next ==
    /\ crashed = "no"
    /\ \/ User
       \/ \E r \in reads : Answer(r) \/ Delivered(r)
       \/ \E u \in Users : DefaultsAdded(u)
       \/ Relaunch

Spec == Init /\ [][Next]_vars

\* Firestore calls back every query, acknowledges writes while the server is
\* there, and the main queue runs what is put on it.
AnswersTurn(n) == \E r \in reads : r.turn = n /\ Answer(r)
DeliversTurn(n) == \E r \in reads : r.turn = n /\ Delivered(r)
FairSpec ==
    /\ Spec
    /\ \A n \in 1..MaxReads : WF_vars(AnswersTurn(n)) /\ WF_vars(DeliversTurn(n))
    /\ \A u \in Users : WF_vars(DefaultsAdded(u))

-----------------------------------------------------------------------------
(***************************************************************************)
(* Properties.                                                             *)
(***************************************************************************)
\* addDefaultLists (ListDbController): an account is given its default lists
\* once, unless a read of its lists failed, overlapped another one or was
\* delivered to another user's panel.
DefaultsOnce ==
    odd \cap {"failed", "overlap", "switched"} = {} =>
        \A u \in Users : sets[u] <= 1

\* Nothing of one user is shown to another.  The search panel shows the lists
\* of userId, each once, and the placeholder lists only when nobody is signed
\* in, unless the user changed while something was in flight, reads of the
\* lists overlapped, or one failed; the recent searches shown are searches of
\* userId (resetMapView), unless the user changed while something was in flight.
OwnData ==
    /\ odd \cap {"failed", "overlap", "switched"} = {} =>
           \A v \in SomeUser : panel[v] > 0 =>
               \/ v = userId /\ (v = NoUser \/ panel[v] <= sets[v])
               \/ v = NoUser /\ panel[v] = 1 /\ Outlived
    /\ "switched" \notin odd =>
           \A i \in DOMAIN searches :
               /\ userId # NoUser
               /\ \E j \in DOMAIN stored[userId] : stored[userId][j] = searches[i]

\* addSearchToDb numbers searches from those shown: a later search has a
\* greater id, so that the newest are read back first, unless a read failed, a
\* search was added during one, or the user changed during one.
IdsIncrease ==
    odd \cap {"failed", "early", "switched"} = {} =>
        \A u \in Users : \A i, j \in DOMAIN stored[u] :
            i < j => stored[u][i].id < stored[u][j].id

\* The lists of a signed-in user get to the search panel, unless the app is
\* killed again and again.
PanelArrives ==
    <>[][~ Relaunch]_vars => \A u \in Users :
        (OnMap /\ userId = u)
            ~> (panel[u] > 0 \/ userId # u \/ ~ OnMap \/ odd # {} \/ crashed # "no")

=============================================================================
