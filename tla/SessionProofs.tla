---------------------------- MODULE SessionProofs -----------------------------
(***************************************************************************)
(* Proofs about Session, for any users, texts, reads and searches.         *)
(***************************************************************************)
EXTENDS Session, SequenceTheorems, WellFoundedInduction, TLAPS

Smooth == odd \cap {"failed", "overlap", "switched"} = {}

IsList(r) == r.kind = "lists"
Holds(u, s) == \E j \in 1..Len(stored[u]) : stored[u][j] = s

\* SavedController is on screen for somebody Auth knows, and reads the lists.
SavedOK ==
    /\ ~ OnMap => auth # NoUser
    /\ \A r \in reads : r.kind = "searches" => r.by = "map"
    /\ \A r \in reads : \A i \in 1..Len(r.found) : Holds(r.user, r.found[i])

\* Until the user changes at a bad moment, what the panel waits for and what it
\* shows are those of userId.
Owned ==
    /\ \A r \in reads : r.by = "map" => r.user = userId
    /\ \A u \in Users : acks[u] > 0 => u = userId
    /\ saved.from = "signUp" => saved.user = auth
    /\ \A i \in 1..Len(searches) : userId # NoUser /\ Holds(userId, searches[i])

OwnerOK == "switched" \notin odd => Owned

\* The lists of an account are read once at a time, and never while the panel
\* waits for its default lists; what has been read of them is still true.
OneRead ==
    \A r, s \in reads : IsList(r) /\ IsList(s) /\ r.user = s.user => r = s
ListsTrue ==
    \A r \in reads : IsList(r) =>
        acks[r.user] = 0 /\ (r.answered => r.n = sets[r.user])

\* The panel shows, or is about to show, no more than the lists of userId.
PanelTrue ==
    \A u \in Users :
        /\ sets[u] <= 1
        /\ u = userId => panel[u] + acks[u] <= sets[u]
        /\ u # userId => panel[u] = 0

\* The placeholder lists stay, after a sign-in, only until an answer that has
\* the lists the account was given while SavedController was there.
Placeholder ==
    /\ panel[NoUser] <= 1
    /\ panel[NoUser] > 0 /\ userId # NoUser =>
          sets[userId] > 0 /\ \E r \in reads : IsList(r) /\ r.by = "map"
SignedUp ==
    saved.from = "signUp" =>
        sets[saved.user] > 0 \/ \E r \in reads : IsList(r) /\ r.user = saved.user

Given == OneRead /\ ListsTrue /\ PanelTrue /\ Placeholder /\ SignedUp

ListsOK == Smooth => Given

\* The newest search of u is among those in q.
Latest(u, q) == stored[u] = <<>> \/ stored[u][Len(stored[u])].id \in Ids(q)

Ordered == odd \cap {"failed", "early", "switched"} = {}

Rising ==
    \A u \in Users : \A i, j \in 1..Len(stored[u]) :
        i < j => stored[u][i].id < stored[u][j].id
FoundLatest ==
    \A r \in reads : r.kind = "searches" /\ r.answered => Latest(r.user, r.found)
ShownLatest ==
    userId # NoUser =>
        (\E r \in reads : r.kind = "searches") \/ Latest(userId, searches)

Numbered == Rising /\ FoundLatest /\ ShownLatest

IdsOK == Ordered => Numbered

IInv == TypeOK /\ SavedOK /\ OwnerOK /\ ListsOK /\ IdsOK
-----------------------------------------------------------------------------
(* Sequences of searches, turns and maxima.                                *)

LEMMA SearchSeq ==
  ASSUME NEW m \in Nat, NEW q \in SearchesUpTo(m)
  PROVE  /\ q \in Seq(Search) /\ Len(q) \in 0..m /\ DOMAIN q = 1..Len(q)
         /\ \A i \in 1..Len(q) : q[i] \in Search
<1>1. q \in Seq(Search) /\ Len(q) <= m
  BY DEF SearchesUpTo
<1>2. Len(q) \in Nat /\ DOMAIN q = 1..Len(q) /\ \A i \in 1..Len(q) : q[i] \in Search
  BY <1>1, LenProperties, ElementOfSeq
<1> QED  BY <1>1, <1>2

LEMMA SeqSearches ==
  ASSUME NEW m \in Nat, NEW q \in Seq(Search), Len(q) <= m
  PROVE  q \in SearchesUpTo(m)
BY DEF SearchesUpTo

LEMMA NoSearches ==
  ASSUME NEW m \in Nat
  PROVE  <<>> \in SearchesUpTo(m)
<1> DEFINE none == <<>>
<1>1. none \in Seq(Search) /\ Len(none) = 0
  BY EmptySeq
<1> HIDE DEF none
<1>2. none \in SearchesUpTo(m)
  <2>1. Len(none) <= m
    BY <1>1
  <2> QED  BY <1>1, <2>1, SeqSearches
<1> QED  BY <1>2 DEF none

\* A bounded set of numbers has a least and a greatest.
LEMMA LeastOf ==
  ASSUME NEW S, S \subseteq Nat, S # {}
  PROVE  \E n \in S : \A m \in S : n <= m
<1> DEFINE R == OpToRel(<, Nat)
<1>1. IsWellFoundedOn(R, Nat)
  BY NatLessThanWellFounded
<1>2. PICK n \in S : \A m \in S : ~(<<m, n>> \in R)
  <2> HIDE DEF R
  <2> QED  BY <1>1, WFMin
<1>3. \A m \in S : ~(m < n)
  BY <1>2 DEF OpToRel
<1> QED  BY <1>3

LEMMA GreatestOf ==
  ASSUME NEW S, S \subseteq Nat, S # {}, NEW b \in Nat, \A i \in S : i <= b
  PROVE  \E n \in S : \A m \in S : m <= n
<1> DEFINE T == {k \in Nat : \E i \in S : k = b - i}
<1>1. \A i \in S : b - i \in T
  OBVIOUS
<1>2. T \subseteq Nat /\ T # {}
  BY <1>1
<1>3. PICK k \in T : \A m \in T : k <= m
  <2> HIDE DEF T
  <2> QED  BY <1>2, LeastOf
<1>4. PICK i \in S : k = b - i
  OBVIOUS
<1>5. \A j \in S : b - i <= b - j
  BY <1>1, <1>3, <1>4
<1>6. \A j \in S : j <= i
  BY <1>5
<1> QED  BY <1>6

LEMMA FirstTurn ==
  ASSUME Turns # {}
  PROVE  First(Turns) \in Turns /\ First(Turns) \in 1..MaxReads
<1>1. Turns \subseteq Nat /\ Turns \subseteq 1..MaxReads
  BY BoundAssumption DEF Turns
<1>2. \E n \in Turns : \A m \in Turns : n <= m
  BY <1>1, LeastOf
<1> QED  BY <1>1, <1>2 DEF First

\* The number of a new search is one more than the greatest of those shown.
LEMMA NextIdIs ==
  ASSUME NEW q \in SearchesUpTo(MaxShown)
  PROVE  /\ q = <<>> => NextId(q) = 1
         /\ q # <<>> => /\ MaxId(q) \in Ids(q) /\ \A m \in Ids(q) : m <= MaxId(q)
                        /\ NextId(q) = MaxId(q) + 1
         /\ NextId(q) \in Nat \ {0}
         /\ Ids(q) \subseteq 1..MaxStored
<1>1. /\ q \in Seq(Search) /\ DOMAIN q = 1..Len(q) /\ Len(q) \in Nat
      /\ \A i \in 1..Len(q) : q[i] \in Search
  BY SearchSeq, ShownAssumption
<1>2. Ids(q) \subseteq 1..MaxStored /\ Ids(q) \subseteq Nat /\ \A i \in Ids(q) : i <= MaxStored
  BY <1>1, BoundAssumption DEF Ids, Search
<1>3. ASSUME q # <<>>
      PROVE  MaxId(q) \in Ids(q) /\ \A m \in Ids(q) : m <= MaxId(q)
  <2>1. 1 \in 1..Len(q)
    BY <1>1, <1>3, EmptySeq
  <2>2. q[1].id \in Ids(q)
    BY <1>1, <2>1 DEF Ids
  <2>3. \E n \in Ids(q) : \A m \in Ids(q) : m <= n
    BY <1>2, <2>2, BoundAssumption, GreatestOf
  <2> QED  BY <2>3 DEF MaxId
<1> QED  BY <1>2, <1>3 DEF NextId

\* The search that is added, and what is shown with it.
LEMMA InsertedIs ==
  ASSUME NEW q \in SearchesUpTo(MaxShown), NEW s \in Search
  PROVE  /\ Inserted(q, s) \in SearchesUpTo(MaxShown)
         /\ Len(Inserted(q, s)) > 0 /\ Inserted(q, s)[1] = s
         /\ \A i \in 1..Len(Inserted(q, s)) :
               \/ Inserted(q, s)[i] = s
               \/ \E j \in 1..Len(q) : Inserted(q, s)[i] = q[j]
<1> DEFINE n == Len(q)
           long == n > MaxShown - 1
           tail == IF long THEN SubSeq(q, 1, n - 1) ELSE q
<1>1. q \in Seq(Search) /\ n \in Nat /\ n <= MaxShown /\ \A i \in 1..n : q[i] \in Search
  BY SearchSeq, ShownAssumption
<1>2. MaxShown \in Nat \ {0}
  BY ShownAssumption
<1>3. /\ tail \in Seq(Search) /\ Len(tail) \in Nat /\ Len(tail) + 1 <= MaxShown
      /\ \A i \in 1..Len(tail) : i \in 1..n /\ tail[i] = q[i]
  <2>1. CASE long
    <3> DEFINE k == n - 1
    <3>1. k \in Nat /\ k <= n /\ k + 1 = n
      BY <1>1, <1>2, <2>1
    <3>2. \A i \in 1..k : q[i] \in Search
      BY <1>1, <3>1
    <3> HIDE DEF k, n
    <3>3. /\ SubSeq(q, 1, k) \in Seq(Search)
          /\ Len(SubSeq(q, 1, k)) = IF 1 <= k THEN k - 1 + 1 ELSE 0
          /\ \A i \in 1..(k - 1 + 1) : SubSeq(q, 1, k)[i] = q[1 + i - 1]
      BY <3>1, <3>2, SubSeqProperties
    <3>4. Len(SubSeq(q, 1, k)) = k /\ \A i \in 1..k : SubSeq(q, 1, k)[i] = q[i]
      BY <3>1, <3>3
    <3>5. \A i \in 1..k : i \in 1..n
      BY <1>1, <3>1
    <3>6. tail = SubSeq(q, 1, k)
      BY <2>1 DEF k
    <3> QED  BY <1>1, <3>1, <3>3, <3>4, <3>5, <3>6
  <2>2. CASE ~long
    <3>1. tail = q /\ n + 1 <= MaxShown
      BY <1>1, <1>2, <2>2
    <3> QED  BY <1>1, <3>1
  <2> QED  BY <2>1, <2>2
<1>4. Inserted(q, s) = <<s>> \o tail
  BY DEF Inserted
<1> HIDE DEF tail, long, n
<1> DEFINE one == <<s>>
<1>5. one \in Seq(Search) /\ Len(one) = 1 /\ one[1] = s
  OBVIOUS
<1> HIDE DEF one
<1>6. /\ one \o tail \in Seq(Search) /\ Len(one \o tail) = 1 + Len(tail)
      /\ \A i \in 1..(1 + Len(tail)) :
            (one \o tail)[i] = IF i <= 1 THEN one[i] ELSE tail[i - 1]
  <2>1. /\ one \o tail \in Seq(Search) /\ Len(one \o tail) = Len(one) + Len(tail)
        /\ \A i \in 1..(Len(one) + Len(tail)) :
              (one \o tail)[i] = IF i <= Len(one) THEN one[i] ELSE tail[i - Len(one)]
    BY <1>3, <1>5, ConcatProperties
  <2> QED  BY <1>5, <2>1
<1>7. Len(one \o tail) <= MaxShown
  BY <1>3, <1>6
<1>8. one \o tail \in SearchesUpTo(MaxShown)
  BY <1>2, <1>6, <1>7, SeqSearches
<1>9. \A i \in 1..Len(one \o tail) :
         (one \o tail)[i] = s \/ \E j \in 1..n : (one \o tail)[i] = q[j]
  <2> SUFFICES ASSUME NEW i \in 1..(1 + Len(tail))
               PROVE  (one \o tail)[i] = s \/ \E j \in 1..n : (one \o tail)[i] = q[j]
    BY <1>6
  <2>1. CASE i = 1
    BY <1>5, <1>6, <2>1
  <2>2. CASE i # 1
    <3>1. i - 1 \in 1..Len(tail)
      BY <1>3, <2>2
    <3>2. (one \o tail)[i] = tail[i - 1]
      BY <1>3, <1>6, <2>2
    <3> QED  BY <1>3, <3>1, <3>2
  <2> QED  BY <2>1, <2>2
<1>10. Len(one \o tail) > 0 /\ (one \o tail)[1] = s
  BY <1>3, <1>5, <1>6
<1> QED  BY <1>4, <1>8, <1>9, <1>10 DEF one, n
\* What a query of the recent searches may find.
LEMMA NewestIs ==
  ASSUME NEW q \in SearchesUpTo(MaxStored), NEW p \in Newest(q)
  PROVE  /\ p \in SearchesUpTo(MaxShown)
         /\ \A i \in 1..Len(p) : \E j \in 1..Len(q) : p[i] = q[j]
         /\ q # <<>> /\ (\A i, j \in 1..Len(q) : i < j => q[i].id < q[j].id) =>
               q[Len(q)].id \in Ids(p)
<1> DEFINE l == Len(q)
           n == IF l < MaxShown THEN l ELSE MaxShown
<1>1. /\ q \in Seq(Search) /\ l \in Nat /\ DOMAIN q = 1..l
      /\ \A i \in 1..l : q[i] \in Search
  BY SearchSeq, BoundAssumption
<1>2. n \in Nat /\ n <= MaxShown /\ (l # 0 => n # 0)
  BY <1>1, ShownAssumption
<1>3. PICK f \in [1..n -> DOMAIN q] :
         /\ \A i, j \in 1..n : i < j => f[i] # f[j] /\ q[f[i]].id >= q[f[j]].id
         /\ \A k \in DOMAIN q \ {f[i] : i \in 1..n} : \A i \in 1..n : q[k].id <= q[f[i]].id
         /\ p = [i \in 1..n |-> q[f[i]]]
  BY DEF Newest
<1> HIDE DEF n, l
<1>4. \A i \in 1..n : f[i] \in 1..l /\ p[i] = q[f[i]] /\ p[i] \in Search
  BY <1>1, <1>3
<1>5. p \in [1..n -> Search] /\ DOMAIN p = 1..n
  BY <1>3, <1>4
<1>6. p \in Seq(Search)
  BY <1>2, <1>5, SeqDef
<1>7. Len(p) = n
  BY <1>2, <1>5, <1>6, LenProperties
<1>8. p \in SearchesUpTo(MaxShown)
  BY <1>2, <1>6, <1>7, ShownAssumption, SeqSearches
<1>9. ASSUME q # <<>>, \A i, j \in 1..l : i < j => q[i].id < q[j].id
      PROVE  q[l].id \in Ids(p)
  <2>1. l \in 1..l /\ 1 \in 1..n
    BY <1>1, <1>2, <1>9, EmptySeq DEF l
  <2>2. CASE \E i \in 1..n : f[i] = l
    BY <1>4, <1>5, <2>2 DEF Ids
  <2>3. CASE ~\E i \in 1..n : f[i] = l
    <3>1. l \in DOMAIN q \ {f[i] : i \in 1..n}
      BY <1>1, <2>1, <2>3
    <3>2. q[l].id <= q[f[1]].id
      BY <1>3, <2>1, <3>1
    <3>3. f[1] \in 1..l /\ f[1] # l
      BY <1>4, <2>1, <2>3
    <3>4. f[1] < l
      BY <1>1, <3>3
    <3>5. q[f[1]].id < q[l].id
      BY <1>9, <2>1, <3>3, <3>4
    <3>6. q[f[1]].id \in Nat /\ q[l].id \in Nat
      BY <1>1, <2>1, <3>3 DEF Search
    <3> QED  BY <3>2, <3>5, <3>6
  <2> QED  BY <2>2, <2>3
<1> QED  BY <1>4, <1>7, <1>8, <1>9 DEF l
-----------------------------------------------------------------------------
(* Reads and types.                                                        *)

\* What the type of a state says, in the form the proofs use.
LEMMA Facts ==
  ASSUME TypeOK
  PROVE  /\ auth \in SomeUser /\ userId \in SomeUser /\ NoUser \notin Users
         /\ saved \in [from : SavedFrom, user : Users] \cup {NotSaved}
         /\ saved # NotSaved => saved.user \in Users /\ saved.from \in SavedFrom
         /\ \A u \in Users : /\ stored[u] \in SearchesUpTo(MaxStored) /\ sets[u] \in Nat
                             /\ sets[u] <= MaxSets /\ acks[u] \in Nat /\ panel[u] \in Nat
         /\ panel[NoUser] \in Nat
         /\ searches \in SearchesUpTo(MaxShown)
         /\ \A r \in reads :
               /\ r \in Read /\ r.user \in Users /\ r.turn \in 1..MaxReads
               /\ r.kind \in {"searches", "lists"} /\ r.by \in {"map", "saved"}
               /\ r.answered \in BOOLEAN
               /\ r.found \in SearchesUpTo(MaxShown) /\ r.n \in 0..MaxSets
<1> USE UserAssumption, BoundAssumption
<1>1. /\ auth \in SomeUser /\ userId \in SomeUser /\ NoUser \notin Users
      /\ saved \in [from : SavedFrom, user : Users] \cup {NotSaved}
      /\ saved # NotSaved => saved.user \in Users /\ saved.from \in SavedFrom
  BY DEF TypeOK, IdentityOK
<1>2. /\ \A u \in Users : /\ stored[u] \in SearchesUpTo(MaxStored) /\ sets[u] \in Nat
                          /\ sets[u] <= MaxSets /\ acks[u] \in Nat /\ panel[u] \in Nat
      /\ panel[NoUser] \in Nat
      /\ searches \in SearchesUpTo(MaxShown)
  BY DEF TypeOK, SomeUser
<1>3. \A r \in reads :
         /\ r \in Read /\ r.user \in Users /\ r.turn \in 1..MaxReads
         /\ r.kind \in {"searches", "lists"} /\ r.by \in {"map", "saved"}
         /\ r.answered \in BOOLEAN
         /\ r.found \in SearchesUpTo(MaxShown) /\ r.n \in 0..MaxSets
  BY DEF TypeOK, Read
<1> QED  BY <1>1, <1>2, <1>3

\* A read that is made.
LEMMA ReadMade ==
  ASSUME NEW kind \in {"searches", "lists"}, NEW by \in {"map", "saved"},
         NEW u \in Users, NEW turn \in 1..MaxReads
  PROVE  LET r == ReadOf(kind, by, u, turn)
         IN  /\ r \in Read /\ r.kind = kind /\ r.by = by /\ r.user = u /\ r.turn = turn
             /\ ~r.answered /\ r.found = <<>> /\ r.n = 0
<1>1. 0 \in 0..MaxSets
  BY BoundAssumption
<1>2. <<>> \in SearchesUpTo(MaxShown)
  BY ShownAssumption, NoSearches
<1> DEFINE none == <<>>
           r == [kind |-> kind, by |-> by, user |-> u, turn |-> turn, answered |-> FALSE,
                 found |-> none, n |-> 0]
<1>3. none \in SearchesUpTo(MaxShown)
  BY <1>2
<1> HIDE DEF none
<1>4. /\ r \in Read /\ r.kind = kind /\ r.by = by /\ r.user = u /\ r.turn = turn
      /\ ~r.answered /\ r.found = none /\ r.n = 0
  BY <1>1, <1>3 DEF Read
<1>5. ReadOf(kind, by, u, turn) = r
  BY DEF ReadOf, none
<1> HIDE DEF r
<1> QED  BY <1>4, <1>5 DEF none

\* A question for lists, and the two questions for a user.
LEMMA ListsAsked ==
  ASSUME TypeOK, NEW by \in {"map", "saved"}, NEW u \in Users, AskLists(by, u)
  PROVE  \E r \in Read :
            /\ reads' = reads \cup {r} /\ odd' = odd \cup Overlaps(u)
            /\ r.kind = "lists" /\ r.by = by /\ r.user = u /\ ~r.answered /\ r.found = <<>>
<1> DEFINE turn == First(Turns)
           r == ReadOf("lists", by, u, turn)
<1>1. reads' = reads \cup {r} /\ odd' = odd \cup Overlaps(u) /\ turn \in 1..MaxReads
  BY FirstTurn DEF AskLists
<1> HIDE DEF turn
<1>2. r \in Read /\ r.kind = "lists" /\ r.by = by /\ r.user = u /\ ~r.answered /\ r.found = <<>>
  BY <1>1, ReadMade
<1> QED  BY <1>1, <1>2

LEMMA BothAsked ==
  ASSUME NEW u \in Users, NEW n \in 1..MaxReads, NEW m \in 1..MaxReads
  PROVE  \E q, r \in Read :
            /\ BothReads(u, n, m) = {q, r}
            /\ q.kind = "searches" /\ q.by = "map" /\ q.user = u /\ ~q.answered /\ q.found = <<>>
            /\ r.kind = "lists" /\ r.by = "map" /\ r.user = u /\ ~r.answered /\ r.found = <<>>
<1> DEFINE q == ReadOf("searches", "map", u, n)
           r == ReadOf("lists", "map", u, m)
<1>1. q \in Read /\ q.kind = "searches" /\ q.by = "map" /\ q.user = u /\ ~q.answered /\ q.found = <<>>
  BY ReadMade
<1>2. r \in Read /\ r.kind = "lists" /\ r.by = "map" /\ r.user = u /\ ~r.answered /\ r.found = <<>>
  BY ReadMade
<1>3. BothReads(u, n, m) = {q, r}
  BY DEF BothReads
<1> HIDE DEF q, r
<1> QED  BY <1>1, <1>2, <1>3

\* A read that is answered is the same read.
LEMMA ReadAnswered ==
  ASSUME NEW r \in Read, NEW found \in SearchesUpTo(MaxShown), NEW n \in 0..MaxSets,
         Answered(r, found, n)
  PROVE  \E a \in Read :
            /\ reads' = (reads \ {r}) \cup {a}
            /\ a.kind = r.kind /\ a.by = r.by /\ a.user = r.user
            /\ a.answered /\ a.found = found /\ a.n = n
<1> DEFINE a == [r EXCEPT !.answered = TRUE, !.found = found, !.n = n]
<1>1. /\ a \in Read /\ a.kind = r.kind /\ a.by = r.by /\ a.user = r.user
      /\ a.answered /\ a.found = found /\ a.n = n
  BY DEF Read
<1>2. reads' = (reads \ {r}) \cup {a}
  BY DEF Answered
<1> HIDE DEF a
<1> QED  BY <1>1, <1>2
LEMMA Panels ==
  /\ Nobody \in [SomeUser -> Nat] /\ \A v \in SomeUser : Nobody[v] = 0
  /\ DefaultPanel \in [SomeUser -> Nat] /\ DefaultPanel[NoUser] = 1
  /\ \A u \in Users : DefaultPanel[u] = 0
  /\ \A r \in Read : /\ ShownLists(r) \in [SomeUser -> Nat] /\ ShownLists(r)[r.user] = r.n
                     /\ \A v \in SomeUser : v # r.user => ShownLists(r)[v] = 0
<1>1. Nobody \in [SomeUser -> Nat] /\ \A v \in SomeUser : Nobody[v] = 0
  BY DEF Nobody
<1>2. NoUser \in SomeUser /\ \A u \in Users : u \in SomeUser /\ u # NoUser
  BY UserAssumption DEF SomeUser
<1>3. /\ DefaultPanel \in [SomeUser -> Nat] /\ DefaultPanel[NoUser] = 1
      /\ \A u \in Users : DefaultPanel[u] = 0
  BY <1>1, <1>2 DEF DefaultPanel
<1>4. ASSUME NEW r \in Read
      PROVE  /\ ShownLists(r) \in [SomeUser -> Nat] /\ ShownLists(r)[r.user] = r.n
             /\ \A v \in SomeUser : v # r.user => ShownLists(r)[v] = 0
  <2>1. r.user \in SomeUser /\ r.n \in Nat
    BY <1>2, BoundAssumption DEF Read
  <2> QED  BY <1>1, <2>1 DEF ShownLists
<1> QED  BY <1>1, <1>3, <1>4

LEMMA IdentityKept ==
  ASSUME IdentityOK, IdentityNext \/ UNCHANGED identity
  PROVE  IdentityOK'
<1>1. CASE \E u \in Users : Arrive(u) \/ SignedInUnseen(u)
  BY <1>1 DEF IdentityOK, Arrive, SignedInUnseen, SomeUser, SavedFrom, NotSaved
<1>2. CASE PushSaved
  BY <1>2 DEF IdentityOK, PushSaved, SomeUser, SavedFrom, NotSaved
<1>3. CASE PopSaved
  BY <1>3 DEF IdentityOK, PopSaved, KnownAfter, SomeUser, SavedFrom, NotSaved
<1>4. CASE LogOut
  BY <1>4 DEF IdentityOK, LogOut, SomeUser, SavedFrom, NotSaved
<1>5. CASE Launch
  BY <1>5 DEF IdentityOK, Launch, SomeUser, SavedFrom, NotSaved
<1>6. CASE UNCHANGED identity
  BY <1>6 DEF IdentityOK, identity, SomeUser, SavedFrom, NotSaved
<1> QED  BY <1>1, <1>2, <1>3, <1>4, <1>5, <1>6 DEF IdentityNext

\* The parts of the type that reads and mishaps make up.
LEMMA TypeKept ==
  ASSUME TypeOK, IdentityOK', stored' = stored, sets' = sets, searches' = searches,
         panel' = panel, text' = text, acks' = acks, crashed' = crashed,
         \A r \in reads' : r \in reads \/ r \in Read,
         odd' \subseteq odd \cup Oddities
  PROVE  TypeOK'
<1>1. reads' \subseteq Read /\ odd' \subseteq Oddities
  BY DEF TypeOK
<1> QED  BY <1>1 DEF TypeOK

LEMMA OverlapsAre ==
  ASSUME NEW u
  PROVE  Overlaps(u) \subseteq {"overlap"} /\ Switched(u) \subseteq {"switched"}
         /\ Failing(u) \subseteq {"failed"} /\ Early \subseteq {"early"}
         /\ {"overlap", "switched", "failed", "early"} \subseteq Oddities
BY DEF Overlaps, Switched, Failing, Early, Oddities

\* A step that asks for the lists of u and changes nothing else of its own.
Asks(by, u) ==
    /\ u \in Users
    /\ \E r \in Read :
          /\ reads' = reads \cup {r} /\ odd' = odd \cup Overlaps(u)
          /\ r.kind = "lists" /\ r.by = by /\ r.user = u /\ ~r.answered /\ r.found = <<>>
    /\ UNCHANGED <<stored, sets, searches, panel, text, acks, crashed>>

LEMMA AsksIs ==
  ASSUME TypeOK
  PROVE  /\ \A u \in Users : SignInEnds(u) => Arrive(u) /\ Asks("saved", u)
         /\ OpenSaved => PushSaved /\ Asks("saved", auth)
         /\ SavedReappears => UNCHANGED identity /\ ~OnMap /\ Asks("saved", saved.user)
         /\ ClosePanel => UNCHANGED identity /\ OnMap /\ userId # NoUser /\ Asks("map", userId)
         /\ LeaveSaved /\ saved.from # "signUp" /\ userId # NoUser =>
               PopSaved /\ Asks("map", userId)
<1>1. \A by \in {"map", "saved"} : \A u \in Users :
         /\ AskLists(by, u)
         /\ UNCHANGED <<stored, sets, searches, panel, text, acks, crashed>>
         => Asks(by, u)
  BY ListsAsked DEF Asks
<1>2. ASSUME NEW u \in Users, SignInEnds(u)
      PROVE  Arrive(u) /\ Asks("saved", u)
  BY <1>1, <1>2 DEF SignInEnds, SavedAppears
<1>3. ASSUME OpenSaved
      PROVE  PushSaved /\ Asks("saved", auth)
  <2>1. auth \in Users
    BY <1>3, Facts DEF OpenSaved, PushSaved, SomeUser
  <2> QED  BY <1>1, <1>3, <2>1 DEF OpenSaved, SavedAppears
<1>4. ASSUME SavedReappears
      PROVE  UNCHANGED identity /\ ~OnMap /\ Asks("saved", saved.user)
  <2>1. saved.user \in Users
    BY <1>4, Facts DEF SavedReappears, OnMap
  <2> QED  BY <1>1, <1>4, <2>1 DEF SavedReappears, SavedAppears
<1>5. ASSUME ClosePanel
      PROVE  UNCHANGED identity /\ OnMap /\ userId # NoUser /\ Asks("map", userId)
  <2>1. userId \in Users
    BY <1>5, Facts DEF ClosePanel, SomeUser
  <2> QED  BY <1>1, <1>5, <2>1 DEF ClosePanel
<1>6. ASSUME LeaveSaved, saved.from # "signUp", userId # NoUser
      PROVE  PopSaved /\ Asks("map", userId)
  <2>1. userId \in Users
    BY <1>6, Facts DEF SomeUser
  <2> QED  BY <1>1, <1>6, <2>1 DEF LeaveSaved
<1> QED  BY <1>2, <1>3, <1>4, <1>5, <1>6

\* A step that reloads the search view for u, whom MapController then knows.
Reloads(u) ==
    /\ u \in SomeUser /\ userId' = u
    /\ saved' = NotSaved
    /\ UNCHANGED <<stored, sets, text, acks, crashed>>
    /\ \/ /\ u # NoUser
          /\ panel' = panel
          /\ odd' = odd \cup Overlaps(u) \cup Switched(u) \cup Failing(u)
          /\ \E q, r \in Read :
                /\ reads' = reads \cup {q, r}
                /\ q.kind = "searches" /\ q.by = "map" /\ q.user = u /\ ~q.answered /\ q.found = <<>>
                /\ r.kind = "lists" /\ r.by = "map" /\ r.user = u /\ ~r.answered /\ r.found = <<>>
       \/ /\ u = NoUser
          /\ panel' = DefaultPanel
          /\ odd' = odd \cup Switched(u)
          /\ reads' = reads

LEMMA ReloadIs ==
  ASSUME TypeOK, NEW u \in SomeUser, ReloadSearchView(u), userId' = u, saved' = NotSaved,
         UNCHANGED <<stored, sets, text, acks, crashed>>
  PROVE  Reloads(u)
<1>1. CASE u # NoUser
  <2>1. u \in Users
    BY <1>1 DEF SomeUser
  <2>2. PICK n, m \in Turns : reads' = reads \cup BothReads(u, n, m)
    BY <1>1 DEF ReloadSearchView, AskBoth
  <2>3. n \in 1..MaxReads /\ m \in 1..MaxReads
    BY DEF Turns
  <2>4. PICK q, r \in Read :
            /\ BothReads(u, n, m) = {q, r}
            /\ q.kind = "searches" /\ q.by = "map" /\ q.user = u /\ ~q.answered /\ q.found = <<>>
            /\ r.kind = "lists" /\ r.by = "map" /\ r.user = u /\ ~r.answered /\ r.found = <<>>
    BY <2>1, <2>3, BothAsked
  <2>5. /\ odd' = odd \cup Overlaps(u) \cup Switched(u) \cup Failing(u)
        /\ panel' = panel /\ reads' = reads \cup {q, r}
    BY <1>1, <2>2, <2>4 DEF ReloadSearchView, AskBoth
  <2> QED  BY <1>1, <2>4, <2>5 DEF Reloads
<1>2. CASE u = NoUser
  BY <1>2 DEF ReloadSearchView, Reloads
<1> QED  BY <1>1, <1>2

LEMMA LeaveSavedIs ==
  ASSUME TypeOK, SavedOK, LeaveSaved, saved.from = "signUp"
  PROVE  /\ Reloads(auth) /\ searches' = searches /\ auth' = auth /\ auth # NoUser
         /\ saved # NotSaved
<1>1. /\ PopSaved /\ ReloadSearchView(KnownAfter)
      /\ UNCHANGED <<stored, sets, searches, text, acks, crashed>>
  BY DEF LeaveSaved
<1>2. KnownAfter = auth /\ userId' = auth /\ saved' = NotSaved /\ auth' = auth /\ saved # NotSaved
  BY <1>1 DEF PopSaved, KnownAfter, OnMap
<1>3. auth \in SomeUser /\ auth # NoUser
  BY <1>2, Facts DEF SavedOK, OnMap
<1>4. Reloads(auth)
  BY <1>1, <1>2, <1>3, ReloadIs
<1> QED  BY <1>1, <1>2, <1>3, <1>4

LEMMA LogOutIs ==
  ASSUME TypeOK, MapLogOut
  PROVE  \E u \in {NoUser, auth} : Reloads(u) /\ searches' = <<>> /\ OnMap /\ auth' = u
<1>1. /\ LogOut /\ searches' = <<>> /\ ReloadSearchView(auth')
      /\ UNCHANGED <<stored, sets, text, acks, crashed>>
  BY DEF MapLogOut, Reset
<1>2. PICK u \in {NoUser, auth} : auth' = u
  BY <1>1 DEF LogOut
<1>3. userId' = u /\ saved' = NotSaved /\ OnMap
  BY <1>1, <1>2 DEF LogOut, OnMap
<1>4. ReloadSearchView(u)
  BY <1>1, <1>2
<1>5. u \in SomeUser
  BY Facts DEF SomeUser
<1>6. Reloads(u)
  BY <1>1, <1>3, <1>4, <1>5, ReloadIs
<1> QED  BY <1>1, <1>2, <1>3, <1>6
LEMMA LaunchedIs ==
  ASSUME auth \in SomeUser
  PROVE  \/ auth = NoUser /\ Launched.reads = {} /\ Launched.panel = DefaultPanel
         \/ /\ auth # NoUser /\ Launched.panel = Nobody
            /\ \E q, r \in Read :
                  /\ Launched.reads = {q, r}
                  /\ q.kind = "searches" /\ q.by = "map" /\ q.user = auth /\ ~q.answered /\ q.found = <<>>
                  /\ r.kind = "lists" /\ r.by = "map" /\ r.user = auth /\ ~r.answered /\ r.found = <<>>
<1>1. CASE auth = NoUser
  BY <1>1 DEF Launched
<1>2. CASE auth # NoUser
  <2>1. auth \in Users /\ 1 \in 1..MaxReads /\ 2 \in 1..MaxReads
    BY <1>2, BoundAssumption DEF SomeUser
  <2>2. PICK q, r \in Read :
            /\ BothReads(auth, 1, 2) = {q, r}
            /\ q.kind = "searches" /\ q.by = "map" /\ q.user = auth /\ ~q.answered /\ q.found = <<>>
            /\ r.kind = "lists" /\ r.by = "map" /\ r.user = auth /\ ~r.answered /\ r.found = <<>>
    BY <2>1, BothAsked
  <2>3. Launched.reads = {q, r} /\ Launched.panel = Nobody
    BY <1>2, <2>2 DEF Launched
  <2> QED  BY <1>2, <2>2, <2>3
<1> QED  BY <1>1, <1>2

LEMMA AnswerIs ==
  ASSUME TypeOK, NEW r \in reads, Answer(r)
  PROVE  /\ UNCHANGED <<identity, stored, sets, searches, panel, text, acks, crashed>>
         /\ ~r.answered
         /\ \E a \in Read :
               /\ reads' = (reads \ {r}) \cup {a}
               /\ a.kind = r.kind /\ a.by = r.by /\ a.user = r.user /\ a.answered
               /\ \/ r.kind = "searches" /\ a.found \in Newest(stored[r.user]) /\ odd' = odd
                  \/ r.kind = "lists" /\ a.found = <<>> /\ a.n = sets[r.user] /\ odd' = odd
                  \/ a.found = <<>> /\ odd' = odd \cup {"failed"}
<1>1. r \in Read /\ r.user \in Users
  BY Facts
<1>2. /\ UNCHANGED <<identity, stored, sets, searches, panel, text, acks, crashed>>
      /\ ~r.answered
  BY DEF Answer, AnswerRead, FailRead
<1>3. 0 \in 0..MaxSets /\ <<>> \in SearchesUpTo(MaxShown)
  BY BoundAssumption, ShownAssumption, NoSearches
<1>4. sets[r.user] \in 0..MaxSets /\ stored[r.user] \in SearchesUpTo(MaxStored)
  BY <1>1, Facts DEF TypeOK
<1>5. ASSUME r.kind = "searches", NEW q \in Newest(stored[r.user]), Answered(r, q, 0), odd' = odd
      PROVE  \E a \in Read :
               /\ reads' = (reads \ {r}) \cup {a}
               /\ a.kind = r.kind /\ a.by = r.by /\ a.user = r.user /\ a.answered
               /\ r.kind = "searches" /\ a.found \in Newest(stored[r.user]) /\ odd' = odd
  <2>1. q \in SearchesUpTo(MaxShown)
    BY <1>4, NewestIs
  <2>2. PICK a \in Read :
            /\ reads' = (reads \ {r}) \cup {a}
            /\ a.kind = r.kind /\ a.by = r.by /\ a.user = r.user
            /\ a.answered /\ a.found = q /\ a.n = 0
    BY <1>1, <1>3, <1>5, <2>1, ReadAnswered
  <2> QED  BY <1>5, <2>2
<1>6. ASSUME r.kind = "lists", Answered(r, <<>>, sets[r.user]), odd' = odd
      PROVE  \E a \in Read :
               /\ reads' = (reads \ {r}) \cup {a}
               /\ a.kind = r.kind /\ a.by = r.by /\ a.user = r.user /\ a.answered
               /\ r.kind = "lists" /\ a.found = <<>> /\ a.n = sets[r.user] /\ odd' = odd
  <2>1. PICK none \in SearchesUpTo(MaxShown), n \in 0..MaxSets : none = <<>> /\ n = sets[r.user]
    BY <1>3, <1>4
  <2>2. Answered(r, none, n)
    BY <1>6, <2>1
  <2>3. PICK a \in Read :
            /\ reads' = (reads \ {r}) \cup {a}
            /\ a.kind = r.kind /\ a.by = r.by /\ a.user = r.user
            /\ a.answered /\ a.found = none /\ a.n = n
    BY <1>1, <2>2, ReadAnswered
  <2> QED  BY <1>6, <2>1, <2>3
<1>7. ASSUME Answered(r, <<>>, 0), odd' = odd \cup {"failed"}
      PROVE  \E a \in Read :
               /\ reads' = (reads \ {r}) \cup {a}
               /\ a.kind = r.kind /\ a.by = r.by /\ a.user = r.user /\ a.answered
               /\ a.found = <<>> /\ odd' = odd \cup {"failed"}
  <2>1. PICK none \in SearchesUpTo(MaxShown) : none = <<>>
    BY <1>3
  <2>2. Answered(r, none, 0)
    BY <1>7, <2>1
  <2>3. PICK a \in Read :
            /\ reads' = (reads \ {r}) \cup {a}
            /\ a.kind = r.kind /\ a.by = r.by /\ a.user = r.user
            /\ a.answered /\ a.found = none /\ a.n = 0
    BY <1>1, <1>3, <2>2, ReadAnswered
  <2> QED  BY <1>7, <2>1, <2>3
<1>8. \/ /\ r.kind = "searches" /\ odd' = odd
         /\ \E q \in Newest(stored[r.user]) : Answered(r, q, 0)
      \/ r.kind = "lists" /\ Answered(r, <<>>, sets[r.user]) /\ odd' = odd
      \/ Answered(r, <<>>, 0) /\ odd' = odd \cup {"failed"}
  BY DEF Answer, AnswerRead, FailRead
<1> QED  BY <1>2, <1>5, <1>6, <1>7, <1>8

LEMMA AddSearchIs ==
  ASSUME TypeOK, AddSearch
  PROVE  \E s \in Search :
            /\ s.id = NextId(searches) /\ userId \in Users
            /\ stored' = [stored EXCEPT ![userId] = Append(stored[userId], s)]
            /\ stored[userId] \in Seq(Search)
            /\ Append(stored[userId], s) \in SearchesUpTo(MaxStored)
            /\ searches' = Inserted(searches, s)
            /\ odd' = odd \cup Early
            /\ UNCHANGED <<identity, sets, panel, text, reads, acks, crashed>>
<1> DEFINE s == [title |-> text, id |-> NextId(searches)]
<1>1. /\ text \in Texts /\ userId \in Users
      /\ Len(stored[userId]) < MaxStored /\ NextId(searches) <= MaxStored
      /\ stored' = [stored EXCEPT ![userId] = Append(stored[userId], s)]
      /\ searches' = Inserted(searches, s)
      /\ odd' = odd \cup Early
      /\ UNCHANGED <<identity, sets, panel, text, reads, acks, crashed>>
  BY DEF AddSearch, TypeOK, IdentityOK, SomeUser
<1>2. NextId(searches) \in Nat \ {0}
  BY Facts, NextIdIs
<1>3. s \in Search /\ s.id = NextId(searches)
  BY <1>1, <1>2, BoundAssumption DEF Search
<1>4. stored[userId] \in Seq(Search) /\ Len(stored[userId]) \in Nat
  BY <1>1, Facts, SearchSeq, BoundAssumption
<1> HIDE DEF s
<1>5. /\ Append(stored[userId], s) \in Seq(Search)
      /\ Len(Append(stored[userId], s)) = Len(stored[userId]) + 1
  BY <1>3, <1>4, AppendProperties
<1>6. Len(Append(stored[userId], s)) <= MaxStored
  BY <1>1, <1>4, <1>5, BoundAssumption
<1>7. Append(stored[userId], s) \in SearchesUpTo(MaxStored)
  BY <1>5, <1>6, BoundAssumption, SeqSearches
<1> QED  BY <1>1, <1>3, <1>4, <1>7

LEMMA InitType ==
  ASSUME Init
  PROVE  TypeOK
<1>1. IdentityOK /\ auth \in SomeUser
  BY DEF Init, IdentityInit, IdentityOK
<1>2. Launched.panel \in [SomeUser -> Nat] /\ Launched.reads \subseteq Read
  BY <1>1, LaunchedIs, Panels
<1>3. <<>> \in SearchesUpTo(MaxStored) /\ <<>> \in SearchesUpTo(MaxShown)
  BY NoSearches, BoundAssumption, ShownAssumption
<1>4. stored \in [Users -> SearchesUpTo(MaxStored)] /\ searches \in SearchesUpTo(MaxShown)
  BY <1>3 DEF Init
<1>5. sets \in [Users -> 0..MaxSets] /\ acks \in [Users -> Nat] /\ text \in Texts \cup {NoText}
  BY BoundAssumption DEF Init
<1>6. crashed = "no" /\ odd = {} /\ panel = Launched.panel /\ reads = Launched.reads
  BY DEF Init
<1> QED  BY <1>1, <1>2, <1>4, <1>5, <1>6 DEF TypeOK
-----------------------------------------------------------------------------
(* The type, and what is always so of SavedController and the reads.       *)

ReadsFine ==
    /\ \A r \in reads : r.kind = "searches" => r.by = "map"
    /\ \A r \in reads : \A i \in 1..Len(r.found) : Holds(r.user, r.found[i])

\* Reads are kept, or new ones that have found nothing yet.
LEMMA ReadsFineKept ==
  ASSUME ReadsFine, stored' = stored,
         \A r \in reads' : r \in reads \/ (r.by = "map" /\ r.found = <<>>)
                           \/ (r.kind = "lists" /\ r.found = <<>>)
  PROVE  ReadsFine'
<1>1. \A u : \A s : Holds(u, s) => Holds(u, s)'
  BY DEF Holds
<1>2. \A q : q = <<>> => Len(q) = 0
  OBVIOUS
<1>3. \A r \in reads' : r.kind = "searches" => r.by = "map"
  BY DEF ReadsFine
<1>4. ASSUME NEW r \in reads', NEW i \in 1..Len(r.found)
      PROVE  Holds(r.user, r.found[i])'
  <2>1. r \in reads
    BY <1>2, <1>4
  <2> QED  BY <1>1, <1>4, <2>1 DEF ReadsFine
<1> QED  BY <1>3, <1>4 DEF ReadsFine

\* What each step of Identity and its absence leave of SavedController.
LEMMA SignedInKept ==
  ASSUME TypeOK, SavedOK, IdentityNext \/ UNCHANGED identity
  PROVE  (~OnMap => auth # NoUser)'
<1>1. NoUser \notin Users /\ (~OnMap => auth # NoUser)
  BY UserAssumption DEF SavedOK
<1>2. CASE \E u \in Users : Arrive(u) \/ SignedInUnseen(u)
  BY <1>1, <1>2 DEF Arrive, SignedInUnseen
<1>3. CASE PushSaved
  BY <1>3 DEF PushSaved
<1>4. CASE PopSaved \/ Launch
  BY <1>4 DEF PopSaved, Launch, OnMap
<1>5. CASE LogOut
  BY <1>5 DEF LogOut, OnMap
<1>6. CASE UNCHANGED identity
  BY <1>1, <1>6 DEF identity, OnMap
<1> QED  BY <1>2, <1>3, <1>4, <1>5, <1>6 DEF IdentityNext

LEMMA AsksTyped ==
  ASSUME TypeOK, SavedOK, NEW by \in {"map", "saved"}, NEW u, Asks(by, u),
         IdentityNext \/ UNCHANGED identity
  PROVE  TypeOK' /\ SavedOK'
<1>1. PICK r \in Read :
          /\ reads' = reads \cup {r} /\ odd' = odd \cup Overlaps(u)
          /\ r.kind = "lists" /\ r.by = by /\ r.user = u /\ ~r.answered /\ r.found = <<>>
  BY DEF Asks
<1>2. UNCHANGED <<stored, sets, searches, panel, text, acks, crashed>>
  BY DEF Asks
<1>3. IdentityOK'
  BY IdentityKept DEF TypeOK
<1>4. TypeOK'
  BY <1>1, <1>2, <1>3, OverlapsAre, TypeKept
<1>5. ReadsFine'
  BY <1>1, <1>2, ReadsFineKept DEF SavedOK, ReadsFine
<1>6. (~OnMap => auth # NoUser)'
  BY SignedInKept
<1> QED  BY <1>4, <1>5, <1>6 DEF SavedOK, ReadsFine

LEMMA ReloadsTyped ==
  ASSUME TypeOK, SavedOK, NEW u, Reloads(u), auth' \in SomeUser,
         searches' \in SearchesUpTo(MaxShown)
  PROVE  TypeOK' /\ SavedOK'
<1>1. IdentityOK'
  BY DEF Reloads, IdentityOK
<1>2. panel' \in [SomeUser -> Nat]
  BY Panels DEF Reloads, TypeOK
<1>3. \A r \in reads' : r \in reads \/ (r \in Read /\ r.by = "map" /\ r.found = <<>>)
  BY DEF Reloads
<1>4. odd' \subseteq Oddities
  BY OverlapsAre, ZenonT(40) DEF Reloads, TypeOK
<1>5. stored' = stored /\ sets' = sets /\ text' = text /\ acks' = acks /\ crashed' = crashed
  BY DEF Reloads
<1>6. reads' \subseteq Read
  BY <1>3 DEF TypeOK
<1>7. TypeOK'
  BY <1>1, <1>2, <1>4, <1>5, <1>6 DEF TypeOK
<1>8. ReadsFine'
  BY <1>3, <1>5, ReadsFineKept DEF SavedOK, ReadsFine
<1>9. OnMap'
  BY DEF Reloads, OnMap
<1> QED  BY <1>7, <1>8, <1>9 DEF SavedOK, ReadsFine

LEMMA RelaunchTyped ==
  ASSUME TypeOK, Relaunch
  PROVE  TypeOK' /\ SavedOK'
<1>1. IdentityOK' /\ OnMap'
  BY IdentityKept DEF Relaunch, TypeOK, IdentityNext, Launch, OnMap
<1>2. auth \in SomeUser
  BY Facts
<1>3. /\ stored' = stored /\ sets' = sets /\ searches' = <<>> /\ text' = NoText
      /\ acks' = [u \in Users |-> 0] /\ panel' = Launched.panel /\ reads' = Launched.reads
      /\ crashed' = crashed /\ odd' = odd
  BY DEF Relaunch
<1>4. panel' \in [SomeUser -> Nat]
  BY <1>2, <1>3, LaunchedIs, Panels
<1>5. \A r \in reads' : r \in Read /\ r.by = "map" /\ r.found = <<>>
  BY <1>2, <1>3, LaunchedIs
<1>6. <<>> \in SearchesUpTo(MaxShown)
  BY NoSearches, ShownAssumption
<1>7. TypeOK'
  BY <1>1, <1>3, <1>4, <1>5, <1>6 DEF TypeOK
<1>8. ReadsFine'
  <2>1. \A q : q = <<>> => Len(q) = 0
    OBVIOUS
  <2> QED  BY <1>5, <2>1 DEF ReadsFine
<1> QED  BY <1>1, <1>7, <1>8 DEF SavedOK, ReadsFine

LEMMA AddSearchTyped ==
  ASSUME TypeOK, SavedOK, AddSearch
  PROVE  TypeOK' /\ SavedOK' /\ \A u \in Users : \A s : Holds(u, s) => Holds(u, s)'
<1>1. PICK s \in Search :
            /\ s.id = NextId(searches) /\ userId \in Users
            /\ stored' = [stored EXCEPT ![userId] = Append(stored[userId], s)]
            /\ stored[userId] \in Seq(Search)
            /\ Append(stored[userId], s) \in SearchesUpTo(MaxStored)
            /\ searches' = Inserted(searches, s)
            /\ odd' = odd \cup Early
            /\ UNCHANGED <<identity, sets, panel, text, reads, acks, crashed>>
  BY AddSearchIs
<1> DEFINE longer == Append(stored[userId], s)
<1>2. /\ longer \in SearchesUpTo(MaxStored) /\ Len(longer) = Len(stored[userId]) + 1
      /\ \A i \in 1..Len(stored[userId]) : i \in 1..Len(longer) /\ longer[i] = stored[userId][i]
  <2>1. Len(stored[userId]) \in Nat /\ Len(longer) = Len(stored[userId]) + 1
    BY <1>1, LenProperties, AppendProperties
  <2>2. \A i \in 1..Len(stored[userId]) : longer[i] = stored[userId][i]
    BY <1>1, AppendProperties
  <2> HIDE DEF longer
  <2>3. \A i \in 1..Len(stored[userId]) : i \in 1..Len(longer)
    BY <2>1
  <2> QED  BY <1>1, <2>1, <2>2, <2>3 DEF longer
<1> HIDE DEF longer
<1>3. stored' = [stored EXCEPT ![userId] = longer]
  BY <1>1 DEF longer
<1>4. searches' \in SearchesUpTo(MaxShown)
  BY <1>1, Facts, InsertedIs
<1>5. odd' \subseteq Oddities
  BY <1>1, OverlapsAre DEF TypeOK
<1>6. TypeOK'
  BY <1>1, <1>2, <1>3, <1>4, <1>5 DEF TypeOK, IdentityOK, identity
<1>7. ASSUME NEW u \in Users, NEW x, Holds(u, x)
      PROVE  Holds(u, x)'
  <2>1. CASE u = userId
    <3>1. stored'[u] = longer
      BY <1>3, <2>1 DEF TypeOK
    <3> QED  BY <1>2, <1>7, <2>1, <3>1 DEF Holds
  <2>2. CASE u # userId
    <3>1. stored'[u] = stored[u]
      BY <1>3, <2>2 DEF TypeOK
    <3> QED  BY <1>7, <3>1 DEF Holds
  <2> QED  BY <2>1, <2>2
<1>8. reads' = reads
  BY <1>1
<1>9. ReadsFine'
  <2>1. \A r \in reads : r.user \in Users
    BY Facts
  <2> QED  BY <1>7, <1>8, <2>1 DEF SavedOK, ReadsFine
<1>10. (~OnMap => auth # NoUser)'
  BY <1>1 DEF SavedOK, OnMap, identity
<1> QED  BY <1>6, <1>7, <1>9, <1>10 DEF SavedOK, ReadsFine
LEMMA AnswerTyped ==
  ASSUME TypeOK, SavedOK, NEW r \in reads, Answer(r)
  PROVE  TypeOK' /\ SavedOK'
<1>1. PICK a \in Read :
        /\ reads' = (reads \ {r}) \cup {a}
        /\ a.kind = r.kind /\ a.by = r.by /\ a.user = r.user /\ a.answered
        /\ \/ r.kind = "searches" /\ a.found \in Newest(stored[r.user]) /\ odd' = odd
           \/ r.kind = "lists" /\ a.found = <<>> /\ a.n = sets[r.user] /\ odd' = odd
           \/ a.found = <<>> /\ odd' = odd \cup {"failed"}
  BY AnswerIs
<1>2. UNCHANGED <<identity, stored, sets, searches, panel, text, acks, crashed>>
  BY AnswerIs
<1>3. odd' \subseteq odd \cup Oddities
  BY <1>1 DEF Oddities
<1>4. \A q \in reads' : q \in reads \/ q \in Read
  BY <1>1
<1>5. IdentityOK'
  BY <1>2, IdentityKept DEF TypeOK
<1>6. TypeOK'
  BY <1>2, <1>3, <1>4, <1>5, TypeKept
<1>7. \A i \in 1..Len(a.found) : Holds(r.user, a.found[i])
  <2>1. CASE a.found = <<>>
    BY <2>1
  <2>2. CASE a.found \in Newest(stored[r.user])
    <3>1. stored[r.user] \in SearchesUpTo(MaxStored)
      BY Facts
    <3>2. \A i \in 1..Len(a.found) : \E j \in 1..Len(stored[r.user]) : a.found[i] = stored[r.user][j]
      BY <2>2, <3>1, NewestIs
    <3> QED  BY <3>2 DEF Holds
  <2> QED  BY <1>1, <2>1, <2>2
<1>8. \A u : \A s : Holds(u, s) => Holds(u, s)'
  BY <1>2 DEF Holds
<1>9. ReadsFine'
  <2>1. \A q \in reads' : q \in reads \/ q = a
    BY <1>1
  <2>2. a.kind = "searches" => a.by = "map"
    BY <1>1 DEF SavedOK
  <2>3. \A q \in reads' : q.kind = "searches" => q.by = "map"
    BY <2>1, <2>2 DEF SavedOK
  <2>4. \A q \in reads' : \A i \in 1..Len(q.found) : Holds(q.user, q.found[i])
    BY <1>1, <1>7, <2>1 DEF SavedOK
  <2> QED  BY <1>8, <2>3, <2>4 DEF ReadsFine
<1>10. (~OnMap => auth # NoUser)'
  BY <1>2 DEF SavedOK, OnMap, identity
<1> QED  BY <1>6, <1>9, <1>10 DEF SavedOK, ReadsFine

\* An answer is delivered: the read is over.
LEMMA DeliveredTyped ==
  ASSUME TypeOK, SavedOK, NEW r \in reads, Delivered(r)
  PROVE  /\ TypeOK' /\ SavedOK' /\ reads' = reads \ {r} /\ odd' = odd
         /\ UNCHANGED <<identity, stored, text>>
<1>1. r \in Read /\ r.user \in Users /\ r.found \in SearchesUpTo(MaxShown)
  BY Facts
<1>2. /\ reads' = reads \ {r} /\ odd' = odd
      /\ UNCHANGED <<identity, stored, text>>
  BY DEF Delivered, ShowSearches, ShowLists, SavedListsCome
<1>3. searches' \in SearchesUpTo(MaxShown)
  BY <1>1, Facts DEF Delivered, ShowSearches, ShowLists, SavedListsCome
<1>4. sets' \in [Users -> 0..MaxSets]
  <2>1. ASSUME NEW u \in Users, AddDefaults(u)
        PROVE  sets' \in [Users -> 0..MaxSets]
    <3>1. sets[u] + 1 \in 0..MaxSets
      BY <2>1, BoundAssumption DEF AddDefaults, TypeOK
    <3> QED  BY <2>1, <3>1 DEF AddDefaults, TypeOK
  <2>2. CASE ShowLists(r)
    <3>1. userId # NoUser => userId \in Users
      BY Facts DEF SomeUser
    <3>2. CASE userId # NoUser /\ AddDefaults(userId)
      BY <2>1, <3>1, <3>2
    <3>3. CASE sets' = sets
      BY <3>3 DEF TypeOK
    <3> QED  BY <2>2, <3>2, <3>3 DEF ShowLists
  <2>3. CASE SavedListsCome(r)
    BY <1>1, <2>1, <2>3 DEF SavedListsCome, TypeOK
  <2>4. CASE ShowSearches(r)
    BY <2>4 DEF ShowSearches, TypeOK
  <2> QED  BY <2>2, <2>3, <2>4 DEF Delivered
<1>5. panel' \in [SomeUser -> Nat]
  BY <1>1, Panels DEF TypeOK, Delivered, ShowSearches, ShowLists, SavedListsCome
<1>6. acks' \in [Users -> Nat]
  <2>1. CASE userId # NoUser /\ acks' = [acks EXCEPT ![userId] = @ + 1]
    <3>1. userId \in Users /\ acks[userId] + 1 \in Nat
      BY <2>1, Facts DEF SomeUser
    <3> QED  BY <2>1, <3>1 DEF TypeOK
  <2>2. CASE acks' = acks
    BY <2>2 DEF TypeOK
  <2> QED  BY <2>1, <2>2 DEF Delivered, ShowSearches, ShowLists, SavedListsCome
<1>7. crashed' \in {"no", "back", "defaults"}
  BY DEF TypeOK, Delivered, ShowSearches, ShowLists, SavedListsCome
<1>8. IdentityOK'
  BY <1>2, IdentityKept DEF TypeOK
<1>9. TypeOK'
  BY <1>2, <1>3, <1>4, <1>5, <1>6, <1>7, <1>8 DEF TypeOK
<1>10. ReadsFine'
  BY <1>2, ReadsFineKept DEF SavedOK, ReadsFine
<1>11. (~OnMap => auth # NoUser)'
  BY <1>2 DEF SavedOK, OnMap, identity
<1> QED  BY <1>2, <1>9, <1>10, <1>11 DEF SavedOK, ReadsFine

LEMMA DefaultsAddedTyped ==
  ASSUME TypeOK, SavedOK, NEW u \in Users, DefaultsAdded(u)
  PROVE  /\ TypeOK' /\ SavedOK'
         /\ acks[u] \in Nat \ {0} /\ acks' = [acks EXCEPT ![u] = acks[u] - 1]
         /\ panel' = [panel EXCEPT ![u] = panel[u] + 1]
         /\ UNCHANGED <<identity, stored, sets, searches, text, reads, crashed, odd>>
<1>1. /\ acks[u] > 0 /\ acks' = [acks EXCEPT ![u] = acks[u] - 1]
      /\ panel' = [panel EXCEPT ![u] = panel[u] + 1]
      /\ UNCHANGED <<identity, stored, sets, searches, text, reads, crashed, odd>>
  BY DEF DefaultsAdded, Appended
<1>2. acks[u] \in Nat /\ panel[u] \in Nat /\ u \in SomeUser
  BY Facts DEF SomeUser
<1>3. acks[u] - 1 \in Nat /\ panel[u] + 1 \in Nat /\ acks[u] \in Nat \ {0}
  BY <1>1, <1>2
<1>4. IdentityOK'
  BY <1>1, IdentityKept DEF TypeOK
<1>5. TypeOK'
  BY <1>1, <1>3, <1>4 DEF TypeOK
<1>6. ReadsFine'
  BY <1>1, ReadsFineKept DEF SavedOK, ReadsFine
<1>7. (~OnMap => auth # NoUser)'
  BY <1>1 DEF SavedOK, OnMap, identity
<1> QED  BY <1>1, <1>3, <1>5, <1>6, <1>7 DEF SavedOK, ReadsFine

\* Steps that leave the reads, the lists and the recent searches as they are.
Aside ==
    /\ UNCHANGED <<stored, sets, searches, panel, reads, acks>>
    /\ \/ \E u \in Users : SignInEndsUnseen(u)
       \/ PopSaved /\ saved.from # "signUp" /\ crashed' = "back" /\ UNCHANGED <<text, odd>>
       \/ \E t \in Texts : text' = t /\ UNCHANGED <<identity, crashed, odd>>
       \/ UNCHANGED vars

LEMMA AsideTyped ==
  ASSUME TypeOK, SavedOK, Aside
  PROVE  TypeOK' /\ SavedOK'
<1>1. UNCHANGED <<stored, sets, searches, panel, reads, acks>>
  BY DEF Aside
<1>2. IdentityNext \/ UNCHANGED identity
  BY DEF Aside, SignInEndsUnseen, IdentityNext, vars, identity
<1>3. IdentityOK'
  BY <1>2, IdentityKept DEF TypeOK
<1>4. text' \in Texts \cup {NoText} /\ crashed' \in {"no", "back", "defaults"}
  BY DEF Aside, SignInEndsUnseen, TypeOK, vars
<1>5. odd' \subseteq Oddities
  BY DEF Aside, SignInEndsUnseen, TypeOK, vars, Oddities
<1>6. TypeOK'
  BY <1>1, <1>3, <1>4, <1>5 DEF TypeOK
<1>7. ReadsFine'
  BY <1>1, ReadsFineKept DEF SavedOK, ReadsFine
<1>8. (~OnMap => auth # NoUser)'
  BY <1>2, SignedInKept
<1> QED  BY <1>6, <1>7, <1>8 DEF SavedOK, ReadsFine

\* Steps that ask for lists and do nothing else of their own.
Asking ==
    \E by \in {"map", "saved"} : \E u \in Users :
       /\ Asks(by, u) /\ (IdentityNext \/ UNCHANGED identity)
       /\ by = "map" => u = userId /\ userId' = userId
       /\ \/ by = "saved" /\ Arrive(u)
          \/ by = "saved" /\ PushSaved
          \/ by = "saved" /\ UNCHANGED identity /\ u = saved.user
          \/ by = "map" /\ UNCHANGED identity
          \/ by = "map" /\ PopSaved /\ saved.from # "signUp"

\* The actions of Next.
LEMMA NextCases ==
  ASSUME Next
  PROVE  \/ \E u \in Users : SignInEnds(u) \/ SignInEndsUnseen(u)
         \/ OpenSaved \/ SavedReappears \/ ClosePanel \/ LeaveSaved \/ MapLogOut
         \/ (\E t \in Texts : BeginSearch(t)) \/ AddSearch
         \/ \E r \in reads : Answer(r) \/ Delivered(r)
         \/ \E u \in Users : DefaultsAdded(u)
         \/ Relaunch
BY DEF Next, User

\* Each step, told apart once for the proofs below.
LEMMA StepCases ==
  ASSUME TypeOK, SavedOK, [Next]_vars
  PROVE  \/ Asking
         \/ LeaveSaved /\ saved.from = "signUp"
         \/ MapLogOut \/ Aside \/ AddSearch \/ Relaunch
         \/ \E r \in reads : Answer(r) \/ Delivered(r)
         \/ \E u \in Users : DefaultsAdded(u)
<1>1. ASSUME NEW u \in Users, SignInEnds(u)
      PROVE  Asking
  BY <1>1, AsksIs DEF Asking, IdentityNext
<1>2. ASSUME OpenSaved
      PROVE  Asking
  BY <1>2, AsksIs DEF Asking, IdentityNext, Asks
<1>3. ASSUME SavedReappears
      PROVE  Asking
  BY <1>3, AsksIs DEF Asking, Asks
<1>4. ASSUME ClosePanel
      PROVE  Asking
  BY <1>4, AsksIs DEF Asking, Asks, identity
<1>5. ASSUME LeaveSaved
      PROVE  Asking \/ Aside \/ saved.from = "signUp"
  <2>1. CASE saved.from # "signUp" /\ userId # NoUser
    <3>1. PopSaved /\ Asks("map", userId)
      BY <1>5, <2>1, AsksIs
    <3>2. userId' = userId
      BY <2>1, <3>1 DEF PopSaved, KnownAfter
    <3> QED  BY <2>1, <3>1, <3>2 DEF Asking, IdentityNext, Asks
  <2>2. CASE saved.from # "signUp" /\ userId = NoUser
    BY <1>5, <2>2 DEF LeaveSaved, Aside
  <2> QED  BY <2>1, <2>2
<1>6. ASSUME NEW u \in Users, SignInEndsUnseen(u)
      PROVE  Aside
  BY <1>6 DEF Aside, SignInEndsUnseen
<1>7. ASSUME NEW t \in Texts, BeginSearch(t)
      PROVE  Aside
  BY <1>7 DEF Aside, BeginSearch
<1>8. ASSUME UNCHANGED vars
      PROVE  Aside
  BY <1>8 DEF Aside, vars
<1>9. CASE Next
  BY <1>1, <1>2, <1>3, <1>4, <1>5, <1>6, <1>7, <1>9, NextCases
<1> QED  BY <1>8, <1>9

LEMMA NextTyped ==
  ASSUME TypeOK, SavedOK, [Next]_vars
  PROVE  TypeOK' /\ SavedOK'
<1>1. ASSUME LeaveSaved, saved.from = "signUp"
      PROVE  TypeOK' /\ SavedOK'
  BY <1>1, LeaveSavedIs, ReloadsTyped, Facts
<1>2. ASSUME MapLogOut
      PROVE  TypeOK' /\ SavedOK'
  <2>1. PICK u \in {NoUser, auth} : Reloads(u) /\ searches' = <<>> /\ auth' = u
    BY <1>2, LogOutIs
  <2>2. auth' \in SomeUser /\ searches' \in SearchesUpTo(MaxShown)
    BY <2>1, Facts, NoSearches, ShownAssumption DEF SomeUser
  <2> QED  BY <2>1, <2>2, ReloadsTyped
<1>3. ASSUME Asking
      PROVE  TypeOK' /\ SavedOK'
  <2>1. PICK by \in {"map", "saved"}, u \in Users :
           Asks(by, u) /\ (IdentityNext \/ UNCHANGED identity)
    BY <1>3 DEF Asking
  <2> QED  BY <2>1, AsksTyped
<1>4. ASSUME NEW r \in reads, Answer(r) \/ Delivered(r)
      PROVE  TypeOK' /\ SavedOK'
  BY <1>4, AnswerTyped, DeliveredTyped
<1>5. ASSUME NEW u \in Users, DefaultsAdded(u)
      PROVE  TypeOK' /\ SavedOK'
  BY <1>5, DefaultsAddedTyped
<1>6. Aside \/ AddSearch \/ Relaunch => TypeOK' /\ SavedOK'
  BY AsideTyped, AddSearchTyped, RelaunchTyped
<1> QED  BY <1>1, <1>2, <1>3, <1>4, <1>5, <1>6, StepCases

\* The state of the session has its type in every behaviour.
THEOREM SessionTypeCorrect == Spec => []TypeOK
<1>1. Init => TypeOK /\ SavedOK
  <2> SUFFICES ASSUME Init PROVE TypeOK /\ SavedOK
    OBVIOUS
  <2>1. TypeOK
    BY InitType
  <2>2. \A r \in reads : r.by = "map" /\ r.found = <<>>
    BY <2>1, Facts, LaunchedIs DEF Init
  <2>3. \A q : q = <<>> => Len(q) = 0
    OBVIOUS
  <2>4. OnMap
    BY DEF Init, IdentityInit, OnMap
  <2> QED  BY <2>1, <2>2, <2>3, <2>4 DEF SavedOK
<1>2. TypeOK /\ SavedOK /\ [Next]_vars => (TypeOK /\ SavedOK)'
  BY NextTyped
<1> QED  BY <1>1, <1>2, PTL DEF Spec
-----------------------------------------------------------------------------
(* Whose the panel is.                                                     *)

LEMMA OddGrows ==
  ASSUME TypeOK, SavedOK, [Next]_vars
  PROVE  odd \subseteq odd'
<1>1. ASSUME LeaveSaved, saved.from = "signUp"
      PROVE  odd \subseteq odd'
  BY <1>1, LeaveSavedIs DEF Reloads
<1>2. ASSUME MapLogOut
      PROVE  odd \subseteq odd'
  BY <1>2, LogOutIs DEF Reloads
<1>3. ASSUME Asking
      PROVE  odd \subseteq odd'
  BY <1>3 DEF Asking, Asks
<1>4. ASSUME NEW r \in reads, Answer(r) \/ Delivered(r)
      PROVE  odd \subseteq odd'
  BY <1>4, AnswerIs, DeliveredTyped
<1>5. ASSUME NEW u \in Users, DefaultsAdded(u)
      PROVE  odd \subseteq odd'
  BY <1>5 DEF DefaultsAdded
<1>6. ASSUME Aside \/ AddSearch \/ Relaunch
      PROVE  odd \subseteq odd'
  BY <1>6 DEF Aside, SignInEndsUnseen, AddSearch, Relaunch, vars
<1> QED  BY <1>1, <1>2, <1>3, <1>4, <1>5, <1>6, StepCases

LEMMA ReloadsOwned ==
  ASSUME TypeOK, Owned, NEW u, Reloads(u), "switched" \notin odd',
         searches' = <<>> \/ (searches' = searches /\ u # NoUser)
  PROVE  Owned'
<1>1. /\ u \in SomeUser /\ userId' = u /\ saved' = NotSaved
      /\ stored' = stored /\ acks' = acks
      /\ Switched(u) \subseteq odd'
      /\ \A r \in reads' : r \in reads \/ (r.by = "map" /\ r.user = u)
  BY DEF Reloads
<1>2. \/ u = userId
      \/ /\ \A r \in reads : r.by # "map"
         /\ \A v \in Users : ~(acks[v] > 0)
         /\ userId = NoUser \/ u = NoUser
  BY <1>1 DEF Switched, Outlived
<1>3. (\A r \in reads : r.by = "map" => r.user = userId)'
  BY <1>1, <1>2 DEF Owned
<1>4. (\A v \in Users : acks[v] > 0 => v = userId)'
  BY <1>1, <1>2 DEF Owned
<1>5. (saved.from = "signUp" => saved.user = auth)'
  BY <1>1 DEF NotSaved
<1>6. (\A i \in 1..Len(searches) : userId # NoUser /\ Holds(userId, searches[i]))'
  <2>1. CASE searches' = <<>>
    <3>1. \A q : q = <<>> => Len(q) = 0
      OBVIOUS
    <3> QED  BY <2>1, <3>1
  <2>2. CASE searches' = searches /\ u # NoUser
    <3>1. \A i \in 1..Len(searches) : u = userId
      BY <1>2, <2>2 DEF Owned
    <3>2. \A i \in 1..Len(searches) : Holds(u, searches[i])'
      BY <1>1, <2>2, <3>1 DEF Owned, Holds
    <3> QED  BY <1>1, <2>2, <3>1, <3>2
  <2> QED  BY <2>1, <2>2
<1> QED  BY <1>3, <1>4, <1>5, <1>6 DEF Owned

LEMMA AskingOwned ==
  ASSUME TypeOK, Owned, Asking
  PROVE  Owned'
<1>1. PICK by \in {"map", "saved"}, u \in Users :
         /\ Asks(by, u)
         /\ by = "map" => u = userId /\ userId' = userId
         /\ \/ by = "saved" /\ Arrive(u)
            \/ by = "saved" /\ PushSaved
            \/ by = "saved" /\ UNCHANGED identity /\ u = saved.user
            \/ by = "map" /\ UNCHANGED identity
            \/ by = "map" /\ PopSaved /\ saved.from # "signUp"
  BY DEF Asking
<1>2. PICK r \in Read : reads' = reads \cup {r} /\ r.by = by /\ r.user = u
  BY <1>1 DEF Asks
<1>3. stored' = stored /\ searches' = searches /\ acks' = acks
  BY <1>1 DEF Asks
<1>4. userId' = userId
  BY <1>1 DEF Arrive, PushSaved, identity
<1>5. (saved.from = "signUp" => saved.user = auth)'
  BY <1>1 DEF Owned, Arrive, PushSaved, PopSaved, NotSaved, identity
<1>6. (\A q \in reads : q.by = "map" => q.user = userId)'
  BY <1>1, <1>2, <1>4 DEF Owned
<1>7. (\A v \in Users : acks[v] > 0 => v = userId)'
  BY <1>3, <1>4 DEF Owned
<1>8. (\A i \in 1..Len(searches) : userId # NoUser /\ Holds(userId, searches[i]))'
  BY <1>3, <1>4 DEF Owned, Holds
<1> QED  BY <1>5, <1>6, <1>7, <1>8 DEF Owned

LEMMA AsideOwned ==
  ASSUME TypeOK, SavedOK, Owned, Aside, "switched" \notin odd'
  PROVE  Owned'
<1>1. UNCHANGED <<stored, searches, reads, acks>>
  BY DEF Aside
<1>2. userId' = userId
  BY DEF Aside, SignInEndsUnseen, SignedInUnseen, PopSaved, KnownAfter, identity, vars
<1>3. (saved.from = "signUp" => saved.user = auth)'
  <2>1. ASSUME NEW u \in Users, SignInEndsUnseen(u)
        PROVE  auth = NoUser /\ saved' = saved
    BY <2>1 DEF SignInEndsUnseen, SignedInUnseen
  <2>2. auth = NoUser => saved.from # "signUp"
    BY DEF SavedOK, OnMap, NotSaved
  <2> QED  BY <2>1, <2>2 DEF Aside, PopSaved, NotSaved, Owned, identity, vars
<1>4. (\A i \in 1..Len(searches) : userId # NoUser /\ Holds(userId, searches[i]))'
  BY <1>1, <1>2 DEF Owned, Holds
<1> QED  BY <1>1, <1>2, <1>3, <1>4 DEF Owned

LEMMA RelaunchOwned ==
  ASSUME TypeOK, Relaunch
  PROVE  Owned'
<1>1. /\ saved' = NotSaved /\ userId' = auth /\ searches' = <<>>
      /\ acks' = [u \in Users |-> 0] /\ reads' = Launched.reads
  BY DEF Relaunch, Launch
<1>2. \A r \in reads' : r.by = "map" /\ r.user = auth
  BY <1>1, Facts, LaunchedIs
<1>3. \A u \in Users : ~(acks'[u] > 0)
  BY <1>1
<1>4. \A q : q = <<>> => Len(q) = 0
  OBVIOUS
<1> QED  BY <1>1, <1>2, <1>3, <1>4 DEF Owned, NotSaved

LEMMA AddSearchOwned ==
  ASSUME TypeOK, SavedOK, Owned, AddSearch
  PROVE  Owned'
<1>1. PICK s \in Search :
            /\ userId \in Users
            /\ stored' = [stored EXCEPT ![userId] = Append(stored[userId], s)]
            /\ stored[userId] \in Seq(Search)
            /\ searches' = Inserted(searches, s)
            /\ UNCHANGED <<identity, sets, panel, text, reads, acks, crashed>>
  BY AddSearchIs
<1>2. \A u \in Users : \A x : Holds(u, x) => Holds(u, x)'
  BY AddSearchTyped
<1>3. Holds(userId, s)'
  <2> DEFINE longer == Append(stored[userId], s)
  <2>1. /\ Len(longer) = Len(stored[userId]) + 1 /\ Len(stored[userId]) \in Nat
        /\ longer[Len(stored[userId]) + 1] = s
    BY <1>1, LenProperties, AppendProperties
  <2>2. stored'[userId] = longer /\ userId' = userId
    BY <1>1 DEF TypeOK, identity
  <2> HIDE DEF longer
  <2>3. Len(longer) \in 1..Len(longer) /\ longer[Len(longer)] = s
    BY <2>1
  <2> QED  BY <2>2, <2>3 DEF Holds
<1>4. ASSUME NEW i \in 1..Len(searches)'
      PROVE  (Holds(userId, searches[i]))'
  <2> DEFINE new == Inserted(searches, s)
  <2>1. \A k \in 1..Len(new) : new[k] = s \/ \E j \in 1..Len(searches) : new[k] = searches[j]
    BY Facts, InsertedIs
  <2>2. searches' = new
    BY <1>1
  <2> HIDE DEF new
  <2>3. searches'[i] = s \/ \E j \in 1..Len(searches) : searches'[i] = searches[j]
    BY <1>4, <2>1, <2>2
  <2>4. CASE searches'[i] = s
    BY <1>1, <1>3, <2>4 DEF identity
  <2>5. ASSUME NEW j \in 1..Len(searches), searches'[i] = searches[j]
        PROVE  (Holds(userId, searches[i]))'
    <3>1. Holds(userId, searches[j]) /\ userId \in Users
      BY <1>1 DEF Owned
    <3>2. PICK v, x : v = userId /\ x = searches[j]
      OBVIOUS
    <3>3. Holds(v, x)'
      BY <1>2, <3>1, <3>2
    <3> QED  BY <1>1, <2>5, <3>2, <3>3 DEF identity
  <2> QED  BY <2>3, <2>4, <2>5
<1>6. userId \in Users /\ userId # NoUser /\ userId' = userId /\ saved' = saved /\ auth' = auth
  BY <1>1, Facts DEF identity
<1> QED  BY <1>1, <1>4, <1>6 DEF Owned
\* An answer, its delivery and the completion of addDefaultLists.
LEMMA AnswerOwned ==
  ASSUME TypeOK, SavedOK, Owned, NEW r \in reads, Answer(r)
  PROVE  Owned'
<1>1. UNCHANGED <<identity, stored, searches, acks>>
  BY AnswerIs
<1>2. PICK a \in Read : reads' = (reads \ {r}) \cup {a} /\ a.by = r.by /\ a.user = r.user
  BY AnswerIs
<1>3. (\A q \in reads : q.by = "map" => q.user = userId)'
  BY <1>1, <1>2 DEF Owned, identity
<1>4. (\A i \in 1..Len(searches) : userId # NoUser /\ Holds(userId, searches[i]))'
  BY <1>1 DEF Owned, Holds, identity
<1> QED  BY <1>1, <1>3, <1>4 DEF Owned, identity

LEMMA DeliveredOwned ==
  ASSUME TypeOK, SavedOK, Owned, NEW r \in reads, Delivered(r)
  PROVE  Owned'
<1>1. reads' = reads \ {r} /\ UNCHANGED <<identity, stored>>
  BY DeliveredTyped
<1>2. r.user \in Users /\ r.user # NoUser
  BY Facts
<1>3. searches' = searches \/ (searches' = r.found /\ r.kind = "searches")
  BY DEF Delivered, ShowSearches, ShowLists, SavedListsCome
<1>4. (\A i \in 1..Len(searches) : userId # NoUser /\ Holds(userId, searches[i]))'
  <2>1. CASE searches' = searches
    BY <1>1, <2>1 DEF Owned, Holds, identity
  <2>2. CASE searches' = r.found /\ r.kind = "searches"
    <3>1. r.user = userId
      BY <2>2 DEF SavedOK, Owned
    <3>2. \A i \in 1..Len(r.found) : Holds(userId, r.found[i])
      BY <3>1 DEF SavedOK
    <3> QED  BY <1>1, <1>2, <2>2, <3>1, <3>2 DEF Holds, identity
  <2> QED  BY <1>3, <2>1, <2>2
<1>5. (\A u \in Users : acks[u] > 0 => u = userId)'
  <2>1. CASE acks' = acks
    BY <1>1, <2>1 DEF Owned, identity
  <2>2. CASE userId # NoUser /\ acks' = [acks EXCEPT ![userId] = @ + 1]
    BY <1>1, <2>2 DEF Owned, TypeOK, identity
  <2> QED  BY <2>1, <2>2 DEF Delivered, ShowSearches, ShowLists, SavedListsCome
<1> QED  BY <1>1, <1>4, <1>5 DEF Owned, identity

LEMMA DefaultsAddedOwned ==
  ASSUME TypeOK, SavedOK, Owned, NEW u \in Users, DefaultsAdded(u)
  PROVE  Owned'
<1>1. /\ acks[u] \in Nat \ {0} /\ acks' = [acks EXCEPT ![u] = acks[u] - 1]
      /\ UNCHANGED <<identity, stored, searches, reads>>
  BY DefaultsAddedTyped
<1>2. u = userId
  BY <1>1 DEF Owned
<1>3. (\A v \in Users : acks[v] > 0 => v = userId)'
  BY <1>1, <1>2 DEF Owned, TypeOK, identity
<1>4. (\A i \in 1..Len(searches) : userId # NoUser /\ Holds(userId, searches[i]))'
  BY <1>1 DEF Owned, Holds, identity
<1> QED  BY <1>1, <1>3, <1>4 DEF Owned, identity

LEMMA NextOwned ==
  ASSUME TypeOK, SavedOK, OwnerOK, [Next]_vars
  PROVE  OwnerOK'
<1> SUFFICES ASSUME "switched" \notin odd'
             PROVE  Owned'
  BY DEF OwnerOK
<1>1. Owned
  BY OddGrows DEF OwnerOK
<1>2. ASSUME LeaveSaved, saved.from = "signUp"
      PROVE  Owned'
  BY <1>1, <1>2, LeaveSavedIs, ReloadsOwned
<1>3. ASSUME MapLogOut
      PROVE  Owned'
  BY <1>1, <1>3, LogOutIs, ReloadsOwned
<1>4. ASSUME NEW r \in reads, Answer(r) \/ Delivered(r)
      PROVE  Owned'
  BY <1>1, <1>4, AnswerOwned, DeliveredOwned
<1>5. ASSUME NEW u \in Users, DefaultsAdded(u)
      PROVE  Owned'
  BY <1>1, <1>5, DefaultsAddedOwned
<1>6. Asking \/ Aside \/ AddSearch \/ Relaunch => Owned'
  BY <1>1, AskingOwned, AsideOwned, AddSearchOwned, RelaunchOwned
<1> QED  BY <1>2, <1>3, <1>4, <1>5, <1>6, StepCases
-----------------------------------------------------------------------------
(* The lists.                                                              *)

\* A question without an overlap: nobody asks for those lists yet.
LEMMA NotBusy ==
  ASSUME TypeOK, NEW u \in Users, Overlaps(u) = {}
  PROVE  acks[u] = 0 /\ \A r \in reads : IsList(r) => r.user # u
<1>1. ~Busy(u) /\ acks[u] \in Nat
  BY Facts DEF Overlaps
<1> QED  BY <1>1 DEF Busy, IsList

LEMMA SmoothIs ==
  ASSUME TypeOK, Smooth', NEW u
  PROVE  /\ "failed" \notin odd' /\ "switched" \notin odd'
         /\ Overlaps(u) \subseteq odd' => Overlaps(u) = {}
         /\ odd \subseteq odd' => Smooth /\ "switched" \notin odd
BY DEF Smooth, Overlaps

\* One more read of lists that nobody reads and the panel does not wait for.
LEMMA ReadAdded ==
  ASSUME TypeOK, OneRead, ListsTrue, NEW r, NEW u \in Users,
         IsList(r), r.user = u, ~r.answered, Overlaps(u) = {},
         \A q \in reads' : q \in reads \/ q = r \/ ~IsList(q),
         acks' = acks, sets' = sets
  PROVE  OneRead' /\ ListsTrue'
<1>1. acks[u] = 0 /\ \A q \in reads : IsList(q) => q.user # u
  BY NotBusy
<1>2. OneRead'
  BY <1>1 DEF OneRead, IsList
<1>3. ListsTrue'
  BY <1>1 DEF ListsTrue, IsList
<1> QED  BY <1>2, <1>3

LEMMA AskingGiven ==
  ASSUME TypeOK, Given, Smooth', Asking
  PROVE  Given'
<1>1. PICK by \in {"map", "saved"}, u \in Users :
         /\ Asks(by, u)
         /\ by = "map" => u = userId /\ userId' = userId
         /\ \/ by = "saved" /\ Arrive(u)
            \/ by = "saved" /\ PushSaved
            \/ by = "saved" /\ UNCHANGED identity /\ u = saved.user
            \/ by = "map" /\ UNCHANGED identity
            \/ by = "map" /\ PopSaved /\ saved.from # "signUp"
  BY DEF Asking
<1>2. PICK r \in Read :
        /\ reads' = reads \cup {r} /\ odd' = odd \cup Overlaps(u)
        /\ r.kind = "lists" /\ r.user = u /\ ~r.answered
  BY <1>1 DEF Asks
<1>3. sets' = sets /\ panel' = panel /\ acks' = acks
  BY <1>1 DEF Asks
<1>4. userId' = userId
  BY <1>1 DEF Arrive, PushSaved, identity
<1>5. Overlaps(u) = {}
  BY <1>2, SmoothIs
<1>6. OneRead' /\ ListsTrue'
  BY <1>2, <1>3, <1>5, ReadAdded DEF Given, IsList
<1>7. PanelTrue'
  BY <1>3, <1>4 DEF Given, PanelTrue
<1>8. Placeholder'
  BY <1>2, <1>3, <1>4 DEF Given, Placeholder
<1>9. SignedUp'
  BY <1>1, <1>2, <1>3
     DEF Given, SignedUp, IsList, Arrive, PushSaved, PopSaved, NotSaved, identity
<1> QED  BY <1>6, <1>7, <1>8, <1>9 DEF Given

LEMMA ReloadsGiven ==
  ASSUME TypeOK, Given, Smooth', NEW u, Reloads(u),
         u # NoUser => saved.from = "signUp" /\ saved.user = u
  PROVE  Given'
<1>1. /\ u \in SomeUser /\ userId' = u /\ saved' = NotSaved
      /\ sets' = sets /\ acks' = acks /\ Switched(u) \subseteq odd'
  BY DEF Reloads
<1>2. SignedUp'
  BY <1>1 DEF SignedUp, NotSaved
<1>3. CASE u = NoUser
  <2>1. reads' = reads /\ panel' = DefaultPanel
    BY <1>3 DEF Reloads
  <2>2. panel'[NoUser] = 1 /\ \A v \in Users : panel'[v] = 0 /\ v # NoUser
    BY <2>1, Panels, UserAssumption
  <2>3. OneRead' /\ ListsTrue'
    BY <1>1, <2>1 DEF Given, OneRead, ListsTrue
  <2>4. PanelTrue'
    BY <1>1, <1>3, <2>2 DEF Given, PanelTrue
  <2>5. Placeholder'
    BY <1>1, <1>3, <2>2 DEF Placeholder
  <2> QED  BY <1>2, <2>3, <2>4, <2>5 DEF Given
<1>4. CASE u # NoUser
  <2>1. u \in Users
    BY <1>1, <1>4 DEF SomeUser
  <2>2. PICK q, r \in Read :
          /\ reads' = reads \cup {q, r} /\ q.kind = "searches"
          /\ r.kind = "lists" /\ r.by = "map" /\ r.user = u /\ ~r.answered
    BY <1>4 DEF Reloads
  <2>3. panel' = panel /\ Overlaps(u) \subseteq odd'
    BY <1>4 DEF Reloads
  <2>4. Overlaps(u) = {} /\ "switched" \notin odd'
    BY <2>3, SmoothIs
  <2>5. acks[u] = 0 /\ \A s \in reads : IsList(s) => s.user # u
    BY <2>1, <2>4, NotBusy
  <2>6. sets[u] > 0
    BY <1>4, <2>5 DEF Given, SignedUp
  <2>7. userId = u \/ userId = NoUser
    BY <1>1, <1>4, <2>4 DEF Switched
  <2>8. OneRead' /\ ListsTrue'
    BY <1>1, <2>1, <2>2, <2>4, ReadAdded DEF Given, IsList
  <2>9. PanelTrue'
    <3> SUFFICES ASSUME NEW v \in Users
                 PROVE  /\ sets[v] <= 1
                        /\ v = u => panel[v] + acks[v] <= sets[v]
                        /\ v # u => panel[v] = 0
      BY <1>1, <2>3 DEF PanelTrue
    <3>1. /\ sets[v] <= 1
          /\ v = userId => panel[v] + acks[v] <= sets[v]
          /\ v # userId => panel[v] = 0
      BY DEF Given, PanelTrue
    <3>2. v # NoUser /\ sets[v] \in Nat
      BY Facts
    <3> QED  BY <2>5, <2>7, <3>1, <3>2
  <2>10. Placeholder'
    BY <1>1, <2>2, <2>3, <2>6 DEF Given, Placeholder, IsList
  <2> QED  BY <1>2, <2>8, <2>9, <2>10 DEF Given
<1> QED  BY <1>3, <1>4

LEMMA RelaunchGiven ==
  ASSUME TypeOK, Relaunch, \A u \in Users : sets[u] <= 1
  PROVE  Given'
<1>1. /\ saved' = NotSaved /\ userId' = auth /\ sets' = sets
      /\ acks' = [u \in Users |-> 0] /\ reads' = Launched.reads /\ panel' = Launched.panel
  BY DEF Relaunch, Launch
<1>2. auth \in SomeUser
  BY Facts
<1>3. /\ \A r, s \in reads' : IsList(r) /\ IsList(s) => r = s
      /\ \A r \in reads' : ~r.answered /\ r.user \in Users
  BY <1>1, <1>2, LaunchedIs DEF IsList, Read
<1>4. /\ \A u \in Users : panel'[u] = 0
      /\ panel'[NoUser] <= 1
      /\ panel'[NoUser] > 0 => auth = NoUser
  <2>1. NoUser \in SomeUser /\ \A u \in Users : u \in SomeUser
    BY DEF SomeUser
  <2>2. CASE auth = NoUser
    BY <1>1, <1>2, <2>2, LaunchedIs, Panels
  <2>3. CASE auth # NoUser
    <3>1. panel' = Nobody
      BY <1>1, <1>2, <2>3, LaunchedIs
    <3> QED  BY <2>1, <3>1, Panels
  <2> QED  BY <2>2, <2>3
<1>5. OneRead' /\ ListsTrue'
  BY <1>1, <1>3 DEF OneRead, ListsTrue
<1>6. PanelTrue'
  <2>1. \A u \in Users : sets[u] \in Nat /\ acks'[u] = 0
    BY <1>1, Facts
  <2> QED  BY <1>1, <1>4, <2>1 DEF PanelTrue
<1>7. Placeholder' /\ SignedUp'
  BY <1>1, <1>4 DEF Placeholder, SignedUp, NotSaved
<1> QED  BY <1>5, <1>6, <1>7 DEF Given
LEMMA AsideGiven ==
  ASSUME TypeOK, Given, Aside \/ AddSearch
  PROVE  Given'
<1>1. UNCHANGED <<sets, panel, reads, acks>>
  BY DEF Aside, AddSearch
<1>2. userId' = userId
  BY DEF Aside, AddSearch, SignInEndsUnseen, SignedInUnseen, PopSaved, KnownAfter, identity, vars
<1>3. saved' = saved \/ saved' = NotSaved
  BY DEF Aside, AddSearch, SignInEndsUnseen, SignedInUnseen, PopSaved, identity, vars
<1>4. OneRead' /\ ListsTrue'
  BY <1>1 DEF Given, OneRead, ListsTrue
<1>5. PanelTrue' /\ Placeholder'
  BY <1>1, <1>2 DEF Given, PanelTrue, Placeholder
<1>6. SignedUp'
  BY <1>1, <1>3 DEF Given, SignedUp, NotSaved
<1> QED  BY <1>4, <1>5, <1>6 DEF Given

LEMMA AnswerGiven ==
  ASSUME TypeOK, Given, Smooth', NEW r \in reads, Answer(r)
  PROVE  Given'
<1>1. UNCHANGED <<identity, sets, panel, acks>>
  BY AnswerIs
<1>2. PICK a \in Read :
        /\ reads' = (reads \ {r}) \cup {a}
        /\ a.kind = r.kind /\ a.by = r.by /\ a.user = r.user
        /\ \/ r.kind = "searches"
           \/ a.n = sets[r.user]
           \/ odd' = odd \cup {"failed"}
  BY AnswerIs
<1>3. IsList(a) => a.n = sets[a.user]
  BY <1>2, SmoothIs DEF IsList
<1>4. OneRead'
  BY <1>2 DEF Given, OneRead, IsList
<1>5. ListsTrue'
  BY <1>1, <1>2, <1>3 DEF Given, ListsTrue, IsList
<1>6. PanelTrue'
  BY <1>1 DEF Given, PanelTrue, identity
<1>7. Placeholder'
  BY <1>1, <1>2 DEF Given, Placeholder, IsList, identity
<1>8. SignedUp'
  BY <1>1, <1>2 DEF Given, SignedUp, IsList, identity
<1> QED  BY <1>4, <1>5, <1>6, <1>7, <1>8 DEF Given

\* The default lists of u, who has none, are added by the answer to r; the panel
\* may wait for their completion.
LEMMA AddGiven ==
  ASSUME TypeOK, Given, NEW r \in reads, IsList(r), r.answered, NoLists(r),
         AddDefaults(r.user), reads' = reads \ {r}, panel' = panel, UNCHANGED identity,
         \/ acks' = acks
         \/ r.user = userId /\ acks' = [acks EXCEPT ![r.user] = 1],
         r.by = "map" => r.user = userId
  PROVE  Given'
<1> DEFINE u == r.user
<1>1. u \in Users /\ u # NoUser
  BY Facts
<1>2. acks[u] = 0 /\ sets[u] = 0
  BY DEF Given, ListsTrue, NoLists
<1>3. sets' = [sets EXCEPT ![u] = 1]
  BY <1>2 DEF AddDefaults
<1>4. sets'[u] = 1 /\ \A v \in Users : v # u => sets'[v] = sets[v] /\ acks'[v] = acks[v]
  BY <1>1, <1>3 DEF TypeOK
<1>5. \A s \in reads' : IsList(s) => s.user # u /\ s.user \in Users /\ s \in reads
  BY Facts DEF Given, OneRead
<1> HIDE DEF u
<1>6. OneRead'
  BY <1>5 DEF Given, OneRead
<1>7. ListsTrue'
  BY <1>4, <1>5 DEF Given, ListsTrue
<1>8. panel[u] = 0 \/ u # userId
  BY <1>1, <1>2, Facts DEF Given, PanelTrue
<1>9. acks'[u] = 0 \/ (u = userId /\ acks'[u] = 1)
  BY <1>1, <1>2 DEF TypeOK, u
<1>10. PanelTrue'
  <2> SUFFICES ASSUME NEW v \in Users
               PROVE  /\ sets'[v] <= 1
                      /\ v = userId => panel[v] + acks'[v] <= sets'[v]
                      /\ v # userId => panel[v] = 0
    BY DEF PanelTrue, identity
  <2>1. CASE v = u
    BY <1>4, <1>8, <1>9, <2>1 DEF Given, PanelTrue
  <2>2. CASE v # u
    BY <1>4, <2>2 DEF Given, PanelTrue
  <2> QED  BY <2>1, <2>2
<1>11. Placeholder'
  <2>1. u = userId => ~(panel[NoUser] > 0)
    BY <1>1, <1>2 DEF Given, Placeholder
  <2>2. userId # NoUser => userId \in Users
    BY Facts DEF SomeUser
  <2>3. u # userId => r.by # "map"
    BY DEF u
  <2> QED  BY <1>4, <2>1, <2>2, <2>3 DEF Given, Placeholder, identity
<1>12. SignedUp'
  <2>1. saved.from = "signUp" => saved.user \in Users
    BY Facts DEF NotSaved
  <2> QED  BY <1>4, <2>1 DEF Given, SignedUp, identity, u
<1> QED  BY <1>6, <1>7, <1>10, <1>11, <1>12 DEF Given

LEMMA DeliveredGiven ==
  ASSUME TypeOK, SavedOK, Owned, Given, NEW r \in reads, Delivered(r)
  PROVE  Given'
<1>1. reads' = reads \ {r} /\ UNCHANGED identity
  BY DeliveredTyped
<1>2. r \in Read /\ r.user \in Users /\ r.user # NoUser /\ r.n \in Nat
  BY Facts, BoundAssumption
<1>3. CASE ShowSearches(r)
  <2>1. UNCHANGED <<sets, panel, acks>> /\ ~IsList(r)
    BY <1>3 DEF ShowSearches, IsList
  <2>2. OneRead' /\ ListsTrue'
    BY <1>1, <2>1 DEF Given, OneRead, ListsTrue
  <2>3. PanelTrue'
    BY <1>1, <2>1 DEF Given, PanelTrue, identity
  <2>4. Placeholder' /\ SignedUp'
    BY <1>1, <2>1 DEF Given, Placeholder, SignedUp, identity
  <2> QED  BY <2>2, <2>3, <2>4 DEF Given
<1>4. ASSUME IsList(r), r.answered, ~NoLists(r), UNCHANGED <<sets, acks>>,
             panel' = panel \/ (r.by = "map" /\ panel' = ShownLists(r)),
             r.by = "map" => panel' = ShownLists(r)
      PROVE  Given'
  <2>1. r.n = sets[r.user] /\ acks[r.user] = 0 /\ sets[r.user] > 0
    BY <1>2, <1>4 DEF Given, ListsTrue, NoLists
  <2>2. OneRead' /\ ListsTrue'
    BY <1>1, <1>4 DEF Given, OneRead, ListsTrue
  <2>3. SignedUp'
    BY <1>1, <1>4, <2>1 DEF Given, SignedUp, identity
  <2>4. CASE r.by # "map"
    <3>1. panel' = panel
      BY <1>4, <2>4
    <3>2. PanelTrue' /\ Placeholder'
      BY <1>1, <1>4, <2>4, <3>1 DEF Given, PanelTrue, Placeholder, identity
    <3> QED  BY <2>2, <2>3, <3>2 DEF Given
  <2>5. CASE r.by = "map"
    <3>1. r.user = userId
      BY <2>5 DEF Owned
    <3>2. /\ panel'[r.user] = r.n
          /\ \A v \in SomeUser : v # r.user => panel'[v] = 0
      BY <1>2, <1>4, <2>5, Panels
    <3>3. NoUser \in SomeUser /\ \A v \in Users : v \in SomeUser
      BY DEF SomeUser
    <3>4. PanelTrue'
      BY <1>1, <1>4, <2>1, <3>1, <3>2, <3>3, Facts DEF Given, PanelTrue, identity
    <3>5. Placeholder'
      BY <1>2, <3>2, <3>3 DEF Placeholder
    <3> QED  BY <2>2, <2>3, <3>4, <3>5 DEF Given
  <2> QED  BY <2>4, <2>5
<1>5. CASE ShowLists(r)
  <2>1. IsList(r) /\ r.answered /\ r.by = "map" /\ r.user = userId
    BY <1>5 DEF ShowLists, IsList, Owned
  <2>2. CASE ~NoLists(r)
    BY <1>4, <1>5, <2>1, <2>2 DEF ShowLists
  <2>3. CASE NoLists(r)
    <3>1. /\ AddDefaults(r.user) /\ panel' = panel
          /\ acks' = [acks EXCEPT ![r.user] = acks[r.user] + 1]
      BY <1>2, <1>5, <2>1, <2>3 DEF ShowLists
    <3>2. acks[r.user] = 0
      BY <2>1 DEF Given, ListsTrue
    <3>3. acks' = [acks EXCEPT ![r.user] = 1]
      BY <3>1, <3>2
    <3> QED  BY <1>1, <2>1, <2>3, <3>1, <3>3, AddGiven
  <2> QED  BY <2>2, <2>3
<1>6. CASE SavedListsCome(r)
  <2>1. IsList(r) /\ r.answered /\ r.by = "saved" /\ panel' = panel /\ acks' = acks
    BY <1>6 DEF SavedListsCome, IsList
  <2>2. CASE NoLists(r)
    <3>1. AddDefaults(r.user)
      BY <1>6, <2>2 DEF SavedListsCome
    <3> QED  BY <1>1, <2>1, <2>2, <3>1, AddGiven
  <2>3. CASE ~NoLists(r)
    BY <1>4, <1>6, <2>1, <2>3 DEF SavedListsCome
  <2> QED  BY <2>2, <2>3
<1> QED  BY <1>3, <1>5, <1>6 DEF Delivered

LEMMA DefaultsAddedGiven ==
  ASSUME TypeOK, SavedOK, Owned, Given, NEW u \in Users, DefaultsAdded(u)
  PROVE  Given'
<1>1. /\ acks[u] \in Nat \ {0} /\ acks' = [acks EXCEPT ![u] = acks[u] - 1]
      /\ panel' = [panel EXCEPT ![u] = panel[u] + 1]
      /\ UNCHANGED <<identity, sets, reads>>
  BY DefaultsAddedTyped
<1>2. u = userId /\ u # NoUser
  BY <1>1, Facts DEF Owned
<1>3. \A r \in reads : IsList(r) => r.user # u /\ r.user \in Users
  BY <1>1, Facts DEF Given, ListsTrue
<1>4. /\ acks'[u] = acks[u] - 1 /\ panel'[u] = panel[u] + 1
      /\ \A v \in Users : v # u => acks'[v] = acks[v] /\ panel'[v] = panel[v]
      /\ panel'[NoUser] = panel[NoUser]
  BY <1>1, <1>2 DEF TypeOK, SomeUser
<1>5. OneRead' /\ ListsTrue'
  BY <1>1, <1>3, <1>4 DEF Given, OneRead, ListsTrue
<1>6. PanelTrue'
  <2> SUFFICES ASSUME NEW v \in Users
               PROVE  /\ sets[v] <= 1
                      /\ v = userId => panel'[v] + acks'[v] <= sets[v]
                      /\ v # userId => panel'[v] = 0
    BY <1>1 DEF PanelTrue, identity
  <2>1. panel[v] \in Nat /\ acks[v] \in Nat /\ sets[v] \in Nat
    BY Facts
  <2> QED  BY <1>1, <1>2, <1>4, <2>1 DEF Given, PanelTrue
<1>7. Placeholder' /\ SignedUp'
  BY <1>1, <1>4 DEF Given, Placeholder, SignedUp, identity
<1> QED  BY <1>5, <1>6, <1>7 DEF Given

LEMMA NextGiven ==
  ASSUME TypeOK, SavedOK, OwnerOK, ListsOK, [Next]_vars
  PROVE  ListsOK'
<1> SUFFICES ASSUME Smooth'
             PROVE  Given'
  BY DEF ListsOK
<1>1. odd \subseteq odd'
  BY OddGrows
<1>2. Smooth /\ "switched" \notin odd
  BY <1>1, SmoothIs
<1>3. Given /\ Owned
  BY <1>2 DEF ListsOK, OwnerOK
<1>4. ASSUME LeaveSaved, saved.from = "signUp"
      PROVE  Given'
  <2>1. Reloads(auth) /\ saved.user = auth
    BY <1>3, <1>4, LeaveSavedIs DEF Owned
  <2> QED  BY <1>3, <1>4, <2>1, ReloadsGiven
<1>5. ASSUME MapLogOut
      PROVE  Given'
  <2>1. PICK u \in {NoUser, auth} : Reloads(u) /\ OnMap
    BY <1>5, LogOutIs
  <2>2. u = NoUser
    <3>1. "failed" \notin odd'
      BY SmoothIs
    <3> QED  BY <2>1, <3>1 DEF Reloads, Failing
  <2> QED  BY <1>3, <2>1, <2>2, ReloadsGiven
<1>6. ASSUME NEW r \in reads, Answer(r) \/ Delivered(r)
      PROVE  Given'
  BY <1>3, <1>6, AnswerGiven, DeliveredGiven
<1>7. ASSUME NEW u \in Users, DefaultsAdded(u)
      PROVE  Given'
  BY <1>3, <1>7, DefaultsAddedGiven
<1>8. Relaunch => Given'
  BY <1>3, RelaunchGiven DEF Given, PanelTrue
<1>9. Asking \/ Aside \/ AddSearch => Given'
  BY <1>3, AskingGiven, AsideGiven
<1> QED  BY <1>4, <1>5, <1>6, <1>7, <1>8, <1>9, StepCases
-----------------------------------------------------------------------------
(* The numbers of the searches.                                            *)

\* Reads of searches are kept, or new ones not answered, and the search view
\* has been asked for whenever its user has changed.
LEMMA NumberedKept ==
  ASSUME Numbered, stored' = stored,
         \A r \in reads' : r \in reads \/ ~r.answered \/ r.kind # "searches",
         \/ /\ searches' = searches /\ userId' = userId
            /\ \A r \in reads : r.kind = "searches" => r \in reads'
         \/ userId' # NoUser => \E r \in reads' : r.kind = "searches"
  PROVE  Numbered'
<1>1. Rising'
  BY DEF Numbered, Rising
<1>2. FoundLatest'
  BY DEF Numbered, FoundLatest, Latest
<1>3. ShownLatest'
  BY DEF Numbered, ShownLatest, Latest
<1> QED  BY <1>1, <1>2, <1>3 DEF Numbered

LEMMA ReloadsNumbered ==
  ASSUME Numbered, NEW u, Reloads(u)
  PROVE  Numbered'
<1>1. stored' = stored /\ userId' = u
  BY DEF Reloads
<1>2. \A r \in reads' : r \in reads \/ ~r.answered
  BY DEF Reloads
<1>3. u # NoUser => \E r \in reads' : r.kind = "searches"
  BY DEF Reloads
<1> QED  BY <1>1, <1>2, <1>3, NumberedKept

LEMMA AnswerNumbered ==
  ASSUME TypeOK, Numbered, Ordered', NEW r \in reads, Answer(r)
  PROVE  Numbered'
<1>1. UNCHANGED <<identity, stored, searches>>
  BY AnswerIs
<1>2. PICK a \in Read :
        /\ reads' = (reads \ {r}) \cup {a}
        /\ a.kind = r.kind /\ a.user = r.user
        /\ \/ r.kind = "searches" /\ a.found \in Newest(stored[r.user])
           \/ r.kind = "lists"
           \/ odd' = odd \cup {"failed"}
  BY AnswerIs
<1>3. r.kind = "searches" => a.found \in Newest(stored[r.user])
  BY <1>2 DEF Ordered
<1>4. r.kind = "searches" => Latest(a.user, a.found)
  <2> DEFINE q == stored[r.user]
  <2>1. r.user \in Users /\ q \in SearchesUpTo(MaxStored)
    BY Facts
  <2>2. \A i, j \in 1..Len(q) : i < j => q[i].id < q[j].id
    BY <2>1 DEF Numbered, Rising
  <2> HIDE DEF q
  <2>3. a.found \in Newest(q) => q = <<>> \/ q[Len(q)].id \in Ids(a.found)
    BY <2>1, <2>2, NewestIs
  <2> QED  BY <1>2, <1>3, <2>3 DEF Latest, q
<1>5. Rising'
  BY <1>1 DEF Numbered, Rising
<1>6. FoundLatest'
  <2>1. \A s \in reads' : s \in reads \/ s = a
    BY <1>2
  <2> QED  BY <1>1, <1>2, <1>4, <2>1 DEF Numbered, FoundLatest, Latest
<1>7. ShownLatest'
  BY <1>1, <1>2 DEF Numbered, ShownLatest, Latest, identity
<1> QED  BY <1>5, <1>6, <1>7 DEF Numbered

LEMMA DeliveredNumbered ==
  ASSUME TypeOK, SavedOK, Owned, Numbered, NEW r \in reads, Delivered(r)
  PROVE  Numbered'
<1>1. reads' = reads \ {r} /\ UNCHANGED <<identity, stored>>
  BY DeliveredTyped
<1>2. Rising' /\ FoundLatest'
  BY <1>1 DEF Numbered, Rising, FoundLatest, Latest
<1>3. ShownLatest'
  <2>1. CASE ShowSearches(r)
    <3>1. searches' = r.found /\ r.answered /\ r.kind = "searches"
      BY <2>1 DEF ShowSearches
    <3>2. r.user = userId
      BY <3>1 DEF SavedOK, Owned
    <3>3. Latest(userId, r.found)
      BY <3>1, <3>2 DEF Numbered, FoundLatest
    <3> QED  BY <1>1, <3>1, <3>3 DEF ShownLatest, Latest, identity
  <2>2. CASE ShowLists(r) \/ SavedListsCome(r)
    <3>1. searches' = searches /\ r.kind # "searches"
      BY <2>2 DEF ShowLists, SavedListsCome
    <3> QED  BY <1>1, <3>1 DEF Numbered, ShownLatest, Latest, identity
  <2> QED  BY <2>1, <2>2 DEF Delivered
<1> QED  BY <1>2, <1>3 DEF Numbered

LEMMA AddSearchNumbered ==
  ASSUME TypeOK, Numbered, Ordered', AddSearch
  PROVE  Numbered'
<1> DEFINE old == stored[userId]
           id == NextId(searches)
<1>1. PICK s \in Search :
            /\ s.id = NextId(searches) /\ userId \in Users
            /\ stored' = [stored EXCEPT ![userId] = Append(stored[userId], s)]
            /\ stored[userId] \in Seq(Search)
            /\ searches' = Inserted(searches, s)
            /\ odd' = odd \cup Early
            /\ UNCHANGED <<identity, sets, panel, text, reads, acks, crashed>>
  BY AddSearchIs
<1> DEFINE new == Append(old, s)
<1>2. Early = {} /\ ~\E r \in reads : r.kind = "searches"
  <2>1. "early" \notin odd'
    BY DEF Ordered
  <2> QED  BY <1>1, <2>1 DEF Early
<1>3. userId # NoUser /\ Latest(userId, searches)
  BY <1>1, <1>2, Facts DEF Numbered, ShownLatest
<1>4. /\ Len(old) \in Nat /\ \A i \in 1..Len(old) : old[i].id \in Nat
      /\ \A i, j \in 1..Len(old) : i < j => old[i].id < old[j].id
  <2>1. \A i \in 1..Len(old) : old[i] \in Search
    BY <1>1
  <2>2. \A x \in Search : x.id \in Nat
    BY BoundAssumption DEF Search
  <2>3. Len(old) \in Nat
    BY <1>1, LenProperties
  <2> QED  BY <1>1, <2>1, <2>2, <2>3 DEF Numbered, Rising
<1>5. /\ Len(new) = Len(old) + 1 /\ new[Len(old) + 1] = s
      /\ \A i \in 1..Len(old) : new[i] = old[i]
  BY <1>1, LenProperties, AppendProperties
<1>6. stored'[userId] = new /\ \A u \in Users : u # userId => stored'[u] = stored[u]
  BY <1>1 DEF TypeOK
<1>7. /\ searches # <<>> => MaxId(searches) + 1 = id /\ \A m \in Ids(searches) : m <= MaxId(searches)
      /\ Ids(searches) \subseteq Nat /\ id \in Nat
      /\ searches # <<>> => MaxId(searches) \in Ids(searches)
  <2>1. searches \in SearchesUpTo(MaxShown) /\ 1..MaxStored \subseteq Nat
    BY Facts, BoundAssumption
  <2> QED  BY <2>1, NextIdIs
<1>8. searches = <<>> => Ids(searches) = {}
  BY DEF Ids
<1>9. s.id = id
  BY <1>1
<1> DEFINE n == Len(old)
<1>10. old = <<>> \/ old[n].id \in Ids(searches)
  BY <1>3 DEF Latest
<1>11. new # <<>> /\ n \in Nat /\ Len(new) = n + 1
  <2>1. \A q : q = <<>> => Len(q) = 0
    OBVIOUS
  <2> HIDE DEF new, old
  <2> QED  BY <1>4, <1>5, <2>1
<1>12. old = <<>> => n = 0
  OBVIOUS
<1> HIDE DEF old, id, new, n
<1>13. \A i \in 1..n : old[i].id < id
  <2> SUFFICES ASSUME NEW i \in 1..n
               PROVE  old[i].id < id
    OBVIOUS
  <2>1. old # <<>> /\ n \in 1..n
    BY <1>11, <1>12
  <2>2. old[n].id \in Ids(searches) /\ searches # <<>>
    BY <1>8, <1>10, <2>1
  <2>3. old[n].id < id
    BY <1>7, <2>2
  <2>4. i = n \/ i < n
    BY <1>11
  <2>5. i < n => old[i].id < old[n].id
    BY <1>4, <2>1 DEF n
  <2>6. old[i].id \in Nat /\ old[n].id \in Nat
    BY <1>4, <2>1 DEF n
  <2> QED  BY <1>7, <2>3, <2>4, <2>5, <2>6
<1>14. \A i, j \in 1..Len(new) : i < j => new[i].id < new[j].id
  <2> SUFFICES ASSUME NEW i \in 1..(n + 1), NEW j \in 1..(n + 1), i < j
               PROVE  new[i].id < new[j].id
    BY <1>11
  <2>1. i \in 1..n /\ new[i] = old[i]
    BY <1>5, <1>11 DEF n
  <2>2. CASE j = n + 1
    <3>1. new[j].id = id
      BY <1>5, <1>9, <2>2 DEF n
    <3> QED  BY <1>13, <2>1, <3>1
  <2>3. CASE j # n + 1
    <3>1. j \in 1..n /\ new[j] = old[j]
      <4>1. j \in 1..n
        BY <1>11, <2>3
      <4> QED  BY <1>5, <4>1 DEF n
    <3> QED  BY <1>4, <2>1, <3>1 DEF n
  <2> QED  BY <2>2, <2>3
<1>15. Rising'
  <2> SUFFICES ASSUME NEW u \in Users
               PROVE  \A i, j \in 1..Len(stored'[u]) :
                         i < j => stored'[u][i].id < stored'[u][j].id
    BY DEF Rising
  <2>1. CASE u = userId
    BY <1>6, <1>14, <2>1
  <2>2. CASE u # userId
    BY <1>6, <2>2 DEF Numbered, Rising
  <2> QED  BY <2>1, <2>2
<1>16. FoundLatest'
  BY <1>1, <1>2 DEF FoundLatest
<1>17. ShownLatest'
  <2> DEFINE shown == Inserted(searches, s)
  <2>1. shown \in SearchesUpTo(MaxShown) /\ Len(shown) > 0 /\ shown[1] = s
    BY Facts, InsertedIs
  <2>2. searches' = shown
    BY <1>1
  <2> HIDE DEF shown
  <2>3. DOMAIN shown = 1..Len(shown) /\ Len(shown) \in Nat
    BY <2>1, SearchSeq, ShownAssumption
  <2>4. s.id \in Ids(shown)
    BY <2>1, <2>3 DEF Ids
  <2>5. new[Len(new)] = s
    BY <1>5, <1>11 DEF n
  <2>6. userId' = userId
    BY <1>1 DEF identity
  <2>7. stored'[userId'][Len(stored'[userId'])].id \in Ids(searches')
    BY <1>6, <2>2, <2>4, <2>5, <2>6
  <2> QED  BY <2>7 DEF ShownLatest, Latest
<1> QED  BY <1>15, <1>16, <1>17 DEF Numbered
LEMMA NextNumbered ==
  ASSUME TypeOK, SavedOK, OwnerOK, IdsOK, [Next]_vars
  PROVE  IdsOK'
<1> SUFFICES ASSUME Ordered'
             PROVE  Numbered'
  BY DEF IdsOK
<1>1. odd \subseteq odd'
  BY OddGrows
<1>2. Numbered /\ Owned
  BY <1>1 DEF IdsOK, OwnerOK, Ordered
<1>3. ASSUME LeaveSaved, saved.from = "signUp"
      PROVE  Numbered'
  BY <1>2, <1>3, LeaveSavedIs, ReloadsNumbered
<1>4. ASSUME MapLogOut
      PROVE  Numbered'
  BY <1>2, <1>4, LogOutIs, ReloadsNumbered
<1>5. ASSUME NEW r \in reads, Answer(r) \/ Delivered(r)
      PROVE  Numbered'
  BY <1>2, <1>5, AnswerNumbered, DeliveredNumbered
<1>6. ASSUME NEW u \in Users, DefaultsAdded(u)
      PROVE  Numbered'
  <2>1. UNCHANGED <<identity, stored, searches, reads>>
    BY <1>6 DEF DefaultsAdded
  <2> QED  BY <1>2, <2>1, NumberedKept DEF identity
<1>7. ASSUME Asking
      PROVE  Numbered'
  <2>1. PICK by \in {"map", "saved"}, u \in Users : Asks(by, u) /\ userId' = userId
    BY <1>7 DEF Asking, Arrive, PushSaved, identity
  <2>2. stored' = stored /\ searches' = searches
    BY <2>1 DEF Asks
  <2>3. PICK r \in Read : reads' = reads \cup {r} /\ r.kind = "lists"
    BY <2>1 DEF Asks
  <2>4. \A s \in reads' : s \in reads \/ s.kind # "searches"
    BY <2>3
  <2> QED  BY <1>2, <2>1, <2>2, <2>3, <2>4, NumberedKept
<1>8. ASSUME Aside
      PROVE  Numbered'
  <2>1. UNCHANGED <<stored, searches, reads>>
    BY <1>8 DEF Aside
  <2>2. userId' = userId
    BY <1>8 DEF Aside, SignInEndsUnseen, SignedInUnseen, PopSaved, KnownAfter, identity, vars
  <2> QED  BY <1>2, <2>1, <2>2, NumberedKept
<1>9. ASSUME Relaunch
      PROVE  Numbered'
  <2>1. stored' = stored /\ reads' = Launched.reads /\ userId' = auth
    BY <1>9 DEF Relaunch, Launch
  <2>2. /\ \A r \in reads' : ~r.answered
        /\ auth # NoUser => \E r \in reads' : r.kind = "searches"
    BY <2>1, Facts, LaunchedIs
  <2> QED  BY <1>2, <2>1, <2>2, NumberedKept
<1>10. AddSearch => Numbered'
  BY <1>2, AddSearchNumbered
<1> QED  BY <1>3, <1>4, <1>5, <1>6, <1>7, <1>8, <1>9, <1>10, StepCases
-----------------------------------------------------------------------------
(* The session.                                                            *)

LEMMA InitInv ==
  ASSUME Init
  PROVE  IInv
<1>1. TypeOK /\ auth \in SomeUser
  BY InitType, Facts
<1>2. /\ userId = auth /\ saved = NotSaved
      /\ stored = [u \in Users |-> <<>>] /\ sets = [u \in Users |-> 0]
      /\ searches = <<>> /\ acks = [u \in Users |-> 0] /\ odd = {}
      /\ panel = Launched.panel /\ reads = Launched.reads
  BY DEF Init, IdentityInit
<1>3. \A r \in reads : /\ r.by = "map" /\ r.user = auth /\ ~r.answered
                       /\ r.found = <<>> /\ r.user \in Users
  BY <1>1, <1>2, Facts, LaunchedIs
<1>4. \A q : q = <<>> => Len(q) = 0
  OBVIOUS
<1>5. SavedOK
  BY <1>2, <1>3, <1>4 DEF SavedOK, OnMap
<1>6. Owned
  BY <1>2, <1>3, <1>4 DEF Owned, NotSaved
<1>7. OneRead
  BY <1>1, <1>2, LaunchedIs DEF OneRead, IsList
<1>8. ListsTrue
  BY <1>2, <1>3 DEF ListsTrue
<1>9. /\ \A u \in Users : panel[u] = 0
      /\ panel[NoUser] <= 1
      /\ panel[NoUser] > 0 => auth = NoUser
  <2>1. NoUser \in SomeUser /\ \A u \in Users : u \in SomeUser
    BY DEF SomeUser
  <2>2. CASE auth = NoUser
    BY <1>1, <1>2, <2>2, LaunchedIs, Panels
  <2>3. CASE auth # NoUser
    <3>1. panel = Nobody
      BY <1>1, <1>2, <2>3, LaunchedIs
    <3> QED  BY <2>1, <3>1, Panels
  <2> QED  BY <2>2, <2>3
<1>10. PanelTrue /\ Placeholder /\ SignedUp
  <2>1. \A u \in Users : sets[u] = 0 /\ acks[u] = 0
    BY <1>2
  <2>2. PanelTrue
    <3>1. ASSUME NEW u \in Users
          PROVE  sets[u] <= 1 /\ panel[u] + acks[u] <= sets[u]
      <4>1. sets[u] = 0 /\ acks[u] = 0 /\ panel[u] = 0
        BY <1>9, <2>1
      <4> QED  BY <4>1
    <3> QED  BY <1>9, <3>1 DEF PanelTrue
  <2>3. Placeholder
    BY <1>2, <1>9 DEF Placeholder
  <2>4. SignedUp
    BY <1>2 DEF SignedUp, NotSaved
  <2> QED  BY <2>2, <2>3, <2>4
<1>11. Rising /\ FoundLatest
  <2>1. \A u \in Users : stored[u] = <<>>
    BY <1>2
  <2> QED  BY <1>3, <1>4, <2>1 DEF Rising, FoundLatest
<1>12. ShownLatest
  BY <1>1, <1>2, LaunchedIs DEF ShownLatest
<1> QED  BY <1>1, <1>5, <1>6, <1>7, <1>8, <1>10, <1>11, <1>12
        DEF IInv, OwnerOK, ListsOK, Given, IdsOK, Numbered

LEMMA NextInv ==
  IInv /\ [Next]_vars => IInv'
BY NextTyped, NextOwned, NextGiven, NextNumbered DEF IInv

LEMMA AlwaysInv == Spec => []IInv
BY InitInv, NextInv, PTL DEF Spec

LEMMA InvShows ==
  ASSUME IInv
  PROVE  DefaultsOnce /\ OwnData /\ IdsIncrease
<1>1. DefaultsOnce
  BY DEF IInv, ListsOK, Smooth, Given, PanelTrue, DefaultsOnce
<1>2. ASSUME Smooth, NEW v \in SomeUser, panel[v] > 0
      PROVE  \/ v = userId /\ (v = NoUser \/ panel[v] <= sets[v])
             \/ v = NoUser /\ panel[v] = 1 /\ Outlived
  <2>1. PanelTrue /\ Placeholder
    BY <1>2 DEF IInv, ListsOK, Given
  <2>2. CASE v \in Users
    <3>1. panel[v] \in Nat /\ acks[v] \in Nat /\ sets[v] \in Nat
      BY <2>2, Facts DEF IInv
    <3> QED  BY <1>2, <2>1, <2>2, <3>1 DEF PanelTrue
  <2>3. CASE v = NoUser
    <3>1. panel[NoUser] \in Nat
      BY Facts DEF IInv
    <3> QED  BY <1>2, <2>1, <2>3, <3>1 DEF Placeholder, Outlived
  <2> QED  BY <2>2, <2>3 DEF SomeUser
<1>3. ASSUME "switched" \notin odd, NEW i \in DOMAIN searches
      PROVE  /\ userId # NoUser
             /\ \E j \in DOMAIN stored[userId] : stored[userId][j] = searches[i]
  <2>1. i \in 1..Len(searches)
    BY Facts, SearchSeq, ShownAssumption DEF IInv
  <2>2. userId # NoUser /\ Holds(userId, searches[i])
    BY <1>3, <2>1 DEF IInv, OwnerOK, Owned
  <2>3. stored[userId] \in SearchesUpTo(MaxStored)
    BY <2>2, Facts DEF IInv, SomeUser
  <2>4. DOMAIN stored[userId] = 1..Len(stored[userId])
    BY <2>3, SearchSeq, BoundAssumption
  <2> QED  BY <2>2, <2>4 DEF Holds
<1>4. OwnData
  BY <1>2, <1>3 DEF OwnData, Smooth
<1>5. IdsIncrease
  <2>1. \A u \in Users : DOMAIN stored[u] = 1..Len(stored[u])
    BY Facts, SearchSeq, BoundAssumption DEF IInv
  <2> QED  BY <2>1 DEF IInv, IdsOK, Ordered, Numbered, Rising, IdsIncrease
<1> QED  BY <1>1, <1>4, <1>5

\* An account is given its default lists once, unless a read of its lists
\* failed, overlapped another, or its user changed at a bad moment.
THEOREM DefaultsGivenOnce == Spec => []DefaultsOnce
<1>1. IInv => DefaultsOnce
  BY InvShows
<1> QED  BY <1>1, AlwaysInv, PTL

\* Nothing of one user is shown to another: the lists and the recent searches in
\* the panel are those of userId.
THEOREM OnlyOwnData == Spec => []OwnData
<1>1. IInv => OwnData
  BY InvShows
<1> QED  BY <1>1, AlwaysInv, PTL

\* A later search has a greater number, though numbers are taken from what the
\* panel shows, never from what is stored.
THEOREM IdsAlwaysIncrease == Spec => []IdsIncrease
<1>1. IInv => IdsIncrease
  BY InvShows
<1> QED  BY <1>1, AlwaysInv, PTL
=============================================================================
