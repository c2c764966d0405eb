------------------------ MODULE FirestoreGetsProofs ------------------------
(* Proofs about FirestoreGets, for any queries, any gets of them and any      *)
(* number of faults: no assertion of the client fails, each get is answered   *)
(* once, and no view is current by the word of an earlier listen.             *)
EXTENDS FirestoreGets, FiniteSetTheorems, SequenceTheorems, WellFoundedInduction, TLAPS

-----------------------------------------------------------------------------
(* Folds, as in DocumentCacheProofs.                                       *)

LEMMA LeastOf ==
  ASSUME NEW T \in SUBSET Nat, T # {}
  PROVE  \E n \in T : \A k \in T : n <= k
<1>1. PICK n \in T : \A k \in T : ~(<<k, n>> \in OpToRel(<, Nat))
  BY NatLessThanWellFounded, WFMin
<1>2. \A k \in T : ~(k < n)
  BY <1>1 DEF OpToRel
<1> QED  BY <1>2

LEMMA MaxIsLast ==
  ASSUME NEW n \in Nat, NEW s \in SUBSET (1..(n + 1)), n + 1 \in s
  PROVE  Max(s) = n + 1
<1> DEFINE Top(x) == x \in s /\ \A y \in s : x >= y
<1>1. Top(n + 1)
  OBVIOUS
<1>2. \A x : Top(x) => x = n + 1
  OBVIOUS
<1>3. Max(s) = CHOOSE x : Top(x)
  BY DEF Max
<1> QED
  <2> HIDE DEF Top
  <2> QED  BY <1>1, <1>2, <1>3

\* The recursive function that MapThenFoldSet stands for, when its operator is
\* given as a function f of a set X.
IsFold(G, b, f, n) ==
    G = [s \in SUBSET (1..n) |->
            IF s = {} THEN b ELSE f[<<G[s \ {Max(s)}], Max(s)>>]]

LEMMA FoldExists ==
  ASSUME NEW X, NEW b \in X, NEW n \in Nat, NEW f \in [X \X (1..n) -> X]
  PROVE  \E G \in [SUBSET (1..n) -> X] : IsFold(G, b, f, n)
<1> DEFINE Good(k) == \E G \in [SUBSET (1..k) -> X] : IsFold(G, b, f, k)
           bad == {k \in 0..n : ~Good(k)}
<1> SUFFICES ASSUME bad # {} PROVE FALSE
  <2>1. (bad = {}) => Good(n)
    <3> HIDE DEF Good
    <3> QED  OBVIOUS
  <2>2. Good(n) => \E G \in [SUBSET (1..n) -> X] : IsFold(G, b, f, n)
    OBVIOUS
  <2> HIDE DEF bad, Good
  <2> QED  BY <2>1, <2>2
<1>1. PICK k \in bad : \A j \in bad : k <= j
  <2>1. bad \in SUBSET Nat
    OBVIOUS
  <2> HIDE DEF bad
  <2> QED  BY <2>1, LeastOf
<1>2. CASE k = 0
  <2>1. SUBSET (1..0) = {{}}
    OBVIOUS
  <2> DEFINE G == [s \in SUBSET (1..0) |-> b]
  <2>2. G \in [SUBSET (1..0) -> X]
    OBVIOUS
  <2>3. IsFold(G, b, f, 0)
    BY <2>1 DEF IsFold
  <2> QED  BY <1>1, <1>2, <2>2, <2>3
<1>3. CASE k # 0
  <2>1. k - 1 \in 0..n /\ k - 1 \in Nat /\ k \in 1..n
    BY <1>3
  <2>2. PICK G \in [SUBSET (1..(k - 1)) -> X] : IsFold(G, b, f, k - 1)
    <3>1. Good(k - 1)
      <4> HIDE DEF Good
      <4> QED  BY <1>1, <2>1
    <3> QED  BY <3>1
  <2> DEFINE H == [s \in SUBSET (1..k) |->
                      IF k \in s THEN f[<<G[s \ {k}], k>>] ELSE G[s]]
  <2>3. \A s \in SUBSET (1..k) : /\ s \ {k} \in SUBSET (1..(k - 1))
                                 /\ k \notin s => s \in SUBSET (1..(k - 1))
    BY <2>1
  <2>4. H \in [SUBSET (1..k) -> X]
    BY <2>1, <2>2, <2>3
  <2>5. \A s \in SUBSET (1..(k - 1)) : H[s] = G[s]
    BY <2>1
  <2>6. ASSUME NEW s \in SUBSET (1..k)
        PROVE  H[s] = IF s = {} THEN b ELSE f[<<H[s \ {Max(s)}], Max(s)>>]
    <3>1. CASE k \in s
      <4>1. Max(s) = k
        BY <2>1, <3>1, MaxIsLast
      <4>2. H[s \ {k}] = G[s \ {k}]
        BY <2>3, <2>5
      <4> QED  BY <3>1, <4>1, <4>2
    <3>2. CASE k \notin s
      <4>1. s \in SUBSET (1..(k - 1)) /\ H[s] = G[s]
        BY <2>3, <3>2
      <4>2. G[s] = IF s = {} THEN b ELSE f[<<G[s \ {Max(s)}], Max(s)>>]
        BY <2>2, <4>1 DEF IsFold
      <4>3. s \ {Max(s)} \in SUBSET (1..(k - 1))
        BY <4>1
      <4>4. H[s \ {Max(s)}] = G[s \ {Max(s)}]
        BY <2>5, <4>3
      <4> QED  BY <4>1, <4>2, <4>4
    <3> QED  BY <3>1, <3>2
  <2>7. IsFold(H, b, f, k)
    <3> HIDE DEF H
    <3> QED  BY <2>4, <2>6 DEF IsFold
  <2> QED  BY <1>1, <2>4, <2>7
<1> QED  BY <1>2, <1>3
LEMMA MaxIsIn ==
  ASSUME NEW n \in Nat, NEW s \in SUBSET (1..n), s # {}
  PROVE  Max(s) \in s
<1> DEFINE T == {n - x : x \in s}
<1>1. PICK t \in T : \A u \in T : t <= u
  <2>1. \A x \in s : n - x \in Nat
    OBVIOUS
  <2>2. T \in SUBSET Nat
    BY <2>1
  <2>3. PICK x : x \in s
    OBVIOUS
  <2>4. n - x \in T
    BY <2>3
  <2> HIDE DEF T
  <2> QED  BY <2>2, <2>4, LeastOf
<1>2. PICK x \in s : t = n - x
  OBVIOUS
<1>3. \A y \in s : x >= y
  <2> SUFFICES ASSUME NEW y \in s PROVE x >= y
    OBVIOUS
  <2>1. t <= n - y
    BY <1>1
  <2> QED  BY <1>2, <2>1
<1> QED  BY <1>2, <1>3 DEF Max

\* What holds at first and is kept by every element holds in the end.
LEMMA FoldStays ==
  ASSUME NEW n \in Nat, NEW X, NEW G, G[1..0] \in X[0],
         \A i \in 1..n : G[1..(i - 1)] \in X[i - 1] => G[1..i] \in X[i]
  PROVE  G[1..n] \in X[n]
<1> DEFINE bad == {i \in 0..n : G[1..i] \notin X[i]}
<1>1. CASE bad = {}
  BY <1>1
<1>2. CASE bad # {}
  <2>1. bad \in SUBSET Nat
    OBVIOUS
  <2>2. PICK k \in bad : \A j \in bad : k <= j
    <3> HIDE DEF bad
    <3> QED  BY <1>2, <2>1, LeastOf
  <2>3. k \in 0..n /\ k # 0 /\ G[1..k] \notin X[k]
    BY <2>2
  <2>4. k \in 1..n /\ k - 1 \in 0..n /\ k - 1 < k
    BY <2>3
  <2>5. G[1..(k - 1)] \in X[k - 1]
    BY <2>2, <2>4
  <2> QED  BY <2>3, <2>4, <2>5
<1> QED  BY <1>1, <1>2

\* The prefix 1..i of the positions, as a fold takes it apart.
LEMMA PrefixOf ==
  ASSUME NEW n \in Nat, NEW i \in 1..n
  PROVE  /\ 1..i \in SUBSET (1..n) /\ 1..i # {}
         /\ Max(1..i) = i /\ (1..i) \ {i} = 1..(i - 1)
<1>1. 1..i \in SUBSET (1..n) /\ 1..i # {} /\ (1..i) \ {i} = 1..(i - 1)
  OBVIOUS
<1>2. i - 1 \in Nat /\ i = (i - 1) + 1 /\ 1..i \in SUBSET (1..((i - 1) + 1))
  OBVIOUS
<1>3. (i - 1) + 1 \in 1..i
  OBVIOUS
<1> QED  BY <1>1, <1>2, <1>3, MaxIsLast

\* The gets of a list that are in a set make a list again, of these gets, each
\* as often as before.
Sifted(s, gets, keep, k) ==
    /\ s \in Seq(Gets)
    /\ \A i \in 1..Len(s) : s[i] \in keep /\ \E j \in 1..k : s[i] = gets[j]
    /\ \A j \in 1..k : gets[j] \in keep => \E i \in 1..Len(s) : s[i] = gets[j]
    /\ (\A i, j \in 1..Len(gets) : gets[i] = gets[j] => i = j)
          => \A i, j \in 1..Len(s) : s[i] = s[j] => i = j

LEMMA SiftStep ==
  ASSUME NEW gets \in Seq(Gets), NEW keep, NEW k \in 1..Len(gets), NEW s,
         Sifted(s, gets, keep, k - 1)
  PROVE  Sifted(IF gets[k] \in keep THEN Append(s, gets[k]) ELSE s, gets, keep, k)
<1>0. (\A j \in 1..(k - 1) : j \in 1..k) /\ (\A j \in 1..k : j = k \/ j \in 1..(k - 1))
  OBVIOUS
<1>1. CASE gets[k] \notin keep
  <2>1. Sifted(s, gets, keep, k)
    BY <1>0, <1>1 DEF Sifted
  <2> QED  BY <1>1, <2>1
<1>2. CASE gets[k] \in keep
  <2> DEFINE t == Append(s, gets[k])
  <2>1. /\ s \in Seq(Gets) /\ gets[k] \in Gets /\ Len(s) \in Nat
        /\ t \in Seq(Gets) /\ Len(t) = Len(s) + 1
        /\ t[Len(s) + 1] = gets[k] /\ \A i \in 1..Len(s) : t[i] = s[i]
    BY AppendProperties DEF Sifted
  <2> HIDE DEF t
  <2>2. \A i \in 1..Len(t) : i \in 1..Len(s) \/ i = Len(s) + 1
    BY <2>1
  <2>3. ASSUME NEW i \in 1..Len(t)
        PROVE  t[i] \in keep /\ \E j \in 1..k : t[i] = gets[j]
    BY <1>0, <1>2, <2>1, <2>2 DEF Sifted
  <2>4. ASSUME \A i, j \in 1..Len(gets) : gets[i] = gets[j] => i = j,
               NEW i \in 1..Len(t), NEW j \in 1..Len(t), t[i] = t[j]
        PROVE  i = j
    <3>1. \A l \in 1..Len(s) : s[l] # gets[k]
      BY <2>4 DEF Sifted
    <3> QED  BY <2>1, <2>2, <2>4, <3>1 DEF Sifted
  <2>6. ASSUME NEW j \in 1..k, gets[j] \in keep
        PROVE  \E i \in 1..Len(t) : t[i] = gets[j]
    <3>1. CASE j = k
      <4>1. Len(s) + 1 \in 1..Len(t)
        BY <2>1
      <4> QED  BY <2>1, <3>1, <4>1
    <3>2. CASE j # k
      <4>1. PICK i \in 1..Len(s) : s[i] = gets[j]
        BY <1>0, <2>6, <3>2 DEF Sifted
      <4>2. i \in 1..Len(t) /\ t[i] = s[i]
        BY <2>1
      <4> QED  BY <4>1, <4>2
    <3> QED  BY <3>1, <3>2
  <2>5. Sifted(t, gets, keep, k)
    BY <2>1, <2>3, <2>4, <2>6 DEF Sifted
  <2> QED  BY <1>2, <2>5 DEF t
<1> QED  BY <1>1, <1>2
LEMMA ThoseAre ==
  ASSUME NEW gets \in Seq(Gets), NEW keep
  PROVE  Sifted(Those(gets, keep), gets, keep, Len(gets))
<1> DEFINE n == Len(gets)
           b == <<>>
           f == [p \in Seq(Gets) \X (1..n) |->
                    IF gets[p[2]] \in keep THEN Append(p[1], gets[p[2]]) ELSE p[1]]
           Eq(G) == G = [s \in SUBSET DOMAIN gets |->
                           IF s = {} THEN b
                           ELSE IF gets[Max(s)] \in keep
                                THEN Append(G[s \ {Max(s)}], gets[Max(s)])
                                ELSE G[s \ {Max(s)}]]
           Fold == CHOOSE G : Eq(G)
<1>1. n \in Nat /\ DOMAIN gets = 1..n /\ \A i \in 1..n : gets[i] \in Gets
  OBVIOUS
<1>2. b \in Seq(Gets) /\ Len(b) = 0
  BY EmptySeq
<1>3. f \in [Seq(Gets) \X (1..n) -> Seq(Gets)]
  BY <1>1, AppendProperties
<1>4. PICK F \in [SUBSET (1..n) -> Seq(Gets)] : IsFold(F, b, f, n)
  <2> HIDE DEF f, b, n
  <2> QED  BY <1>1, <1>2, <1>3, FoldExists
<1>5. Eq(F)
  <2>1. ASSUME NEW s \in SUBSET (1..n), s # {}
        PROVE  f[<<F[s \ {Max(s)}], Max(s)>>] =
                  IF gets[Max(s)] \in keep
                  THEN Append(F[s \ {Max(s)}], gets[Max(s)]) ELSE F[s \ {Max(s)}]
    <3>1. Max(s) \in 1..n
      BY <1>1, <2>1, MaxIsIn
    <3>2. F[s \ {Max(s)}] \in Seq(Gets)
      BY <1>4
    <3> QED  BY <3>1, <3>2
  <2> HIDE DEF f, b, n
  <2> QED  BY <1>1, <1>4, <2>1 DEF IsFold
<1>6. Eq(Fold)
  <2> HIDE DEF Eq
  <2> QED  BY <1>5
<1>7. Those(gets, keep) = Fold[1..n]
  <2>1. Those(gets, keep) = Fold[DOMAIN gets]
    <3>1. Those(gets, keep) = Sift(gets, keep)
      BY DEF Those
    <3> QED  BY <3>1 DEF Sift, FoldLeft, MapThenFoldSet
  <2> HIDE DEF Fold, n
  <2> QED  BY <1>1, <2>1
<1>8. Fold[1..0] = b
  <2>1. 1..0 = {}
    OBVIOUS
  <2> HIDE DEF Fold, b, n
  <2> QED  BY <1>1, <1>6, <2>1
<1>9. \A i \in 1..n : Fold[1..i] = IF gets[i] \in keep THEN Append(Fold[1..(i - 1)], gets[i])
                                   ELSE Fold[1..(i - 1)]
  <2> SUFFICES ASSUME NEW i \in 1..n
               PROVE  Fold[1..i] = IF gets[i] \in keep THEN Append(Fold[1..(i - 1)], gets[i])
                                   ELSE Fold[1..(i - 1)]
    OBVIOUS
  <2>1. /\ 1..i \in SUBSET (1..n) /\ 1..i # {}
        /\ Max(1..i) = i /\ (1..i) \ {i} = 1..(i - 1)
    BY <1>1, PrefixOf
  <2> HIDE DEF Fold, b, n
  <2> QED  BY <1>1, <1>6, <2>1
<1> DEFINE X == [i \in 0..n |-> {s \in Seq(Gets) : Sifted(s, gets, keep, i)}]
<1>10. Fold[1..0] \in X[0]
  <2> HIDE DEF Fold
  <2> QED  BY <1>1, <1>2, <1>8 DEF Sifted
<1>11. ASSUME NEW i \in 1..n, Fold[1..(i - 1)] \in X[i - 1]
       PROVE  Fold[1..i] \in X[i]
  <2> HIDE DEF Fold
  <2>1. i - 1 \in 0..n /\ i \in 0..n
    BY <1>1
  <2>2. Sifted(Fold[1..(i - 1)], gets, keep, i - 1)
    BY <1>11, <2>1
  <2>3. Sifted(Fold[1..i], gets, keep, i)
    BY <1>9, <2>2, SiftStep
  <2>4. Fold[1..i] \in Seq(Gets)
    BY <2>3 DEF Sifted
  <2> QED  BY <2>1, <2>3, <2>4
<1>12. Fold[1..n] \in X[n]
  <2> HIDE DEF Fold, X, n
  <2> QED  BY <1>1, <1>10, <1>11, FoldStays
<1>13. Sifted(Fold[1..n], gets, keep, n)
  <2> HIDE DEF Fold
  <2> QED  BY <1>1, <1>12
<1> HIDE DEF Fold
<1> QED  BY <1>7, <1>13

\* The elements of a finite set in some order.
LEMMA SetToSeqOf ==
  ASSUME NEW S \in SUBSET Queries
  PROVE  /\ SetToSeq(S) \in Seq(S)
         /\ \A i \in 1..Len(SetToSeq(S)) : SetToSeq(S)[i] \in S
<1>1. IsFiniteSet(S)
  BY FS_Subset, GetsAssumption
<1> DEFINE n == Cardinality(S)
<1>2. n \in Nat /\ ExistsBijection(1..n, S)
  BY <1>1, FS_CardinalityType
<1>3. PICK h \in [1..n -> S] : IsInjective(h)
  BY <1>2 DEF ExistsBijection, Bijection, Injection, IsInjective
<1>4. SetToSeq(S) \in [1..n -> S]
  BY <1>3 DEF SetToSeq
<1> HIDE DEF n
<1>5. SetToSeq(S) \in Seq(S)
  BY <1>2, <1>4, SeqDef
<1> QED  BY <1>5
-----------------------------------------------------------------------------
(* Events for the gets: of what a record of the client holds they change    *)
(* the views, which may cease to be current, and the user executor's queue.  *)

MainType == [g : Gets, what : {"server", "cache", "error"}]

Listening(x, g) == \E q \in Queries : \E i \in 1..Len(x.listeners[q]) : x.listeners[q][i] = g

\* New events are for gets that listen, and no errors.
MainGrows(x, y) ==
    /\ Len(x.main) <= Len(y.main)
    /\ \A i \in 1..Len(x.main) : y.main[i] = x.main[i]
    /\ \A i \in (Len(x.main) + 1)..Len(y.main) :
          y.main[i].what # "error" /\ Listening(x, y.main[i].g)

Same(x, y) ==
    /\ y.enabled = x.enabled /\ y.stream = x.stream
    /\ y.replies = x.replies /\ y.served = x.served /\ y.target = x.target
    /\ y.listens = x.listens /\ y.listeners = x.listeners

Tells(x, y) ==
    /\ y \in ClientType /\ Same(x, y) /\ MainGrows(x, y)
    /\ \A q \in Queries : y.view[q] \in {0, x.view[q]}

LEMMA Fields ==
  ASSUME NEW x \in ClientType
  PROVE  /\ x.enabled \in BOOLEAN /\ x.stream \in StreamType
         /\ x.replies \in Seq([kind : {"added", "removed", "rejected", "current", "change", "snapshot"},
                               q : Queries, listen : Nat])
         /\ x.served \in [Queries -> [listen : Nat, current : BOOLEAN]]
         /\ x.target \in [Queries -> [out : Int, current : Nat, dirty : BOOLEAN]]
         /\ x.online \in OnlineStates /\ x.failed \in BOOLEAN /\ x.timer \in BOOLEAN
         /\ x.listens \in [Queries -> Nat] /\ x.listeners \in [Queries -> Seq(Gets)]
         /\ x.view \in [Queries -> Nat] /\ x.raised \in SUBSET Gets
         /\ x.main \in Seq(MainType) /\ Len(x.main) \in Nat
         /\ \A q \in Queries : /\ x.listeners[q] \in Seq(Gets) /\ Len(x.listeners[q]) \in Nat
                               /\ \A i \in 1..Len(x.listeners[q]) : x.listeners[q][i] \in Gets
<1>1. x.listeners \in [Queries -> Seq(Gets)] /\ x.main \in Seq(MainType)
  BY DEF ClientType, MainType
<1>2. Len(x.main) \in Nat
  BY <1>1, LenProperties
<1>3. \A q \in Queries : /\ x.listeners[q] \in Seq(Gets) /\ Len(x.listeners[q]) \in Nat
                         /\ \A i \in 1..Len(x.listeners[q]) : x.listeners[q][i] \in Gets
  BY <1>1
<1> QED  BY <1>1, <1>2, <1>3 DEF ClientType

LEMMA TellsNothing ==
  ASSUME NEW x \in ClientType
  PROVE  Tells(x, x)
<1>1. Len(x.main) \in Nat
  BY Fields
<1> QED  BY <1>1 DEF Tells, Same, MainGrows

LEMMA TellsOn ==
  ASSUME NEW x \in ClientType, NEW y, NEW z, Tells(x, y), Tells(y, z)
  PROVE  Tells(x, z)
<1>1. Same(x, z) /\ y \in ClientType /\ z \in ClientType
  BY DEF Tells, Same
<1>2. Len(x.main) \in Nat /\ Len(y.main) \in Nat /\ Len(z.main) \in Nat
  BY <1>1, Fields
<1>3. \A g : Listening(y, g) => Listening(x, g)
  BY DEF Tells, Same, Listening
<1>4. MainGrows(x, z)
  <2>1. ASSUME NEW i \in (Len(x.main) + 1)..Len(z.main)
        PROVE  z.main[i].what # "error" /\ Listening(x, z.main[i].g)
    <3>1. CASE i \in (Len(x.main) + 1)..Len(y.main)
      BY <1>2, <3>1 DEF Tells, MainGrows
    <3>2. CASE i \in (Len(y.main) + 1)..Len(z.main)
      BY <1>3, <3>2 DEF Tells, MainGrows
    <3> QED  BY <1>2, <3>1, <3>2
  <2> QED  BY <1>2, <2>1 DEF Tells, MainGrows
<1> QED  BY <1>1, <1>4 DEF Tells

\* Events put on the user executor, one for each get of a list.
LEMMA TellIs ==
  ASSUME NEW x \in ClientType, NEW gets \in Seq(Gets), NEW what \in {"server", "cache", "error"}
  PROVE  LET m == Tell(x, gets, what).main IN
         /\ Tell(x, gets, what) = [x EXCEPT !.main = m]
         /\ m \in Seq(MainType) /\ Len(m) = Len(x.main) + Len(gets) /\ Len(gets) \in Nat
         /\ \A i \in 1..Len(x.main) : m[i] = x.main[i]
         /\ \A i \in 1..Len(gets) : m[Len(x.main) + i] = [g |-> gets[i], what |-> what]
<1> DEFINE m == Tell(x, gets, what).main
           t == [i \in DOMAIN gets |-> [g |-> gets[i], what |-> what]]
<1>1. x.main \in Seq(MainType) /\ Len(x.main) \in Nat /\ Len(gets) \in Nat
  BY Fields
<1>2. /\ t \in Seq(MainType) /\ Len(t) = Len(gets)
      /\ \A i \in 1..Len(gets) : t[i] = [g |-> gets[i], what |-> what]
  <2>1. DOMAIN gets = 1..Len(gets) /\ \A i \in 1..Len(gets) : gets[i] \in Gets
    BY <1>1
  <2>2. t \in [1..Len(gets) -> MainType]
    BY <2>1 DEF MainType
  <2>3. t \in Seq(MainType) /\ Len(t) = Len(gets)
    <3> HIDE DEF t
    <3> QED  BY <1>1, <2>2, SeqDef
  <2> QED  BY <2>1, <2>3
<1>3. m = x.main \o t /\ Tell(x, gets, what) = [x EXCEPT !.main = m]
  BY DEF Tell, ClientType
<1> HIDE DEF t
<1>4. /\ x.main \o t \in Seq(MainType) /\ Len(x.main \o t) = Len(x.main) + Len(t)
      /\ \A i \in 1..(Len(x.main) + Len(t)) :
            (x.main \o t)[i] = IF i <= Len(x.main) THEN x.main[i] ELSE t[i - Len(x.main)]
  <2> DEFINE a == x.main
  <2>1. a \in Seq(MainType) /\ t \in Seq(MainType)
    BY <1>1, <1>2
  <2> HIDE DEF a
  <2>2. /\ a \o t \in Seq(MainType) /\ Len(a \o t) = Len(a) + Len(t)
        /\ \A i \in 1..(Len(a) + Len(t)) :
              (a \o t)[i] = IF i <= Len(a) THEN a[i] ELSE t[i - Len(a)]
    BY <2>1, ConcatProperties
  <2> QED  BY <2>2 DEF a
<1>5. ASSUME NEW i \in 1..Len(gets) PROVE m[Len(x.main) + i] = [g |-> gets[i], what |-> what]
  <2>1. Len(x.main) + i \in 1..(Len(x.main) + Len(t)) /\ ~(Len(x.main) + i <= Len(x.main))
        /\ (Len(x.main) + i) - Len(x.main) = i
    BY <1>1, <1>2
  <2> QED  BY <1>2, <1>3, <1>4, <2>1
<1>6. ASSUME NEW i \in 1..Len(x.main) PROVE m[i] = x.main[i]
  BY <1>1, <1>2, <1>3, <1>4
<1> QED  BY <1>1, <1>2, <1>3, <1>4, <1>5, <1>6

\* A snapshot tells those of the gets it is for who have heard before or need
\* not wait.
LEMMA RaiseTells ==
  ASSUME NEW x \in ClientType, NEW q \in Queries, NEW gets \in Seq(Gets), NEW online,
         \A i \in 1..Len(gets) : Listening(x, gets[i])
  PROVE  /\ Tells(x, Raise(x, q, gets, online))
         /\ Raise(x, q, gets, online).view = x.view
         /\ Raise(x, q, gets, online).online = x.online
         /\ Raise(x, q, gets, online).failed = x.failed
         /\ Raise(x, q, gets, online).timer = x.timer
<1> DEFINE heard == IF ShouldRaiseInitialEvent(x.view[q], online) THEN gets
                    ELSE Those(gets, x.raised)
           what == IF x.view[q] = 0 THEN "cache" ELSE "server"
           m == Tell(x, heard, what).main
           y == Raise(x, q, gets, online)
<1>1. Sifted(Those(gets, x.raised), gets, x.raised, Len(gets))
  BY ThoseAre
<1>2. heard \in Seq(Gets) /\ \A i \in 1..Len(heard) : Listening(x, heard[i])
  <2>1. CASE heard = gets
    BY <2>1
  <2>2. CASE heard = Those(gets, x.raised)
    <3> DEFINE s == Those(gets, x.raised)
    <3>1. s \in Seq(Gets) /\ \A i \in 1..Len(s) : \E j \in 1..Len(gets) : s[i] = gets[j]
      <4> HIDE DEF s
      <4> QED  BY <1>1 DEF s, Sifted
    <3> HIDE DEF s
    <3>2. heard = s
      BY <2>2 DEF s
    <3> HIDE DEF heard
    <3> QED  BY <3>1, <3>2
  <2> QED  BY <2>1, <2>2
<1>3. y = [Tell(x, heard, what) EXCEPT !.raised = @ \union Range(heard)]
  BY DEF Raise
<1> HIDE DEF heard
<1>4. what \in {"server", "cache", "error"} /\ what # "error"
  OBVIOUS
<1> HIDE DEF what, m
<1>5. /\ Tell(x, heard, what) = [x EXCEPT !.main = m]
      /\ m \in Seq(MainType) /\ Len(m) = Len(x.main) + Len(heard) /\ Len(heard) \in Nat
      /\ \A i \in 1..Len(x.main) : m[i] = x.main[i]
      /\ \A i \in 1..Len(heard) : m[Len(x.main) + i] = [g |-> heard[i], what |-> what]
  BY <1>2, <1>4, TellIs DEF m
<1>6. Range(heard) \in SUBSET Gets
  BY <1>2 DEF Range
<1> HIDE DEF y
<1>7. y = [x EXCEPT !.main = m, !.raised = x.raised \union Range(heard)]
  BY <1>3, <1>5 DEF ClientType
<1>8. /\ y \in ClientType /\ Same(x, y) /\ y.main = m /\ y.view = x.view
      /\ y.online = x.online /\ y.failed = x.failed /\ y.timer = x.timer
  BY <1>5, <1>6, <1>7 DEF ClientType, Same, MainType
<1>9. MainGrows(x, y)
  <2>1. Len(x.main) \in Nat
    BY Fields
  <2>2. ASSUME NEW i \in (Len(x.main) + 1)..Len(m)
        PROVE  m[i].what # "error" /\ Listening(x, m[i].g)
    <3>1. i - Len(x.main) \in 1..Len(heard) /\ Len(x.main) + (i - Len(x.main)) = i
      BY <1>5, <2>1
    <3>2. m[i] = [g |-> heard[i - Len(x.main)], what |-> what]
      BY <1>5, <3>1
    <3> QED  BY <1>2, <1>4, <3>1, <3>2
  <2> QED  BY <1>5, <1>8, <2>1, <2>2 DEF MainGrows
<1> QED  BY <1>8, <1>9 DEF Tells, y
\* One view ceases to be current and says so.
LEMMA LapseStep ==
  ASSUME NEW y \in ClientType, NEW q \in Queries, NEW was
  PROVE  LET z == Raise([y EXCEPT !.view[q] = 0], q, y.listeners[q], was) IN
         /\ Tells(y, z) /\ z.online = y.online /\ z.failed = y.failed /\ z.timer = y.timer
<1> DEFINE x == [y EXCEPT !.view[q] = 0]
           z == Raise(x, q, y.listeners[q], was)
<1>1. y.view \in [Queries -> Nat] /\ y.listeners[q] \in Seq(Gets)
  BY Fields
<1>2. /\ x \in ClientType /\ Same(y, x) /\ x.main = y.main
      /\ x.online = y.online /\ x.failed = y.failed /\ x.timer = y.timer
      /\ \A p \in Queries : x.view[p] \in {0, y.view[p]}
  BY <1>1 DEF ClientType, Same
<1>3. \A i \in 1..Len(y.listeners[q]) : Listening(x, y.listeners[q][i])
  BY <1>2 DEF Listening, Same
<1>4. Tells(y, x)
  <2>1. Len(y.main) \in Nat
    BY Fields
  <2> QED  BY <1>2, <2>1 DEF Tells, MainGrows
<1> HIDE DEF x
<1>5. /\ Tells(x, z) /\ z.online = x.online /\ z.failed = x.failed /\ z.timer = x.timer
  <2> DEFINE a == y.listeners[q]
  <2>1. a \in Seq(Gets) /\ x \in ClientType /\ \A i \in 1..Len(a) : Listening(x, a[i])
    BY <1>1, <1>2, <1>3
  <2> HIDE DEF a
  <2>2. /\ Tells(x, Raise(x, q, a, was)) /\ Raise(x, q, a, was).online = x.online
        /\ Raise(x, q, a, was).failed = x.failed /\ Raise(x, q, a, was).timer = x.timer
    BY <2>1, RaiseTells
  <2> QED  BY <2>2 DEF a
<1>6. Tells(y, z)
  <2> HIDE DEF z
  <2> QED  BY <1>4, <1>5, TellsOn
<1> QED  BY <1>2, <1>5, <1>6 DEF x

LEMMA LapseTells ==
  ASSUME NEW x \in ClientType, NEW online, NEW was
  PROVE  LET y == Lapse(x, online, was) IN
         /\ Tells(x, y) /\ y.online = x.online /\ y.failed = x.failed /\ y.timer = x.timer
<1> DEFINE X == {y \in ClientType : /\ Tells(x, y) /\ y.online = x.online
                                    /\ y.failed = x.failed /\ y.timer = x.timer}
           Op(y, q) == IF online # "Offline" \/ y.view[q] = 0 THEN y
                       ELSE Raise([y EXCEPT !.view[q] = 0], q, y.listeners[q], was)
<1>1. Targets(x) \in SUBSET Queries
  BY DEF Targets
<1>2. x \in X
  BY TellsNothing
<1>3. ASSUME NEW y \in X, NEW q \in Targets(x)
      PROVE  Op(y, q) \in X
  <2> DEFINE z == Raise([y EXCEPT !.view[q] = 0], q, y.listeners[q], was)
  <2>1. y \in ClientType /\ Tells(x, y) /\ q \in Queries
    BY <1>1
  <2>2. Tells(y, z) /\ z.online = y.online /\ z.failed = y.failed /\ z.timer = y.timer
    BY <2>1, LapseStep
  <2> HIDE DEF z
  <2>3. Tells(x, z) /\ z \in ClientType
    BY <2>1, <2>2, TellsOn DEF Tells
  <2> QED  BY <2>2, <2>3 DEF z
<1> HIDE DEF Op
<1> DEFINE s == SetToSeq(Targets(x))
           n == Len(s)
           f == [p \in X \X (1..n) |-> Op(p[1], s[p[2]])]
           Eq(G) == G = [t \in SUBSET DOMAIN s |->
                           IF t = {} THEN x
                           ELSE Op(G[t \ {Max(t)}], s[Max(t)])]
           Fold == CHOOSE G : Eq(G)
<1>4. n \in Nat /\ DOMAIN s = 1..n /\ \A i \in 1..n : s[i] \in Targets(x)
  <2>1. s \in Seq(Targets(x)) /\ \A i \in 1..n : s[i] \in Targets(x)
    BY <1>1, SetToSeqOf
  <2> HIDE DEF s
  <2> QED  BY <2>1
<1> HIDE DEF s
<1>5. f \in [X \X (1..n) -> X]
  <2> HIDE DEF X, n
  <2> QED  BY <1>4, <1>3
<1>6. PICK F \in [SUBSET (1..n) -> X] : IsFold(F, x, f, n)
  <2> HIDE DEF f, n, X
  <2> QED  BY <1>2, <1>4, <1>5, FoldExists
<1>7. Eq(F)
  <2>1. ASSUME NEW t \in SUBSET (1..n), t # {}
        PROVE  f[<<F[t \ {Max(t)}], Max(t)>>] = Op(F[t \ {Max(t)}], s[Max(t)])
    <3>1. Max(t) \in 1..n
      BY <1>4, <2>1, MaxIsIn
    <3>2. F[t \ {Max(t)}] \in X
      <4> HIDE DEF X
      <4> QED  BY <1>6
    <3> HIDE DEF X
    <3> QED  BY <3>1, <3>2
  <2> HIDE DEF f, n, X
  <2> QED  BY <1>4, <1>6, <2>1 DEF IsFold
<1>8. Eq(Fold)
  <2> HIDE DEF Eq
  <2> QED  BY <1>7
<1>9. Lapse(x, online, was) = Fold[1..n]
  <2>1. Lapse(x, online, was) = Fold[DOMAIN s]
    BY DEF Lapse, FoldLeft, MapThenFoldSet, s, Op
  <2> HIDE DEF Fold, n
  <2> QED  BY <1>4, <2>1
<1>10. Fold[1..0] = x
  <2>1. 1..0 = {}
    OBVIOUS
  <2> HIDE DEF Fold, n
  <2> QED  BY <1>4, <1>8, <2>1
<1>11. ASSUME NEW i \in 1..n, Fold[1..(i - 1)] \in X
      PROVE  Fold[1..i] \in X
  <2>1. /\ 1..i \in SUBSET (1..n) /\ 1..i # {}
        /\ Max(1..i) = i /\ (1..i) \ {i} = 1..(i - 1)
    BY <1>4, PrefixOf
  <2>2. Fold[1..i] = Op(Fold[1..(i - 1)], s[i])
    <3> HIDE DEF Fold, n
    <3> QED  BY <1>4, <1>8, <2>1
  <2> HIDE DEF Fold, X, n
  <2> QED  BY <1>4, <1>11, <1>3, <2>2
<1>12. Fold[1..n] \in X
  <2> DEFINE Y == [i \in 0..n |-> X]
  <2>1. 0 \in 0..n /\ n \in 0..n /\ \A i \in 1..n : i \in 0..n /\ i - 1 \in 0..n
    BY <1>4
  <2>2. Fold[1..0] \in Y[0]
    <3> HIDE DEF Fold, X, n
    <3> QED  BY <1>2, <1>10, <2>1
  <2>3. \A i \in 1..n : Fold[1..(i - 1)] \in Y[i - 1] => Fold[1..i] \in Y[i]
    <3> HIDE DEF Fold, X, n
    <3> QED  BY <1>11, <2>1
  <2>4. Fold[1..n] \in Y[n]
    <3> HIDE DEF Fold, Y, n
    <3> QED  BY <1>4, <2>2, <2>3, FoldStays
  <2> HIDE DEF Fold, X, n
  <2> QED  BY <2>1, <2>4
<1> HIDE DEF Fold
<1> QED  BY <1>9, <1>12

LEMMA LookAgainTells ==
  ASSUME NEW x \in ClientType, NEW online
  PROVE  LET y == LookAgain(x, online) IN
         /\ Tells(x, y) /\ y.online = x.online /\ y.failed = x.failed /\ y.timer = x.timer
<1> DEFINE X == {y \in ClientType : /\ Tells(x, y) /\ y.online = x.online
                                    /\ y.failed = x.failed /\ y.timer = x.timer}
           Op(y, q) == Raise(y, q, Waiting(y, q), online)
<1>1. Targets(x) \in SUBSET Queries
  BY DEF Targets
<1>2. x \in X
  BY TellsNothing
<1>3. ASSUME NEW y \in X, NEW q \in Targets(x)
      PROVE  Op(y, q) \in X
  <2> DEFINE z == Raise(y, q, Waiting(y, q), online)
             w == Waiting(y, q)
             a == y.listeners[q]
  <2>1. y \in ClientType /\ Tells(x, y) /\ q \in Queries
    BY <1>1
  <2>2. a \in Seq(Gets)
    BY <2>1, Fields
  <2>3. Sifted(w, a, Gets \ y.raised, Len(a))
    BY <2>2, ThoseAre DEF Waiting
  <2> HIDE DEF w
  <2>4. w \in Seq(Gets) /\ \A i \in 1..Len(w) : Listening(y, w[i])
    BY <2>1, <2>3 DEF Sifted, Listening
  <2>5. Tells(y, z) /\ z.online = y.online /\ z.failed = y.failed /\ z.timer = y.timer
    BY <2>1, <2>4, RaiseTells DEF w
  <2> HIDE DEF z
  <2>6. Tells(x, z) /\ z \in ClientType
    BY <2>1, <2>5, TellsOn DEF Tells
  <2> QED  BY <2>5, <2>6 DEF z
<1> HIDE DEF Op
<1> DEFINE s == SetToSeq(Targets(x))
           n == Len(s)
           f == [p \in X \X (1..n) |-> Op(p[1], s[p[2]])]
           Eq(G) == G = [t \in SUBSET DOMAIN s |->
                           IF t = {} THEN x
                           ELSE Op(G[t \ {Max(t)}], s[Max(t)])]
           Fold == CHOOSE G : Eq(G)
<1>4. n \in Nat /\ DOMAIN s = 1..n /\ \A i \in 1..n : s[i] \in Targets(x)
  <2>1. s \in Seq(Targets(x)) /\ \A i \in 1..n : s[i] \in Targets(x)
    BY <1>1, SetToSeqOf
  <2> HIDE DEF s
  <2> QED  BY <2>1
<1> HIDE DEF s
<1>5. f \in [X \X (1..n) -> X]
  <2> HIDE DEF X, n
  <2> QED  BY <1>4, <1>3
<1>6. PICK F \in [SUBSET (1..n) -> X] : IsFold(F, x, f, n)
  <2> HIDE DEF f, n, X
  <2> QED  BY <1>2, <1>4, <1>5, FoldExists
<1>7. Eq(F)
  <2>1. ASSUME NEW t \in SUBSET (1..n), t # {}
        PROVE  f[<<F[t \ {Max(t)}], Max(t)>>] = Op(F[t \ {Max(t)}], s[Max(t)])
    <3>1. Max(t) \in 1..n
      BY <1>4, <2>1, MaxIsIn
    <3>2. F[t \ {Max(t)}] \in X
      <4> HIDE DEF X
      <4> QED  BY <1>6
    <3> HIDE DEF X
    <3> QED  BY <3>1, <3>2
  <2> HIDE DEF f, n, X
  <2> QED  BY <1>4, <1>6, <2>1 DEF IsFold
<1>8. Eq(Fold)
  <2> HIDE DEF Eq
  <2> QED  BY <1>7
<1>9. LookAgain(x, online) = Fold[1..n]
  <2>1. LookAgain(x, online) = Fold[DOMAIN s]
    BY DEF LookAgain, FoldLeft, MapThenFoldSet, s, Op
  <2> HIDE DEF Fold, n
  <2> QED  BY <1>4, <2>1
<1>10. Fold[1..0] = x
  <2>1. 1..0 = {}
    OBVIOUS
  <2> HIDE DEF Fold, n
  <2> QED  BY <1>4, <1>8, <2>1
<1>11. ASSUME NEW i \in 1..n, Fold[1..(i - 1)] \in X
      PROVE  Fold[1..i] \in X
  <2>1. /\ 1..i \in SUBSET (1..n) /\ 1..i # {}
        /\ Max(1..i) = i /\ (1..i) \ {i} = 1..(i - 1)
    BY <1>4, PrefixOf
  <2>2. Fold[1..i] = Op(Fold[1..(i - 1)], s[i])
    <3> HIDE DEF Fold, n
    <3> QED  BY <1>4, <1>8, <2>1
  <2> HIDE DEF Fold, X, n
  <2> QED  BY <1>4, <1>11, <1>3, <2>2
<1>12. Fold[1..n] \in X
  <2> DEFINE Y == [i \in 0..n |-> X]
  <2>1. 0 \in 0..n /\ n \in 0..n /\ \A i \in 1..n : i \in 0..n /\ i - 1 \in 0..n
    BY <1>4
  <2>2. Fold[1..0] \in Y[0]
    <3> HIDE DEF Fold, X, n
    <3> QED  BY <1>2, <1>10, <2>1
  <2>3. \A i \in 1..n : Fold[1..(i - 1)] \in Y[i - 1] => Fold[1..i] \in Y[i]
    <3> HIDE DEF Fold, X, n
    <3> QED  BY <1>11, <2>1
  <2>4. Fold[1..n] \in Y[n]
    <3> HIDE DEF Fold, Y, n
    <3> QED  BY <1>4, <2>2, <2>3, FoldStays
  <2> HIDE DEF Fold, X, n
  <2> QED  BY <2>1, <2>4
<1> HIDE DEF Fold
<1> QED  BY <1>9, <1>12

\* A change of online state is told to every view, and then to the gets that
\* still wait.
LEMMA Broadcast ==
  ASSUME NEW x \in ClientType, NEW online \in OnlineStates
  PROVE  LET y == SetAndBroadcast(x, online) IN
         /\ Tells(x, y) /\ y.online = online /\ y.failed = x.failed /\ y.timer = x.timer
<1>1. CASE online = x.online
  BY <1>1, TellsNothing DEF SetAndBroadcast
<1>2. CASE online # x.online
  <2> DEFINE w == [x EXCEPT !.online = online]
             y == Lapse(w, online, x.online)
             z == LookAgain(y, online)
  <2>1. /\ w \in ClientType /\ Same(x, w) /\ w.main = x.main /\ w.view = x.view
        /\ w.online = online /\ w.failed = x.failed /\ w.timer = x.timer
    BY DEF ClientType, Same
  <2>2. Tells(x, w)
    <3>1. Len(x.main) \in Nat
      BY Fields
    <3> QED  BY <2>1, <3>1 DEF Tells, MainGrows
  <2> HIDE DEF w
  <2>3. Tells(w, y) /\ y.online = online /\ y.failed = x.failed /\ y.timer = x.timer
    BY <2>1, LapseTells
  <2> HIDE DEF y
  <2>4. Tells(x, y) /\ y \in ClientType
    BY <2>2, <2>3, TellsOn DEF Tells
  <2>5. Tells(y, z) /\ z.online = online /\ z.failed = x.failed /\ z.timer = x.timer
    BY <2>3, <2>4, LookAgainTells
  <2>6. SetAndBroadcast(x, online) = z
    BY <1>2 DEF SetAndBroadcast, y, w
  <2> HIDE DEF z
  <2>7. Tells(x, z)
    BY <2>4, <2>5, TellsOn
  <2> QED  BY <2>5, <2>6, <2>7
<1> QED  BY <1>1, <1>2
-----------------------------------------------------------------------------
(* The watch stream and a target.  What is under way on the stream, s, is    *)
(* taken apart at the answers to the query's requests: what comes before an   *)
(* answer may be of an earlier listen, what comes after the last is not.     *)

Kinds == {"added", "removed", "rejected", "current", "change", "snapshot"}

ReplyType == [kind : Kinds, q : Queries, listen : Nat]

TargetType == [out : Int, current : Nat, dirty : BOOLEAN]

ServedType == [listen : Nat, current : BOOLEAN]

AnswersOf(s, q) == {i \in 1..Len(s) : s[i].q = q /\ s[i].kind \in {"added", "removed"}}

\* Message i says so of q's latest listen.
Says(s, q, i, kind) == s[i].q = q /\ s[i].kind = kind /\ \A j \in AnswersOf(s, q) : j <= i

\* The target t is known to be current for listen l.
Knows(t, l) == t.out = 0 /\ t.current = l

\* What is under way for q, its target t and the backend's end v agree on
\* listen l, which is wanted if b.
Agree(s, q, t, v, l, b) ==
    /\ t.out = Cardinality(AnswersOf(s, q))
    /\ \A i \in 1..Len(s) : Says(s, q, i, "current") \/ Says(s, q, i, "change")
                               => s[i].listen = l /\ b
    /\ \A i \in 1..Len(s) : Says(s, q, i, "change")
                               => Knows(t, l) \/ \E j \in 1..(i - 1) : Says(s, q, j, "current")
    /\ v.listen # 0 => v.listen = l /\ b
    /\ v.current => /\ v.listen # 0
                    /\ Knows(t, l) \/ \E j \in 1..Len(s) : Says(s, q, j, "current")
    /\ t.out = 0 /\ t.dirty => b /\ Knows(t, l)

\* The messages of r are those of s and some more of one query and one listen.
More(s, r, kinds, q, l) ==
    /\ r \in Seq(ReplyType) /\ Len(r) = Len(s) + Len(kinds)
    /\ \A i \in 1..Len(s) : r[i] = s[i]
    /\ \A i \in 1..Len(kinds) : r[Len(s) + i] = [kind |-> kinds[i], q |-> q, listen |-> l]

LEMMA AnswersFinite ==
  ASSUME NEW s \in Seq(ReplyType), NEW q
  PROVE  /\ Len(s) \in Nat /\ IsFiniteSet(AnswersOf(s, q)) /\ AnswersOf(s, q) \in SUBSET (1..Len(s))
         /\ Cardinality(AnswersOf(s, q)) \in Nat
         /\ Cardinality(AnswersOf(s, q)) = 0 <=> AnswersOf(s, q) = {}
<1>1. Len(s) \in Nat /\ AnswersOf(s, q) \in SUBSET (1..Len(s))
  BY LenProperties DEF AnswersOf
<1>2. IsFiniteSet(AnswersOf(s, q))
  <2> DEFINE n == Len(s)
             A == AnswersOf(s, q)
  <2>1. n \in Nat /\ A \in SUBSET (1..n)
    BY <1>1
  <2> HIDE DEF n, A
  <2>2. IsFiniteSet(1..n)
    BY <2>1, FS_Interval
  <2>3. IsFiniteSet(A)
    BY <2>1, <2>2, FS_Subset
  <2> QED  BY <2>3 DEF A
<1> QED  BY <1>1, <1>2, FS_CardinalityType, FS_EmptySet

\* Messages of another query change nothing for this one.
LEMMA MoreOther ==
  ASSUME NEW s \in Seq(ReplyType), NEW r, NEW kinds \in Seq(Kinds), NEW p, NEW k,
         More(s, r, kinds, p, k), NEW q, p # q,
         NEW t, NEW v, NEW l, NEW b, Agree(s, q, t, v, l, b)
  PROVE  Agree(r, q, t, v, l, b)
<1>1. Len(s) \in Nat /\ Len(kinds) \in Nat /\ Len(r) = Len(s) + Len(kinds)
  BY LenProperties DEF More
<1>2. ASSUME NEW i \in 1..Len(r), i \notin 1..Len(s)
      PROVE  r[i].q # q
  <2>1. i - Len(s) \in 1..Len(kinds) /\ Len(s) + (i - Len(s)) = i
    BY <1>1, <1>2
  <2>2. r[i] = [kind |-> kinds[i - Len(s)], q |-> p, listen |-> k]
    BY <2>1 DEF More
  <2> QED  BY <2>2
<1>3. \A i \in 1..Len(s) : i \in 1..Len(r) /\ r[i] = s[i]
  BY <1>1 DEF More
<1>4. AnswersOf(r, q) = AnswersOf(s, q)
  BY <1>2, <1>3 DEF AnswersOf
<1>5. \A i \in 1..Len(s) : \A kind : Says(r, q, i, kind) <=> Says(s, q, i, kind)
  BY <1>3, <1>4 DEF Says
<1>6. \A i \in 1..Len(r) : \A kind : Says(r, q, i, kind) => i \in 1..Len(s)
  BY <1>2 DEF Says
<1>7. \A i \in 1..Len(s) : \A j \in 1..(i - 1) : j \in 1..Len(s)
  BY <1>1
<1> QED
  <2>1. \A i \in 1..Len(r) : Says(r, q, i, "current") \/ Says(r, q, i, "change")
                               => r[i].listen = l /\ b
    BY <1>3, <1>5, <1>6 DEF Agree
  <2>2. \A i \in 1..Len(r) : Says(r, q, i, "change")
                               => Knows(t, l) \/ \E j \in 1..(i - 1) : Says(r, q, j, "current")
    BY <1>5, <1>6, <1>7 DEF Agree
  <2>3. v.current => /\ v.listen # 0
                     /\ Knows(t, l) \/ \E j \in 1..Len(r) : Says(r, q, j, "current")
    BY <1>3, <1>5 DEF Agree
  <2> QED  BY <1>4, <2>1, <2>2, <2>3 DEF Agree

\* A request answered: whatever was under way is of an earlier listen now.
LEMMA MoreAnswer ==
  ASSUME NEW s \in Seq(ReplyType), NEW r, NEW a \in {"added", "removed"}, NEW q, NEW k,
         More(s, r, <<a>>, q, k),
         NEW t \in TargetType, t.out = Cardinality(AnswersOf(s, q)),
         NEW v, NEW l, NEW b, ~v.current, v.listen # 0 => v.listen = l /\ b
  PROVE  Agree(r, q, [t EXCEPT !.out = @ + 1], v, l, b)
<1> DEFINE n == Len(s) + 1
           u == [t EXCEPT !.out = @ + 1]
<1>1. Len(s) \in Nat /\ Len(r) = n /\ Len(<<a>>) = 1
  BY LenProperties DEF More
<1>2. r[n] = [kind |-> a, q |-> q, listen |-> k]
  BY <1>1 DEF More
<1>3. \A i \in 1..Len(s) : r[i] = s[i]
  BY DEF More
<1>4. AnswersOf(r, q) = AnswersOf(s, q) \union {n} /\ n \notin AnswersOf(s, q)
  BY <1>1, <1>2, <1>3 DEF AnswersOf
<1>5. Cardinality(AnswersOf(r, q)) = Cardinality(AnswersOf(s, q)) + 1
      /\ Cardinality(AnswersOf(s, q)) \in Nat
  BY <1>4, AnswersFinite, FS_AddElement
<1>6. u.out = Cardinality(AnswersOf(r, q)) /\ u.out # 0
  BY <1>5 DEF TargetType
<1>7. \A i \in 1..Len(r) : ~Says(r, q, i, "current") /\ ~Says(r, q, i, "change")
  <2>1. \A i \in 1..Len(r) : i = n \/ ~(n <= i)
    BY <1>1
  <2>2. r[n].kind # "current" /\ r[n].kind # "change"
    BY <1>2
  <2> QED  BY <1>4, <2>1, <2>2 DEF Says
<1> HIDE DEF u
<1>8. Agree(r, q, u, v, l, b)
  BY <1>6, <1>7 DEF Agree
<1> QED  BY <1>8 DEF u
\* What the backend says of a listen of its own accord, with the snapshot that
\* makes it an event: that it is current, and later that it has changed.
LEMMA MoreNews ==
  ASSUME NEW s \in Seq(ReplyType), NEW r, NEW a \in {"current", "change"}, NEW q,
         NEW t, NEW v \in ServedType, NEW l, NEW b, Agree(s, q, t, v, l, b),
         More(s, r, <<a, "snapshot">>, q, l), v.listen # 0,
         a = "change" => v.current
  PROVE  Agree(r, q, t, IF a = "current" THEN [v EXCEPT !.current = TRUE] ELSE v, l, b)
<1> DEFINE n == Len(s) + 1
           w == IF a = "current" THEN [v EXCEPT !.current = TRUE] ELSE v
           kinds == <<a, "snapshot">>
<1>1. Len(s) \in Nat /\ Len(r) = n + 1 /\ Len(kinds) = 2 /\ kinds[1] = a /\ kinds[2] = "snapshot"
  BY LenProperties DEF More
<1>2. r[n] = [kind |-> a, q |-> q, listen |-> l] /\ r[n + 1].kind = "snapshot"
  <2>1. \A i \in 1..Len(kinds) : r[Len(s) + i] = [kind |-> kinds[i], q |-> q, listen |-> l]
    BY DEF More
  <2>2. n + 1 = Len(s) + 2 /\ 1 \in 1..2 /\ 2 \in 1..2
    BY <1>1
  <2> HIDE DEF kinds
  <2> QED  BY <1>1, <2>1, <2>2
<1>3. \A i \in 1..Len(s) : i \in 1..Len(r) /\ r[i] = s[i]
  BY <1>1 DEF More
<1>4. \A i \in 1..Len(r) : i \in 1..Len(s) \/ i = n \/ i = n + 1
  BY <1>1
<1>5. AnswersOf(r, q) = AnswersOf(s, q)
  BY <1>2, <1>3, <1>4 DEF AnswersOf
<1>6. \A i \in 1..Len(s) : \A kind : Says(r, q, i, kind) <=> Says(s, q, i, kind)
  BY <1>3, <1>5 DEF Says
<1>7. ASSUME NEW i \in 1..Len(r), Says(r, q, i, "current") \/ Says(r, q, i, "change")
      PROVE  i \in 1..Len(s) \/ i = n
  BY <1>2, <1>4, <1>7 DEF Says
<1>8. Says(r, q, n, a)
  BY <1>1, <1>2, <1>5 DEF Says, AnswersOf
<1>9. v.listen = l /\ b /\ w.listen = v.listen
  BY DEF Agree, ServedType
<1>10. ASSUME NEW i \in 1..Len(r), Says(r, q, i, "change")
       PROVE  Knows(t, l) \/ \E j \in 1..(i - 1) : Says(r, q, j, "current")
  <2>1. CASE i \in 1..Len(s)
    <3>1. \A j \in 1..(i - 1) : j \in 1..Len(s)
      BY <1>1, <2>1
    <3> QED  BY <1>6, <1>10, <2>1, <3>1 DEF Agree
  <2>2. CASE i = n
    <3>1. a = "change"
      BY <1>2, <1>10, <2>2 DEF Says
    <3>2. Knows(t, l) \/ \E j \in 1..Len(s) : Says(s, q, j, "current")
      BY <3>1 DEF Agree
    <3>3. \A j \in 1..Len(s) : j \in 1..(i - 1)
      BY <1>1, <2>2
    <3> QED  BY <1>6, <3>2, <3>3
  <2> QED  BY <1>7, <1>10, <2>1, <2>2
<1>11. w.current => Knows(t, l) \/ \E j \in 1..Len(r) : Says(r, q, j, "current")
  <2>1. CASE a = "current"
    BY <1>1, <1>8, <2>1
  <2>2. CASE a # "current"
    BY <1>3, <1>6, <2>2 DEF Agree
  <2> QED  BY <2>1, <2>2
<1>12. \A i \in 1..Len(r) : Says(r, q, i, "current") \/ Says(r, q, i, "change")
                               => r[i].listen = l /\ b
  BY <1>2, <1>3, <1>6, <1>7, <1>9 DEF Agree
<1> HIDE DEF w, n, kinds
<1>13. Agree(r, q, t, w, l, b)
  <2>1. t.out = Cardinality(AnswersOf(r, q)) /\ (t.out = 0 /\ t.dirty => b /\ Knows(t, l))
    BY <1>5 DEF Agree
  <2> QED  BY <1>9, <1>10, <1>11, <1>12, <2>1 DEF Agree
<1> QED  BY <1>13 DEF w

\* The messages left when the first is taken.
LEMMA TailOf ==
  ASSUME NEW s \in Seq(ReplyType), s # <<>>, NEW q
  PROVE  LET r == Tail(s) IN
         /\ r \in Seq(ReplyType) /\ Len(r) \in Nat /\ Len(s) = Len(r) + 1
         /\ s[1] = Head(s) /\ s[1] \in ReplyType
         /\ \A i \in 1..Len(r) : i + 1 \in 1..Len(s) /\ r[i] = s[i + 1]
         /\ \A i \in 1..Len(r) : \A kind : Says(r, q, i, kind) <=> Says(s, q, i + 1, kind)
         /\ Cardinality(AnswersOf(s, q)) =
               Cardinality(AnswersOf(r, q)) + (IF 1 \in AnswersOf(s, q) THEN 1 ELSE 0)
<1> DEFINE r == Tail(s)
<1>1. /\ r \in Seq(ReplyType) /\ Len(r) \in Nat /\ Len(s) = Len(r) + 1
      /\ s[1] = Head(s) /\ s[1] \in ReplyType
      /\ \A i \in 1..Len(r) : r[i] = s[i + 1]
  <2>1. /\ Head(s) \in ReplyType /\ r \in Seq(ReplyType) /\ Len(r) = Len(s) - 1
        /\ \A i \in 1..Len(r) : r[i] = s[i + 1]
    BY HeadTailProperties
  <2>2. Len(s) \in Nat /\ Head(s) = s[1]
    BY LenProperties
  <2> HIDE DEF r
  <2>3. Len(r) \in Nat
    BY <2>1, LenProperties
  <2> QED  BY <2>1, <2>2, <2>3
<1> HIDE DEF r
<1>2. \A i \in 1..Len(r) : i + 1 \in 1..Len(s) /\ r[i] = s[i + 1]
  BY <1>1
<1>3. \A j \in 1..Len(s) : j = 1 \/ (j - 1 \in 1..Len(r) /\ (j - 1) + 1 = j)
  BY <1>1
<1>4. \A i \in 1..Len(r) : i \in AnswersOf(r, q) <=> i + 1 \in AnswersOf(s, q)
  BY <1>2 DEF AnswersOf
<1>5. ASSUME NEW i \in 1..Len(r), NEW kind
      PROVE  Says(r, q, i, kind) <=> Says(s, q, i + 1, kind)
  <2>1. AnswersOf(r, q) \in SUBSET (1..Len(r)) /\ AnswersOf(s, q) \in SUBSET (1..Len(s))
    BY DEF AnswersOf
  <2>2. (\A j \in AnswersOf(r, q) : j <= i) <=> (\A j \in AnswersOf(s, q) : j <= i + 1)
    <3>1. ASSUME \A j \in AnswersOf(r, q) : j <= i, NEW j \in AnswersOf(s, q)
          PROVE  j <= i + 1
      <4>1. CASE j = 1
        BY <4>1
      <4>2. CASE j # 1
        <5>1. j - 1 \in 1..Len(r) /\ (j - 1) + 1 = j
          BY <1>3, <2>1, <4>2
        <5>2. j - 1 \in AnswersOf(r, q)
          BY <1>4, <5>1
        <5>3. j - 1 <= i
          BY <3>1, <5>2
        <5> QED  BY <1>1, <5>1, <5>3
      <4> QED  BY <4>1, <4>2
    <3>2. ASSUME \A j \in AnswersOf(s, q) : j <= i + 1, NEW j \in AnswersOf(r, q)
          PROVE  j <= i
      <4>1. j + 1 \in AnswersOf(s, q) /\ j \in 1..Len(r)
        BY <1>4, <2>1
      <4>2. j + 1 <= i + 1
        BY <3>2, <4>1
      <4> QED  BY <1>1, <4>1, <4>2
    <3> QED  BY <3>1, <3>2
  <2> QED  BY <1>2, <2>2 DEF Says
<1>6. Cardinality(AnswersOf(s, q)) =
         Cardinality(AnswersOf(r, q)) + (IF 1 \in AnswersOf(s, q) THEN 1 ELSE 0)
  <2> DEFINE R == AnswersOf(r, q)
             S == AnswersOf(s, q)
             T == S \ {1}
             h == [i \in R |-> i + 1]
  <2>1. /\ R \in SUBSET (1..Len(r)) /\ S \in SUBSET (1..Len(s))
        /\ IsFiniteSet(R) /\ IsFiniteSet(S) /\ Cardinality(R) \in Nat /\ Cardinality(S) \in Nat
    BY <1>1, AnswersFinite
  <2>2. h \in [R -> T]
    BY <1>1, <1>4, <2>1
  <2>3. \A i, j \in R : h[i] = h[j] => i = j
    BY <2>1
  <2>4. \A j \in T : \E i \in R : h[i] = j
    <3> SUFFICES ASSUME NEW j \in T PROVE \E i \in R : h[i] = j
      OBVIOUS
    <3>1. j - 1 \in 1..Len(r) /\ (j - 1) + 1 = j
      BY <1>3, <2>1
    <3>2. j - 1 \in R
      BY <1>4, <3>1
    <3> QED  BY <3>1, <3>2
  <2> HIDE DEF R, S, h
  <2>5. ExistsBijection(R, T)
    <3>1. h \in Bijection(R, T)
      BY <2>2, <2>3, <2>4 DEF Bijection, Injection, Surjection, IsInjective
    <3> QED  BY <3>1 DEF ExistsBijection
  <2> HIDE DEF T
  <2>6. Cardinality(T) = Cardinality(R)
    BY <2>1, <2>5, FS_Bijection
  <2>7. Cardinality(T) = IF 1 \in S THEN Cardinality(S) - 1 ELSE Cardinality(S)
    BY <2>1, FS_RemoveElement DEF T
  <2>8. Cardinality(S) = Cardinality(R) + (IF 1 \in S THEN 1 ELSE 0)
    BY <2>1, <2>6, <2>7
  <2> QED  BY <2>8 DEF R, S
<1> QED  BY <1>1, <1>2, <1>5, <1>6 DEF r
\* What is left agrees when the target has taken in what the first message said.
LEMMA TailAgrees ==
  ASSUME NEW s \in Seq(ReplyType), s # <<>>, NEW q,
         NEW t, NEW v, NEW l, NEW b, Agree(s, q, t, v, l, b),
         NEW u, u.out = Cardinality(AnswersOf(Tail(s), q)),
         Knows(t, l) \/ Says(s, q, 1, "current") => Knows(u, l),
         u.out = 0 /\ u.dirty => b /\ Knows(u, l)
  PROVE  Agree(Tail(s), q, u, v, l, b)
<1> DEFINE r == Tail(s)
<1>1. /\ Len(r) \in Nat /\ Len(s) = Len(r) + 1
      /\ \A i \in 1..Len(r) : i + 1 \in 1..Len(s) /\ r[i] = s[i + 1]
      /\ \A i \in 1..Len(r) : \A kind : Says(r, q, i, kind) <=> Says(s, q, i + 1, kind)
  BY TailOf
<1>2. u.out = Cardinality(AnswersOf(r, q))
  OBVIOUS
<1> HIDE DEF r
<1>3. ASSUME NEW n \in 0..Len(r), \E j \in 1..(n + 1) : Says(s, q, j, "current"), ~Knows(u, l)
      PROVE  \E j \in 1..n : Says(r, q, j, "current")
  <2>1. PICK j \in 1..(n + 1) : Says(s, q, j, "current")
    BY <1>3
  <2>2. j # 1
    BY <1>3, <2>1
  <2>3. j - 1 \in 1..n /\ j - 1 \in 1..Len(r) /\ (j - 1) + 1 = j
    BY <1>1, <2>1, <2>2
  <2> QED  BY <1>1, <2>1, <2>3
<1>4. \A i \in 1..Len(r) : Says(r, q, i, "current") \/ Says(r, q, i, "change")
                               => r[i].listen = l /\ b
  BY <1>1 DEF Agree
<1>5. ASSUME NEW i \in 1..Len(r), Says(r, q, i, "change"), ~Knows(u, l)
      PROVE  \E j \in 1..(i - 1) : Says(r, q, j, "current")
  <2>1. Says(s, q, i + 1, "change") /\ i + 1 \in 1..Len(s) /\ (i + 1) - 1 = (i - 1) + 1
        /\ i - 1 \in 0..Len(r)
    BY <1>1, <1>5
  <2>2. \E j \in 1..((i + 1) - 1) : Says(s, q, j, "current")
    BY <1>5, <2>1 DEF Agree
  <2>3. \E j \in 1..((i - 1) + 1) : Says(s, q, j, "current")
    BY <2>1, <2>2
  <2> QED  BY <1>3, <1>5, <2>1, <2>3
<1>6. ASSUME v.current, ~Knows(u, l)
      PROVE  \E j \in 1..Len(r) : Says(r, q, j, "current")
  <2>1. \E j \in 1..(Len(r) + 1) : Says(s, q, j, "current")
    BY <1>1, <1>6 DEF Agree
  <2>2. Len(r) \in 0..Len(r)
    BY <1>1
  <2> QED  BY <1>3, <1>6, <2>1, <2>2
<1>7. Agree(r, q, u, v, l, b)
  <2>1. (v.listen # 0 => v.listen = l /\ b) /\ (v.current => v.listen # 0)
    BY DEF Agree
  <2> QED  BY <1>2, <1>4, <1>5, <1>6, <2>1 DEF Agree
<1> QED  BY <1>7 DEF r

\* What the target of a query becomes at a message that is not "rejected" and
\* not a snapshot; b says that the query is listened to.
TargetAfter(t, m, q, b) ==
    LET u == Answered(t)
    IN  CASE m.q # q -> t
          [] m.q = q /\ m.kind = "added" -> IF u.out = 0 THEN [u EXCEPT !.dirty = FALSE] ELSE u
          [] m.q = q /\ m.kind = "removed" -> IF u.out = 0 THEN NewTarget ELSE u
          [] m.q = q /\ m.kind = "current" ->
                IF t.out = 0 /\ b THEN [t EXCEPT !.current = m.listen, !.dirty = TRUE] ELSE t
          [] m.q = q /\ m.kind = "change" ->
                IF t.out = 0 /\ b THEN [t EXCEPT !.dirty = TRUE] ELSE t
          [] OTHER -> t

LEMMA TargetAfterAgrees ==
  ASSUME NEW s \in Seq(ReplyType), s # <<>>, NEW q,
         NEW t \in TargetType, NEW v, NEW l \in Nat, NEW b \in BOOLEAN, Agree(s, q, t, v, l, b)
  PROVE  Agree(Tail(s), q, TargetAfter(t, Head(s), q, b), v, l, b)
<1> DEFINE r == Tail(s)
           m == Head(s)
           u == TargetAfter(t, m, q, b)
<1>1. /\ Len(s) \in Nat /\ 1 \in 1..Len(s) /\ s[1] = m /\ m \in ReplyType
      /\ r \in Seq(ReplyType)
      /\ Cardinality(AnswersOf(s, q)) =
               Cardinality(AnswersOf(r, q)) + (IF 1 \in AnswersOf(s, q) THEN 1 ELSE 0)
  BY TailOf
<1>2. /\ Cardinality(AnswersOf(r, q)) \in Nat /\ Cardinality(AnswersOf(s, q)) \in Nat
      /\ Cardinality(AnswersOf(s, q)) = 0 <=> AnswersOf(s, q) = {}
  BY <1>1, AnswersFinite
<1>3. 1 \in AnswersOf(s, q) <=> m.q = q /\ m.kind \in {"added", "removed"}
  BY <1>1 DEF AnswersOf
<1>4. t.out \in Nat /\ t.out = Cardinality(AnswersOf(s, q))
  BY <1>2 DEF Agree
<1>5. \A kind \in {"current", "change"} : m.q = q /\ m.kind = kind /\ t.out = 0 => Says(s, q, 1, kind)
  BY <1>1, <1>2, <1>4 DEF Says
<1>6. Says(s, q, 1, "current") => m.q = q /\ m.kind = "current" /\ t.out = 0 /\ m.listen = l /\ b
  <2> SUFFICES ASSUME Says(s, q, 1, "current")
               PROVE  m.q = q /\ m.kind = "current" /\ t.out = 0 /\ m.listen = l /\ b
    OBVIOUS
  <2>1. m.q = q /\ m.kind = "current" /\ m.listen = l /\ b
    BY <1>1 DEF Says, Agree
  <2>2. \A j \in AnswersOf(s, q) : j <= 1 /\ j \in 1..Len(s) /\ j # 1
    BY <1>3, <2>1 DEF Says, AnswersOf
  <2>3. AnswersOf(s, q) = {}
    BY <1>1, <2>2
  <2> QED  BY <1>2, <1>4, <2>1, <2>3
<1>7. Says(s, q, 1, "change") => Knows(t, l) /\ b
  BY <1>1 DEF Agree
<1> HIDE DEF r, m
<1> DEFINE w == Answered(t)
<1>8. w = [t EXCEPT !.out = t.out - 1] /\ w \in TargetType
      /\ w.out = t.out - 1 /\ w.current = t.current /\ w.dirty = t.dirty
  BY DEF Answered, TargetType
<1>9. /\ u.out = Cardinality(AnswersOf(r, q))
      /\ Knows(t, l) \/ Says(s, q, 1, "current") => Knows(u, l)
      /\ u.out = 0 /\ u.dirty => b /\ Knows(u, l)
  <2>1. CASE m.q # q
    <3>1. u = t
      BY <2>1 DEF TargetAfter
    <3> QED  BY <1>1, <1>2, <1>3, <1>4, <1>6, <2>1, <3>1 DEF Agree
  <2>2. CASE m.q = q /\ m.kind = "added"
    <3>1. u = IF w.out = 0 THEN [w EXCEPT !.dirty = FALSE] ELSE w
      BY <2>2 DEF TargetAfter
    <3>2. w.out = Cardinality(AnswersOf(r, q)) /\ t.out # 0
      BY <1>1, <1>2, <1>3, <1>4, <1>8, <2>2
    <3>3. u.out = w.out /\ (w.out = 0 => ~u.dirty)
      BY <1>8, <3>1 DEF TargetType
    <3> QED  BY <1>6, <2>2, <3>2, <3>3 DEF Knows
  <2>3. CASE m.q = q /\ m.kind = "removed"
    <3>1. u = IF w.out = 0 THEN NewTarget ELSE w
      BY <2>3 DEF TargetAfter
    <3>2. w.out = Cardinality(AnswersOf(r, q)) /\ t.out # 0
      BY <1>1, <1>2, <1>3, <1>4, <1>8, <2>3
    <3>3. u.out = w.out /\ (w.out = 0 => ~u.dirty)
      BY <1>8, <3>1 DEF TargetType, NewTarget
    <3> QED  BY <1>6, <2>3, <3>2, <3>3 DEF Knows
  <2>4. CASE m.q = q /\ m.kind = "current"
    <3>1. u = IF t.out = 0 /\ b THEN [t EXCEPT !.current = m.listen, !.dirty = TRUE] ELSE t
      BY <2>4 DEF TargetAfter
    <3>2. t.out = Cardinality(AnswersOf(r, q))
      BY <1>1, <1>2, <1>3, <1>4, <2>4
    <3>3. CASE t.out = 0 /\ b
      <4>1. m.listen = l
        BY <1>1, <1>5, <2>4, <3>3, <1>6
      <4>2. u.out = t.out /\ u.current = l
        BY <3>1, <3>3, <4>1 DEF TargetType
      <4> QED  BY <3>2, <3>3, <4>2 DEF Knows
    <3>4. CASE ~(t.out = 0 /\ b)
      <4>1. u = t
        BY <3>1, <3>4
      <4> QED  BY <1>6, <3>2, <3>4, <4>1 DEF Agree
    <3> QED  BY <3>3, <3>4
  <2>5. CASE m.q = q /\ m.kind = "change"
    <3>1. u = IF t.out = 0 /\ b THEN [t EXCEPT !.dirty = TRUE] ELSE t
      BY <2>5 DEF TargetAfter
    <3>2. t.out = Cardinality(AnswersOf(r, q))
      BY <1>1, <1>2, <1>3, <1>4, <2>5
    <3>3. CASE t.out = 0 /\ b
      <4>1. Knows(t, l) /\ b
        BY <1>5, <1>7, <2>5, <3>3
      <4>2. u.out = t.out /\ u.current = t.current
        BY <3>1, <3>3 DEF TargetType
      <4> QED  BY <3>2, <4>1, <4>2 DEF Knows
    <3>4. CASE ~(t.out = 0 /\ b)
      <4>1. u = t
        BY <3>1, <3>4
      <4> QED  BY <1>6, <2>5, <3>2, <4>1 DEF Agree
    <3> QED  BY <3>3, <3>4
  <2>6. CASE m.q = q /\ m.kind \in {"rejected", "snapshot"}
    <3>1. u = t
      BY <2>6 DEF TargetAfter
    <3> QED  BY <1>1, <1>2, <1>3, <1>4, <1>6, <2>6, <3>1 DEF Agree
  <2>7. m.kind \in Kinds
    BY <1>1 DEF ReplyType
  <2> QED  BY <2>1, <2>2, <2>3, <2>4, <2>5, <2>6, <2>7 DEF Kinds
<1> HIDE DEF u
<1>10. Agree(r, q, u, v, l, b)
  BY <1>9, TailAgrees DEF r
<1> QED  BY <1>10 DEF r, m, u
-----------------------------------------------------------------------------
(* What holds of the client between two of its methods.                      *)

StreamOK(x) ==
    /\ x.stream.ok
    /\ x.stream.backoff => x.stream.state = "Backoff"
    /\ x.stream.asked # {} => x.stream.state = "Starting"
    /\ x.stream.idle => IsOpen(x.stream)
    /\ x.online = "Online" => ~x.failed

IdleOK(x) == x.stream.idle => Targets(x) = {}

TimerOK(x) == x.timer => IsStarted(x.stream) /\ ~x.failed /\ x.online = "Unknown"

ViewOK(x) == \A q \in Queries : x.view[q] \in {0, x.listens[q]}

\* A query that is denied is never current.
DeniedOK(x) ==
    /\ \A q \in Queries : q \in denied =>
          x.target[q].current = 0 /\ x.served[q] = NotServed /\ x.view[q] = 0
    /\ \A i \in 1..Len(x.replies) :
          IF x.replies[i].q \in denied THEN x.replies[i].kind \in {"rejected", "removed", "snapshot"}
          ELSE x.replies[i].kind # "rejected"

ClosedOK(x) ==
    /\ ~IsOpen(x.stream) => x.replies = <<>> /\ x.served = [q \in Queries |-> NotServed]
    /\ x.stream.state \in {"Starting", "Backoff"} => x.target = [q \in Queries |-> NewTarget]

TargetOK(x, q) ==
    Agree(x.replies, q, x.target[q], x.served[q], x.listens[q], q \in Targets(x))

WatchOK(x) ==
    /\ ViewOK(x) /\ DeniedOK(x) /\ ClosedOK(x)
    /\ IsOpen(x.stream) => \A q \in Queries \ denied : TargetOK(x, q)

\* The same but for a query whose listener has just come or gone.
WatchBut(x, q) ==
    /\ ViewOK(x) /\ DeniedOK(x) /\ ClosedOK(x)
    /\ IsOpen(x.stream) => \A p \in Queries \ denied : p # q => TargetOK(x, p)
    /\ IsOpen(x.stream) /\ q \notin denied
          => x.target[q].out = Cardinality(AnswersOf(x.replies, q))

Sound(x) == x \in ClientType /\ StreamOK(x) /\ IdleOK(x) /\ WatchOK(x)

Good(x) == Sound(x) /\ TimerOK(x)

\* The connection changes, not who listens to what.
Runs(x, y) ==
    /\ y \in ClientType /\ MainGrows(x, y)
    /\ y.listens = x.listens /\ y.listeners = x.listeners
    /\ \A q \in Queries : y.view[q] \in {0, x.view[q]}

LEMMA TellsRuns ==
  ASSUME NEW x, NEW y, Tells(x, y)
  PROVE  Runs(x, y) /\ y.enabled = x.enabled /\ y.stream = x.stream /\ Targets(y) = Targets(x)
BY DEF Tells, Same, Runs, Targets

LEMMA RunsOn ==
  ASSUME NEW x \in ClientType, NEW y, NEW z, Runs(x, y), Runs(y, z)
  PROVE  Runs(x, z)
<1>1. y \in ClientType /\ z \in ClientType
  BY DEF Runs
<1>2. Len(x.main) \in Nat /\ Len(y.main) \in Nat /\ Len(z.main) \in Nat
  BY <1>1, Fields
<1>3. \A g : Listening(y, g) => Listening(x, g)
  BY DEF Runs, Listening
<1>4. MainGrows(x, z)
  <2>1. ASSUME NEW i \in (Len(x.main) + 1)..Len(z.main)
        PROVE  z.main[i].what # "error" /\ Listening(x, z.main[i].g)
    <3>1. CASE i \in (Len(x.main) + 1)..Len(y.main)
      BY <1>2, <3>1 DEF Runs, MainGrows
    <3>2. CASE i \in (Len(y.main) + 1)..Len(z.main)
      BY <1>3, <3>2 DEF Runs, MainGrows
    <3> QED  BY <1>2, <3>1, <3>2
  <2> QED  BY <1>2, <2>1 DEF Runs, MainGrows
<1> QED  BY <1>1, <1>4 DEF Runs

\* A record of the client that has the same events, listens and views.
LEMMA RunsSame ==
  ASSUME NEW x \in ClientType, NEW y \in ClientType, y.main = x.main, y.listens = x.listens,
         y.listeners = x.listeners, y.view = x.view
  PROVE  Runs(x, y) /\ Targets(y) = Targets(x)
<1>1. Len(x.main) \in Nat
  BY Fields
<1> QED  BY <1>1 DEF Runs, MainGrows, Targets

LEMMA TellsKeeps ==
  ASSUME NEW x \in ClientType, NEW y, Tells(x, y)
  PROVE  /\ WatchOK(x) => WatchOK(y)
         /\ IdleOK(x) => IdleOK(y)
         /\ StreamOK(x) /\ (y.online = "Online" => ~y.failed) => StreamOK(y)
<1>1. /\ y.stream = x.stream /\ y.replies = x.replies /\ y.served = x.served
      /\ y.target = x.target /\ y.listens = x.listens /\ Targets(y) = Targets(x)
      /\ \A q \in Queries : y.view[q] \in {0, x.view[q]}
  BY DEF Tells, Same, Targets
<1>2. \A q \in Queries : TargetOK(x, q) => TargetOK(y, q)
  BY <1>1 DEF TargetOK
<1>3. /\ DeniedOK(x) => DeniedOK(y)
      /\ ViewOK(x) => ViewOK(y)
      /\ ClosedOK(x) => ClosedOK(y)
  BY <1>1 DEF DeniedOK, ViewOK, ClosedOK
<1>4. WatchOK(x) => WatchOK(y)
  BY <1>1, <1>2, <1>3 DEF WatchOK
<1> QED  BY <1>1, <1>4 DEF IdleOK, StreamOK

LEMMA UpdateTells ==
  ASSUME NEW x \in ClientType, NEW online \in OnlineStates
  PROVE  LET y == UpdateState(x, online) IN
         Tells(x, y) /\ y.online = online /\ ~y.failed /\ ~y.timer
<1> DEFINE w == [x EXCEPT !.timer = FALSE, !.failed = FALSE]
           y == SetAndBroadcast(w, online)
<1>1. /\ w \in ClientType /\ Same(x, w) /\ w.main = x.main /\ w.view = x.view
      /\ w.online = x.online /\ ~w.failed /\ ~w.timer
  BY DEF ClientType, Same
<1>2. Tells(x, w)
  <2>1. Len(x.main) \in Nat
    BY Fields
  <2> QED  BY <1>1, <2>1 DEF Tells, MainGrows
<1> HIDE DEF w
<1>3. Tells(w, y) /\ y.online = online /\ ~y.failed /\ ~y.timer
  BY <1>1, Broadcast
<1>4. UpdateState(x, online) = y
  BY DEF UpdateState, w
<1> HIDE DEF y
<1> QED  BY <1>2, <1>3, <1>4, TellsOn

LEMMA UpdateKeeps ==
  ASSUME NEW x, Sound(x), NEW online \in OnlineStates
  PROVE  LET y == UpdateState(x, online) IN
         /\ Runs(x, y) /\ Good(y) /\ y.enabled = x.enabled /\ y.stream = x.stream
<1> DEFINE y == UpdateState(x, online)
<1>1. x \in ClientType /\ StreamOK(x) /\ IdleOK(x) /\ WatchOK(x)
  BY DEF Sound
<1>2. Tells(x, y) /\ y.online = online /\ ~y.failed /\ ~y.timer
  BY <1>1, UpdateTells
<1> HIDE DEF y
<1>3. WatchOK(y) /\ IdleOK(y) /\ StreamOK(y) /\ TimerOK(y)
  BY <1>1, <1>2, TellsKeeps DEF TimerOK
<1>4. Runs(x, y) /\ y.enabled = x.enabled /\ y.stream = x.stream /\ y \in ClientType
  BY <1>2, TellsRuns DEF Tells
<1> QED  BY <1>3, <1>4 DEF Good, Sound, y

\* The online-state timer starts with the stream unless an attempt has failed.
LEMMA WatchStart ==
  ASSUME NEW x \in ClientType, x.stream.ok, ~x.timer, x.online = "Online" => ~x.failed
  PROVE  LET y == HandleWatchStreamStart(x) IN
         /\ Tells(x, y) /\ y.failed = x.failed /\ (y.online = "Online" => ~y.failed)
         /\ y.timer => ~y.failed /\ y.online = "Unknown"
<1>1. CASE x.failed
  BY <1>1, TellsNothing DEF HandleWatchStreamStart
<1>2. CASE ~x.failed
  <2> DEFINE w == SetAndBroadcast(x, "Unknown")
             v == Assert_(w, ~x.timer)
             y == [v EXCEPT !.timer = TRUE]
  <2>1. Tells(x, w) /\ w.online = "Unknown" /\ w.failed = x.failed
    BY Broadcast DEF OnlineStates
  <2> HIDE DEF w
  <2>2. w \in ClientType /\ w.stream.ok /\ w.stream \in StreamType
    BY <2>1, Fields DEF Tells, Same
  <2>3. v = w
    BY <2>2 DEF Assert_, HardAssert, ClientType, StreamType
  <2>4. /\ y \in ClientType /\ Same(w, y) /\ y.main = w.main /\ y.view = w.view
        /\ y.online = "Unknown" /\ y.failed = x.failed
    BY <2>1, <2>2, <2>3 DEF ClientType, Same
  <2>5. Tells(w, y)
    <3>1. Len(w.main) \in Nat
      BY <2>2, Fields
    <3> QED  BY <2>4, <3>1 DEF Tells, MainGrows
  <2>6. HandleWatchStreamStart(x) = y
    BY <1>2 DEF HandleWatchStreamStart, w
  <2> HIDE DEF y
  <2>7. Tells(x, y)
    BY <2>1, <2>5, TellsOn
  <2> QED  BY <1>2, <2>4, <2>6, <2>7
<1> QED  BY <1>1, <1>2

LEMMA WatchFailure ==
  ASSUME NEW x \in ClientType, x.stream.ok, x.online = "Online" => ~x.failed /\ ~x.timer
  PROVE  LET y == HandleWatchStreamFailure(x) IN
         Tells(x, y) /\ ~y.timer /\ y.online # "Online"
<1>1. CASE x.online = "Online"
  <2> DEFINE w == SetAndBroadcast(x, "Unknown")
  <2>1. Tells(x, w) /\ w.online = "Unknown" /\ w.timer = x.timer
    BY Broadcast DEF OnlineStates
  <2> HIDE DEF w
  <2>2. w \in ClientType /\ w.stream.ok /\ w.stream \in StreamType
    BY <2>1, Fields DEF Tells, Same
  <2>3. Assert_(w, ~x.failed /\ ~x.timer) = w
    BY <1>1, <2>2 DEF Assert_, HardAssert, ClientType, StreamType
  <2>4. HandleWatchStreamFailure(x) = w
    BY <1>1, <2>3 DEF HandleWatchStreamFailure, w
  <2> QED  BY <1>1, <2>1, <2>4
<1>2. CASE x.online # "Online"
  <2> DEFINE w == [x EXCEPT !.failed = TRUE, !.timer = FALSE]
             y == SetAndBroadcast(w, "Offline")
  <2>1. /\ w \in ClientType /\ Same(x, w) /\ w.main = x.main /\ w.view = x.view /\ ~w.timer
    BY DEF ClientType, Same
  <2>2. Tells(x, w)
    <3>1. Len(x.main) \in Nat
      BY Fields
    <3> QED  BY <2>1, <3>1 DEF Tells, MainGrows
  <2> HIDE DEF w
  <2>3. Tells(w, y) /\ y.online = "Offline" /\ y.timer = w.timer
    BY <2>1, Broadcast DEF OnlineStates
  <2> HIDE DEF y
  <2>4. Tells(x, y)
    BY <2>2, <2>3, TellsOn
  <2>5. HandleWatchStreamFailure(x) = y
    BY <1>2 DEF HandleWatchStreamFailure, y, w
  <2> QED  BY <2>1, <2>3, <2>4, <2>5
<1> QED  BY <1>1, <1>2

\* A stream that is not started has nothing pending.
LEMMA StartIs ==
  ASSUME NEW s \in StreamType, s.ok, ~IsStarted(s), ~s.backoff, s.asked = {}, ~s.idle
  PROVE  LET t == Start(s) IN
         /\ t \in StreamType /\ t.ok /\ t.state \in {"Starting", "Backoff"}
         /\ t.backoff => t.state = "Backoff"
         /\ t.asked # {} => t.state = "Starting"
         /\ ~t.idle
<1>1. CASE s.state = "Error"
  BY <1>1 DEF Start, StreamType
<1>2. CASE s.state # "Error"
  <2>1. s.state = "Initial"
    BY <1>2 DEF IsStarted, StreamType
  <2>2. HardAssert(s, s.state = "Initial") = s
    BY <2>1 DEF HardAssert, StreamType
  <2>3. Start(s) = [s EXCEPT !.state = "Starting", !.asked = @ \union {s.count}]
    BY <1>2, <2>2 DEF Start, StartNow
  <2>4. s.asked \union {s.count} \in SUBSET Nat
    BY DEF StreamType
  <2> DEFINE a == s.asked \union {s.count}
  <2>5. Start(s) = [s EXCEPT !.state = "Starting", !.asked = a]
    BY <2>3
  <2> HIDE DEF a
  <2>6. a \in SUBSET Nat
    BY <2>4 DEF a
  <2>7. Start(s) \in StreamType
    BY <2>5, <2>6 DEF StreamType
  <2>8. Start(s).ok = s.ok /\ Start(s).state = "Starting" /\ Start(s).backoff = s.backoff
        /\ Start(s).idle = s.idle
    BY <2>5 DEF StreamType
  <2> QED  BY <2>7, <2>8
<1> QED  BY <1>1, <1>2

LEMMA StartKeeps ==
  ASSUME NEW x, Sound(x), ~IsStarted(x.stream), ~x.timer
  PROVE  LET y == StartWatchStream(x) IN
         Runs(x, y) /\ Good(y) /\ y.enabled = x.enabled /\ ~IsOpen(y.stream)
<1> DEFINE t == Start(x.stream)
           w == [x EXCEPT !.target = [q \in Queries |-> NewTarget], !.stream = t]
           y == HandleWatchStreamStart(w)
<1>1. x \in ClientType /\ StreamOK(x) /\ WatchOK(x) /\ x.stream \in StreamType
  BY Fields DEF Sound
<1>2. ~IsOpen(x.stream)
  BY DEF IsOpen, IsStarted
<1>3. x.stream.ok /\ ~x.stream.backoff /\ x.stream.asked = {} /\ ~x.stream.idle
  BY <1>1, <1>2 DEF StreamOK, IsStarted
<1>4. /\ t \in StreamType /\ t.ok /\ t.state \in {"Starting", "Backoff"}
      /\ t.backoff => t.state = "Backoff"
      /\ t.asked # {} => t.state = "Starting"
      /\ ~t.idle
  BY <1>1, <1>3, StartIs
<1> HIDE DEF t
<1>5. /\ w \in ClientType /\ w.stream = t /\ w.target = [q \in Queries |-> NewTarget]
      /\ w.enabled = x.enabled /\ w.replies = x.replies /\ w.served = x.served
      /\ w.online = x.online /\ w.failed = x.failed /\ w.timer = x.timer
      /\ w.listens = x.listens /\ w.listeners = x.listeners /\ w.view = x.view /\ w.main = x.main
  <2>1. [q \in Queries |-> NewTarget] \in [Queries -> [out : Int, current : Nat, dirty : BOOLEAN]]
    BY DEF NewTarget
  <2> QED  BY <1>1, <1>4, <2>1 DEF ClientType
<1> HIDE DEF w
<1>6. Runs(x, w) /\ Targets(w) = Targets(x)
  BY <1>1, <1>5, RunsSame
<1>7. StreamOK(w) /\ IdleOK(w) /\ ~IsOpen(w.stream)
  BY <1>1, <1>4, <1>5 DEF StreamOK, IdleOK, IsOpen
<1>8. WatchOK(w)
  <2>1. ViewOK(w) /\ ClosedOK(w)
    BY <1>1, <1>2, <1>5 DEF WatchOK, ViewOK, ClosedOK
  <2>2. DeniedOK(w)
    BY <1>1, <1>5 DEF WatchOK, DeniedOK, NewTarget
  <2> QED  BY <1>7, <2>1, <2>2 DEF WatchOK
<1>9. /\ Tells(w, y) /\ (y.online = "Online" => ~y.failed)
      /\ y.timer => ~y.failed /\ y.online = "Unknown"
  BY <1>1, <1>4, <1>5, WatchStart DEF StreamOK
<1> HIDE DEF y
<1>10. Runs(w, y) /\ y.enabled = w.enabled /\ y.stream = t
  BY <1>5, <1>9, TellsRuns
<1>11. Runs(x, y) /\ y \in ClientType
  BY <1>1, <1>6, <1>10, RunsOn DEF Runs
<1>12. WatchOK(y) /\ IdleOK(y) /\ StreamOK(y)
  BY <1>5, <1>7, <1>8, <1>9, TellsKeeps
<1>13. TimerOK(y)
  BY <1>4, <1>9, <1>10 DEF TimerOK, IsStarted
<1>14. StartWatchStream(x) = y
  BY DEF StartWatchStream, y, w, t
<1> QED  BY <1>5, <1>7, <1>10, <1>11, <1>12, <1>13, <1>14 DEF Good, Sound
\* A close, and the restart that follows it while there are targets.
LEMMA CloseKeeps ==
  ASSUME NEW x, Sound(x), TimerOK(x), IsStarted(x.stream), NEW graceful \in BOOLEAN,
         graceful => ~x.enabled \/ Targets(x) = {}
  PROVE  LET y == Close_(x, graceful) IN
         /\ Runs(x, y) /\ Good(y) /\ y.enabled = x.enabled
         /\ graceful => ~IsStarted(y.stream)
<1> DEFINE t == [Close(x.stream, graceful) EXCEPT !.asked = {}, !.count = 0]
           w == [x EXCEPT !.stream = t, !.replies = <<>>, !.served = [q \in Queries |-> NotServed]]
<1>1. x \in ClientType /\ StreamOK(x) /\ IdleOK(x) /\ WatchOK(x) /\ x.stream \in StreamType
  BY Fields DEF Sound
<1>2. /\ t \in StreamType /\ t.ok /\ ~t.backoff /\ t.asked = {} /\ ~t.idle
      /\ t.state = IF graceful THEN "Initial" ELSE "Error"
  <2>1. HardAssert(x.stream, IsStarted(x.stream)) = x.stream
    BY <1>1 DEF HardAssert, StreamType, StreamOK
  <2>2. t = [x.stream EXCEPT !.state = IF graceful THEN "Initial" ELSE "Error",
                             !.backoff = FALSE, !.idle = FALSE, !.asked = {}, !.count = 0]
    BY <1>1, <2>1 DEF Close, StreamType
  <2> HIDE DEF t
  <2> QED  BY <1>1, <2>2 DEF StreamType, StreamOK
<1> HIDE DEF t
<1>3. /\ w \in ClientType /\ w.stream = t /\ w.target = x.target
      /\ w.enabled = x.enabled /\ w.replies = <<>> /\ w.served = [q \in Queries |-> NotServed]
      /\ w.online = x.online /\ w.failed = x.failed /\ w.timer = x.timer
      /\ w.listens = x.listens /\ w.listeners = x.listeners /\ w.view = x.view /\ w.main = x.main
  <2>1. [q \in Queries |-> NotServed] \in [Queries -> [listen : Nat, current : BOOLEAN]]
    BY DEF NotServed
  <2> DEFINE v == [q \in Queries |-> NotServed]
             r == <<>>
  <2>2. /\ w = [x EXCEPT !.stream = t, !.replies = r, !.served = v]
        /\ v = [q \in Queries |-> NotServed] /\ r = <<>>
    OBVIOUS
  <2>6. r \in Seq([kind : {"added", "removed", "rejected", "current", "change", "snapshot"},
                    q : Queries, listen : Nat])
    BY EmptySeq
  <2> HIDE DEF v, w, r
  <2>3. /\ w.stream = t /\ w.target = x.target
        /\ w.enabled = x.enabled /\ w.replies = r /\ w.served = v
        /\ w.online = x.online /\ w.failed = x.failed /\ w.timer = x.timer
        /\ w.listens = x.listens /\ w.listeners = x.listeners /\ w.view = x.view
        /\ w.main = x.main
    BY <1>1, <2>2 DEF ClientType
  <2>4. v \in [Queries -> [listen : Nat, current : BOOLEAN]]
    BY <2>1, <2>2
  <2>5. w \in ClientType
    BY <1>1, <1>2, <2>2, <2>4, <2>6 DEF ClientType
  <2> QED  BY <2>2, <2>3, <2>5
<1> HIDE DEF w
<1>4. Runs(x, w) /\ Targets(w) = Targets(x)
  BY <1>1, <1>3, RunsSame
<1>5. ~IsStarted(w.stream) /\ ~IsOpen(w.stream) /\ w.stream.state \in {"Initial", "Error"}
  BY <1>2, <1>3 DEF IsStarted, IsOpen
<1>6. StreamOK(w) /\ IdleOK(w)
  BY <1>1, <1>2, <1>3 DEF StreamOK, IdleOK
<1>7. WatchOK(w)
  <2>1. ViewOK(w) /\ ClosedOK(w)
    BY <1>1, <1>3, <1>5 DEF WatchOK, ViewOK, ClosedOK
  <2>2. DeniedOK(w)
    BY <1>1, <1>3 DEF WatchOK, DeniedOK
  <2> QED  BY <1>5, <2>1, <2>2 DEF WatchOK
<1>8. Sound(w)
  BY <1>3, <1>6, <1>7 DEF Sound
<1>9. graceful => ~ShouldStartWatchStream(w)
  BY <1>3, <1>4 DEF ShouldStartWatchStream
<1>10. Assert_(w, graceful => ~ShouldStartWatchStream(w)) = w
  BY <1>3, <1>6, <1>9 DEF Assert_, HardAssert, ClientType, StreamType, StreamOK
<1>11. Close_(x, graceful) = IF ShouldStartWatchStream(w)
                             THEN StartWatchStream(HandleWatchStreamFailure(w))
                             ELSE UpdateState(w, "Unknown")
  <2> DEFINE v == [x EXCEPT !.stream = [Close(@, graceful) EXCEPT !.asked = {}, !.count = 0],
                            !.replies = <<>>, !.served = [q \in Queries |-> NotServed]]
  <2>1. v = w
    BY <1>1 DEF w, t, ClientType
  <2>2. Close_(x, graceful) =
           LET checked == Assert_(v, graceful => ~ShouldStartWatchStream(v))
           IN  IF ShouldStartWatchStream(checked)
               THEN StartWatchStream(HandleWatchStreamFailure(checked))
               ELSE UpdateState(checked, "Unknown")
    BY DEF Close_
  <2> HIDE DEF v
  <2> QED  BY <1>10, <2>1, <2>2
<1>12. CASE ShouldStartWatchStream(w)
  <2> DEFINE u == HandleWatchStreamFailure(w)
             y == StartWatchStream(u)
  <2>1. w.online = "Online" => ~w.failed /\ ~w.timer
    BY <1>1, <1>3 DEF StreamOK, TimerOK
  <2>2. Tells(w, u) /\ ~u.timer /\ u.online # "Online"
    BY <1>3, <1>6, <2>1, WatchFailure DEF StreamOK
  <2> HIDE DEF u
  <2>3. Sound(u)
    BY <1>3, <1>6, <1>7, <2>2, TellsKeeps DEF Sound, Tells
  <2>4. Runs(w, u) /\ u.stream = w.stream /\ u.enabled = w.enabled
    BY <2>2, TellsRuns
  <2>5. Runs(u, y) /\ Good(y) /\ y.enabled = u.enabled
    BY <1>5, <2>2, <2>3, <2>4, StartKeeps
  <2> HIDE DEF y
  <2>6. Runs(x, u)
    BY <1>1, <1>4, <2>4, RunsOn
  <2>7. Runs(x, y)
    BY <1>1, <2>5, <2>6, RunsOn
  <2>8. Close_(x, graceful) = y
    BY <1>11, <1>12 DEF y, u
  <2> QED  BY <1>3, <1>9, <1>12, <2>4, <2>5, <2>7, <2>8
<1>13. CASE ~ShouldStartWatchStream(w)
  <2> DEFINE y == UpdateState(w, "Unknown")
  <2>1. Runs(w, y) /\ Good(y) /\ y.enabled = w.enabled /\ y.stream = w.stream
    BY <1>8, UpdateKeeps DEF OnlineStates
  <2>2. Close_(x, graceful) = y
    BY <1>11, <1>13
  <2> HIDE DEF y
  <2>3. Runs(x, y)
    BY <1>1, <1>4, <2>1, RunsOn
  <2> QED  BY <1>3, <1>5, <2>1, <2>2, <2>3
<1> QED  BY <1>12, <1>13
LEMMA StopKeeps ==
  ASSUME NEW x, Sound(x), TimerOK(x), ~x.enabled \/ Targets(x) = {}
  PROVE  LET y == Stop(x) IN
         Runs(x, y) /\ Good(y) /\ y.enabled = x.enabled /\ ~IsStarted(y.stream)
<1>1. CASE IsStarted(x.stream)
  <2> DEFINE y == Close_(x, TRUE)
  <2>1. Runs(x, y) /\ Good(y) /\ y.enabled = x.enabled /\ ~IsStarted(y.stream)
    BY <1>1, CloseKeeps
  <2>2. Stop(x) = y
    BY <1>1 DEF Stop
  <2> HIDE DEF y
  <2> QED  BY <2>1, <2>2
<1>2. CASE ~IsStarted(x.stream)
  BY <1>2, RunsSame DEF Stop, Good, Sound
<1> QED  BY <1>1, <1>2

-----------------------------------------------------------------------------
(* Requests on an open stream, and what the backend says.                    *)

LEMMA ReplyIs ==
  ASSUME NEW x \in ClientType, NEW kinds \in Seq(Kinds), NEW q \in Queries
  PROVE  LET y == Reply(x, kinds, q) IN
         /\ y = [x EXCEPT !.replies = y.replies] /\ y \in ClientType
         /\ More(x.replies, y.replies, kinds, q, x.listens[q])
<1> DEFINE l == x.listens[q]
           t == [i \in DOMAIN kinds |-> [kind |-> kinds[i], q |-> q, listen |-> l]]
           s == x.replies
           r == s \o t
           y == Reply(x, kinds, q)
<1>1. s \in Seq(ReplyType) /\ Len(s) \in Nat /\ l \in Nat /\ Len(kinds) \in Nat
      /\ DOMAIN kinds = 1..Len(kinds) /\ \A i \in 1..Len(kinds) : kinds[i] \in Kinds
  <2>1. s \in Seq(ReplyType)
    BY Fields DEF ReplyType, Kinds
  <2>2. l \in Nat
    BY Fields
  <2> HIDE DEF s, l
  <2> QED  BY <2>1, <2>2, LenProperties
<1>2. y = [x EXCEPT !.replies = r] /\ y.replies = r
  BY DEF Reply, ClientType
<1> HIDE DEF s, l
<1>3. t \in Seq(ReplyType) /\ Len(t) = Len(kinds)
      /\ \A i \in 1..Len(kinds) : t[i] = [kind |-> kinds[i], q |-> q, listen |-> l]
  <2>1. t \in [1..Len(kinds) -> ReplyType]
    BY <1>1 DEF ReplyType
  <2>2. \A i \in 1..Len(kinds) : t[i] = [kind |-> kinds[i], q |-> q, listen |-> l]
    BY <1>1
  <2> HIDE DEF t
  <2>3. t \in Seq(ReplyType) /\ Len(t) = Len(kinds)
    BY <1>1, <2>1, SeqDef
  <2> QED  BY <2>2, <2>3
<1> HIDE DEF t
<1>4. /\ r \in Seq(ReplyType) /\ Len(r) = Len(s) + Len(t)
      /\ \A i \in 1..(Len(s) + Len(t)) : r[i] = IF i <= Len(s) THEN s[i] ELSE t[i - Len(s)]
  BY <1>1, <1>3, ConcatProperties, ZenonT(40)
<1> HIDE DEF r
<1>5. \A i \in 1..Len(s) : r[i] = s[i]
  BY <1>1, <1>3, <1>4
<1>6. ASSUME NEW i \in 1..Len(kinds)
      PROVE  r[Len(s) + i] = [kind |-> kinds[i], q |-> q, listen |-> l]
  <2>1. Len(s) + i \in 1..(Len(s) + Len(t)) /\ ~(Len(s) + i <= Len(s)) /\ (Len(s) + i) - Len(s) = i
    BY <1>1, <1>3
  <2> QED  BY <1>3, <1>4, <2>1
<1>7. More(s, r, kinds, q, l)
  BY <1>3, <1>4, <1>5, <1>6 DEF More
<1>8. y \in ClientType
  BY <1>2, <1>4 DEF ClientType, ReplyType, Kinds
<1> HIDE DEF y
<1> QED  BY <1>2, <1>7, <1>8 DEF y, s, l

\* What comes on the stream for a denied query, and what for another.
MayCome(q, a) == IF q \in denied THEN a \in {"rejected", "removed", "snapshot"} ELSE a # "rejected"

LEMMA RepliesKept ==
  ASSUME NEW x, NEW y, NEW kinds, NEW q, NEW l, x.replies \in Seq(ReplyType), kinds \in Seq(Kinds),
         More(x.replies, y.replies, kinds, q, l),
         \A i \in 1..Len(kinds) : MayCome(q, kinds[i]),
         DeniedOK(x), y.view = x.view,
         \A p \in Queries : y.target[p].current = x.target[p].current,
         \A p \in Queries : p \in denied => y.served[p] = NotServed
  PROVE  DeniedOK(y)
<1> DEFINE s == x.replies
           r == y.replies
<1>1. Len(s) \in Nat /\ Len(kinds) \in Nat /\ Len(r) = Len(s) + Len(kinds)
  BY LenProperties DEF More
<1>2. ASSUME NEW i \in 1..Len(r)
      PROVE  MayCome(r[i].q, r[i].kind)
  <2>1. CASE i \in 1..Len(s)
    <3>1. r[i] = s[i]
      BY <2>1 DEF More
    <3> QED  BY <2>1, <3>1 DEF DeniedOK, MayCome
  <2>2. CASE i \notin 1..Len(s)
    <3>1. i - Len(s) \in 1..Len(kinds) /\ Len(s) + (i - Len(s)) = i
      BY <1>1, <2>2
    <3>2. r[i] = [kind |-> kinds[i - Len(s)], q |-> q, listen |-> l]
      BY <3>1 DEF More
    <3> QED  BY <3>1, <3>2
  <2> QED  BY <2>1, <2>2
<1> QED  BY <1>2 DEF DeniedOK, MayCome
\* The same query listens, and the stream runs on.
Goes(x, y) ==
    /\ y \in ClientType /\ y.enabled = x.enabled /\ y.main = x.main /\ y.view = x.view
    /\ y.online = x.online /\ y.failed = x.failed /\ y.timer = x.timer
    /\ y.listens = x.listens /\ y.listeners = x.listeners /\ Targets(y) = Targets(x)

\* A request for q on the open stream, with its answer under way.
Asked(x, q, v, a) == Reply([Send(x, q) EXCEPT !.served[q] = v], <<a>>, q)

LEMMA AskedKeeps ==
  ASSUME NEW x \in ClientType, NEW q \in Queries, StreamOK(x), WatchBut(x, q), IsOpen(x.stream),
         NEW v \in ServedType, NEW a \in {"added", "removed", "rejected"}, MayCome(q, a),
         ~v.current, v.listen # 0 => v.listen = x.listens[q] /\ q \in Targets(x),
         q \in denied => v = NotServed
  PROVE  LET y == Asked(x, q, v, a) IN
         Goes(x, y) /\ StreamOK(y) /\ WatchOK(y) /\ IsOpen(y.stream) /\ ~y.stream.idle
<1> DEFINE t == [x.target[q] EXCEPT !.out = @ + 1]
           st == Write(x.stream)
           w == [Send(x, q) EXCEPT !.served[q] = v]
           y == Reply(w, <<a>>, q)
<1>1. /\ x.stream \in StreamType /\ x.target \in [Queries -> TargetType]
      /\ x.served \in [Queries -> ServedType] /\ x.replies \in Seq(ReplyType)
      /\ x.listens[q] \in Nat
  BY Fields DEF TargetType, ServedType, ReplyType, Kinds
<1>2. t \in TargetType /\ t.current = x.target[q].current
  <2> DEFINE u == x.target[q]
  <2>1. u \in TargetType
    BY <1>1
  <2> HIDE DEF u
  <2>2. /\ [u EXCEPT !.out = @ + 1] \in TargetType
        /\ [u EXCEPT !.out = @ + 1].current = u.current
    BY <2>1 DEF TargetType
  <2> QED  BY <2>2 DEF u
<1>3. st \in StreamType /\ st = [x.stream EXCEPT !.idle = FALSE]
  <2>1. HardAssert(x.stream, IsOpen(x.stream)) = x.stream
    BY <1>1 DEF HardAssert, StreamType, StreamOK
  <2>2. st = [x.stream EXCEPT !.idle = FALSE]
    BY <2>1 DEF Write
  <2> HIDE DEF st
  <2> QED  BY <1>1, <2>2 DEF StreamType
<1>4. w = [x EXCEPT !.target = [x.target EXCEPT ![q] = t], !.stream = st,
                    !.served = [x.served EXCEPT ![q] = v]]
  BY <1>1 DEF Send, ClientType
<1> HIDE DEF t, st, w
<1>5. /\ w \in ClientType /\ w.target = [x.target EXCEPT ![q] = t] /\ w.stream = st
      /\ w.served = [x.served EXCEPT ![q] = v] /\ w.replies = x.replies
      /\ w.enabled = x.enabled /\ w.main = x.main /\ w.view = x.view
      /\ w.online = x.online /\ w.failed = x.failed /\ w.timer = x.timer
      /\ w.listens = x.listens /\ w.listeners = x.listeners
  <2> DEFINE tg == [x.target EXCEPT ![q] = t]
             sv == [x.served EXCEPT ![q] = v]
  <2>1. tg \in [Queries -> TargetType] /\ sv \in [Queries -> ServedType]
    BY <1>1, <1>2
  <2>2. w = [x EXCEPT !.target = tg, !.stream = st, !.served = sv]
    BY <1>4
  <2> HIDE DEF tg, sv
  <2>3. /\ w.target = tg /\ w.stream = st
        /\ w.served = sv /\ w.replies = x.replies
        /\ w.enabled = x.enabled /\ w.main = x.main /\ w.view = x.view
        /\ w.online = x.online /\ w.failed = x.failed /\ w.timer = x.timer
        /\ w.listens = x.listens /\ w.listeners = x.listeners
    BY <2>2 DEF ClientType
  <2>4. w \in ClientType
    BY <1>3, <2>1, <2>2 DEF ClientType, TargetType, ServedType
  <2> QED  BY <2>3, <2>4 DEF tg, sv
<1> DEFINE kinds == <<a>>
<1>6. kinds \in Seq(Kinds) /\ Len(kinds) = 1 /\ kinds[1] = a
  BY DEF Kinds
<1>7. /\ y = [w EXCEPT !.replies = y.replies] /\ y \in ClientType
      /\ More(x.replies, y.replies, kinds, q, x.listens[q])
  <2> HIDE DEF kinds
  <2>1. LET z == Reply(w, kinds, q) IN
        /\ z = [w EXCEPT !.replies = z.replies] /\ z \in ClientType
        /\ More(w.replies, z.replies, kinds, q, w.listens[q])
    BY <1>5, <1>6, ReplyIs
  <2> QED  BY <1>5, <2>1 DEF kinds
<1> HIDE DEF y
<1>8. /\ y.target = w.target /\ y.stream = st /\ y.served = w.served
      /\ y.enabled = x.enabled /\ y.main = x.main /\ y.view = x.view
      /\ y.online = x.online /\ y.failed = x.failed /\ y.timer = x.timer
      /\ y.listens = x.listens /\ y.listeners = x.listeners
  BY <1>5, <1>7 DEF ClientType
<1>9. Targets(y) = Targets(x)
  BY <1>8 DEF Targets
<1>10. StreamOK(y) /\ IsOpen(y.stream) /\ ~y.stream.idle
  <2>1. /\ st.state = x.stream.state /\ st.ok = x.stream.ok /\ st.backoff = x.stream.backoff
        /\ st.asked = x.stream.asked /\ ~st.idle
    BY <1>1, <1>3 DEF StreamType
  <2> QED  BY <1>8, <2>1 DEF StreamOK, IsOpen
<1>11. DeniedOK(y)
  <2>1. \A p \in Queries : y.target[p].current = x.target[p].current
    BY <1>1, <1>2, <1>5, <1>8
  <2>2. \A p \in Queries : p \in denied => y.served[p] = NotServed
    BY <1>1, <1>5, <1>8 DEF WatchBut, DeniedOK
  <2>3. \A i \in 1..Len(kinds) : MayCome(q, kinds[i])
    BY <1>6
  <2> HIDE DEF kinds
  <2>4. DeniedOK(x)
    BY DEF WatchBut
  <2> QED  BY <1>1, <1>6, <1>7, <1>8, <2>1, <2>2, <2>3, <2>4, RepliesKept
<1>12. ASSUME NEW p \in Queries \ denied
       PROVE  TargetOK(y, p)
  <2>1. CASE p = q
    <3> DEFINE b == p \in Targets(x)
               l == x.listens[q]
               s == x.replies
    <3>1. a \in {"added", "removed"}
      BY <1>12, <2>1 DEF MayCome
    <3>2. x.target[q].out = Cardinality(AnswersOf(s, q)) /\ x.target[q] \in TargetType
      BY <1>1, <1>12, <2>1 DEF WatchBut
    <3>3. Agree(y.replies, q, t, v, l, b)
      <4>1. s \in Seq(ReplyType) /\ More(s, y.replies, <<a>>, q, l)
            /\ (v.listen # 0 => v.listen = l /\ b)
        BY <1>1, <1>7, <2>1
      <4> DEFINE u == x.target[q]
      <4>2. u \in TargetType /\ u.out = Cardinality(AnswersOf(s, q))
        BY <3>2
      <4> HIDE DEF b, l, s, u, kinds
      <4>3. Agree(y.replies, q, [u EXCEPT !.out = @ + 1], v, l, b)
        BY <3>1, <4>1, <4>2, MoreAnswer
      <4> QED  BY <4>3 DEF t, u
    <3>4. y.target[q] = t /\ y.served[q] = v
      BY <1>1, <1>5, <1>8
    <3> QED  BY <1>8, <1>9, <2>1, <3>3, <3>4 DEF TargetOK
  <2>2. CASE p # q
    <3> DEFINE b == p \in Targets(x)
               l == x.listens[p]
               k == x.listens[q]
               s == x.replies
               u == x.target[p]
               z == x.served[p]
    <3>1. Agree(s, p, u, z, l, b)
      BY <1>12, <2>2 DEF WatchBut, TargetOK
    <3>2. s \in Seq(ReplyType) /\ More(s, y.replies, kinds, q, k)
      BY <1>1, <1>7
    <3> HIDE DEF b, l, k, s, u, z, kinds
    <3>3. Agree(y.replies, p, u, z, l, b)
      BY <1>6, <2>2, <3>1, <3>2, MoreOther
    <3> USE DEF b, l, s, u, z
    <3>4. y.target[p] = u /\ y.served[p] = z
      BY <1>1, <1>5, <1>8, <2>2
    <3> QED  BY <1>8, <1>9, <3>3, <3>4 DEF TargetOK
  <2> QED  BY <2>1, <2>2
<1>13. WatchOK(y)
  <2>1. ViewOK(y) /\ ClosedOK(y)
    BY <1>8, <1>10 DEF WatchBut, ViewOK, ClosedOK, IsOpen
  <2> QED  BY <1>11, <1>12, <2>1 DEF WatchOK
<1>14. Goes(x, y)
  BY <1>7, <1>8, <1>9 DEF Goes
<1>15. Asked(x, q, v, a) = y
  BY DEF Asked, y, w
<1> QED  BY <1>10, <1>13, <1>14, <1>15
LEMMA GoesOn ==
  ASSUME NEW x, NEW y, NEW z, Goes(x, y), Goes(y, z)
  PROVE  Goes(x, z)
BY DEF Goes

LEMMA GoesRuns ==
  ASSUME NEW x \in ClientType, NEW y, Goes(x, y)
  PROVE  Runs(x, y)
BY RunsSame DEF Goes

\* The whole is the part, and the query in doubt besides.
LEMMA WatchOKBut ==
  ASSUME NEW x, WatchOK(x), NEW q \in Queries
  PROVE  WatchBut(x, q)
BY DEF WatchOK, WatchBut, TargetOK, Agree

LEMMA WatchButClosed ==
  ASSUME NEW x, NEW q, WatchBut(x, q), ~IsOpen(x.stream)
  PROVE  WatchOK(x)
BY DEF WatchOK, WatchBut

LEMMA SendWatchKeeps ==
  ASSUME NEW x \in ClientType, NEW q \in Targets(x), StreamOK(x), WatchBut(x, q), IsOpen(x.stream)
  PROVE  LET y == SendWatchRequest(x, q) IN
         Goes(x, y) /\ StreamOK(y) /\ WatchOK(y) /\ IsOpen(y.stream) /\ ~y.stream.idle
<1>1. q \in Queries /\ x.listens[q] \in Nat /\ x.served \in [Queries -> ServedType]
  BY Fields DEF Targets, ServedType
<1>2. CASE q \in denied
  <2>1. x.served[q] = NotServed
    BY <1>1, <1>2 DEF WatchBut, DeniedOK
  <2> DEFINE z == Send(x, q)
  <2>2. z.served[q] = NotServed /\ z.served \in [Queries -> ServedType] /\ z = [z EXCEPT !.served = z.served]
    BY <1>1, <2>1 DEF Send, ClientType
  <2> HIDE DEF z
  <2>3. [z.served EXCEPT ![q] = NotServed] = z.served
    BY <2>2
  <2>4. [z EXCEPT !.served[q] = NotServed] = z
    BY <2>2, <2>3
  <2>5. SendWatchRequest(x, q) = Asked(x, q, NotServed, "rejected")
    BY <1>2, <2>4 DEF SendWatchRequest, Asked, z
  <2>6. NotServed \in ServedType /\ ~NotServed.current /\ NotServed.listen = 0
        /\ MayCome(q, "rejected") /\ "rejected" \in {"added", "removed", "rejected"}
    BY <1>2 DEF NotServed, ServedType, MayCome
  <2>7. LET y == Asked(x, q, NotServed, "rejected") IN
        Goes(x, y) /\ StreamOK(y) /\ WatchOK(y) /\ IsOpen(y.stream) /\ ~y.stream.idle
    BY <1>1, <2>6, AskedKeeps
  <2> QED  BY <2>5, <2>7
<1>3. CASE q \notin denied
  <2> DEFINE v == [listen |-> x.listens[q], current |-> FALSE]
  <2>1. SendWatchRequest(x, q) = Asked(x, q, v, "added")
    BY <1>3 DEF SendWatchRequest, Asked, Send, ClientType
  <2>2. v \in ServedType /\ ~v.current /\ v.listen = x.listens[q]
        /\ MayCome(q, "added") /\ "added" \in {"added", "removed", "rejected"}
    BY <1>1, <1>3 DEF ServedType, MayCome
  <2> HIDE DEF v
  <2>3. LET y == Asked(x, q, v, "added") IN
        Goes(x, y) /\ StreamOK(y) /\ WatchOK(y) /\ IsOpen(y.stream) /\ ~y.stream.idle
    BY <1>1, <1>3, <2>2, AskedKeeps
  <2> QED  BY <2>1, <2>3
<1> QED  BY <1>2, <1>3

LEMMA SendUnwatchKeeps ==
  ASSUME NEW x \in ClientType, NEW q \in Queries, StreamOK(x), WatchBut(x, q), IsOpen(x.stream)
  PROVE  LET y == SendUnwatchRequest(x, q) IN
         Goes(x, y) /\ StreamOK(y) /\ WatchOK(y) /\ IsOpen(y.stream) /\ ~y.stream.idle
<1>1. SendUnwatchRequest(x, q) = Asked(x, q, NotServed, "removed")
  BY DEF SendUnwatchRequest, Asked
<1>2. NotServed \in ServedType /\ ~NotServed.current /\ NotServed.listen = 0
      /\ MayCome(q, "removed") /\ "removed" \in {"added", "removed", "rejected"}
  BY DEF NotServed, ServedType, MayCome
<1>3. LET y == Asked(x, q, NotServed, "removed") IN
      Goes(x, y) /\ StreamOK(y) /\ WatchOK(y) /\ IsOpen(y.stream) /\ ~y.stream.idle
  BY <1>2, AskedKeeps
<1> QED  BY <1>1, <1>3

\* All the targets are sent when the stream opens.
LEMMA SendAllKeeps ==
  ASSUME NEW x \in ClientType, StreamOK(x), IdleOK(x), WatchOK(x), IsOpen(x.stream)
  PROVE  LET y == SendAll(x) IN
         Goes(x, y) /\ StreamOK(y) /\ IdleOK(y) /\ WatchOK(y) /\ IsOpen(y.stream)
<1> DEFINE X == {y \in ClientType : /\ Goes(x, y) /\ StreamOK(y) /\ IdleOK(y) /\ WatchOK(y)
                                    /\ IsOpen(y.stream)}
           Op(y, q) == SendWatchRequest(y, q)
<1>1. Targets(x) \in SUBSET Queries
  BY DEF Targets
<1>2. x \in X
  BY DEF Goes
<1>3. ASSUME NEW y \in X, NEW q \in Targets(x)
      PROVE  Op(y, q) \in X
  <2> DEFINE z == SendWatchRequest(y, q)
  <2>1. y \in ClientType /\ Goes(x, y) /\ StreamOK(y) /\ WatchOK(y) /\ IsOpen(y.stream)
    OBVIOUS
  <2>2. q \in Queries /\ q \in Targets(y)
    BY <1>1, <2>1 DEF Goes
  <2>3. WatchBut(y, q)
    BY <2>1, <2>2, WatchOKBut
  <2>4. Goes(y, z) /\ StreamOK(z) /\ WatchOK(z) /\ IsOpen(z.stream) /\ ~z.stream.idle
    BY <2>1, <2>2, <2>3, SendWatchKeeps
  <2> HIDE DEF z
  <2>5. Goes(x, z) /\ z \in ClientType
    BY <2>1, <2>4, GoesOn DEF Goes
  <2>6. z \in X
    BY <2>4, <2>5 DEF IdleOK
  <2> HIDE DEF X
  <2> QED  BY <2>6 DEF z
<1> HIDE DEF Op
<1> DEFINE s == SetToSeq(Targets(x))
           n == Len(s)
           f == [p \in X \X (1..n) |-> Op(p[1], s[p[2]])]
           Eq(G) == G = [t \in SUBSET DOMAIN s |->
                           IF t = {} THEN x
                           ELSE Op(G[t \ {Max(t)}], s[Max(t)])]
           Fold == CHOOSE G : Eq(G)
<1>4. n \in Nat /\ DOMAIN s = 1..n /\ \A i \in 1..n : s[i] \in Targets(x)
  <2>1. s \in Seq(Targets(x)) /\ \A i \in 1..n : s[i] \in Targets(x)
    BY <1>1, SetToSeqOf
  <2> HIDE DEF s
  <2> QED  BY <2>1
<1> HIDE DEF s
<1>5. f \in [X \X (1..n) -> X]
  <2> HIDE DEF X, n
  <2> QED  BY <1>4, <1>3
<1>6. PICK F \in [SUBSET (1..n) -> X] : IsFold(F, x, f, n)
  <2> HIDE DEF f, n, X
  <2> QED  BY <1>2, <1>4, <1>5, FoldExists
<1>7. Eq(F)
  <2>1. ASSUME NEW t \in SUBSET (1..n), t # {}
        PROVE  f[<<F[t \ {Max(t)}], Max(t)>>] = Op(F[t \ {Max(t)}], s[Max(t)])
    <3>1. Max(t) \in 1..n
      BY <1>4, <2>1, MaxIsIn
    <3>2. F[t \ {Max(t)}] \in X
      <4> HIDE DEF X
      <4> QED  BY <1>6
    <3> HIDE DEF X
    <3> QED  BY <3>1, <3>2
  <2> HIDE DEF f, n, X
  <2> QED  BY <1>4, <1>6, <2>1 DEF IsFold
<1>8. Eq(Fold)
  <2> HIDE DEF Eq
  <2> QED  BY <1>7
<1>9. SendAll(x) = Fold[1..n]
  <2>1. SendAll(x) = Fold[DOMAIN s]
    BY DEF SendAll, FoldLeft, MapThenFoldSet, s, Op
  <2> HIDE DEF Fold, n
  <2> QED  BY <1>4, <2>1
<1>10. Fold[1..0] = x
  <2>1. 1..0 = {}
    OBVIOUS
  <2> HIDE DEF Fold, n
  <2> QED  BY <1>4, <1>8, <2>1
<1>11. ASSUME NEW i \in 1..n, Fold[1..(i - 1)] \in X
      PROVE  Fold[1..i] \in X
  <2>1. /\ 1..i \in SUBSET (1..n) /\ 1..i # {}
        /\ Max(1..i) = i /\ (1..i) \ {i} = 1..(i - 1)
    BY <1>4, PrefixOf
  <2>2. Fold[1..i] = Op(Fold[1..(i - 1)], s[i])
    <3> HIDE DEF Fold, n
    <3> QED  BY <1>4, <1>8, <2>1
  <2> HIDE DEF Fold, X, n
  <2> QED  BY <1>4, <1>11, <1>3, <2>2
<1>12. Fold[1..n] \in X
  <2> DEFINE Y == [i \in 0..n |-> X]
  <2>1. 0 \in 0..n /\ n \in 0..n /\ \A i \in 1..n : i \in 0..n /\ i - 1 \in 0..n
    BY <1>4
  <2>2. Fold[1..0] \in Y[0]
    <3> HIDE DEF Fold, X, n
    <3> QED  BY <1>2, <1>10, <2>1
  <2>3. \A i \in 1..n : Fold[1..(i - 1)] \in Y[i - 1] => Fold[1..i] \in Y[i]
    <3> HIDE DEF Fold, X, n
    <3> QED  BY <1>11, <2>1
  <2>4. Fold[1..n] \in Y[n]
    <3> HIDE DEF Fold, Y, n
    <3> QED  BY <1>4, <2>2, <2>3, FoldStays
  <2> HIDE DEF Fold, X, n
  <2> QED  BY <2>1, <2>4
<1> HIDE DEF Fold
<1> QED  BY <1>9, <1>12
-----------------------------------------------------------------------------
(* The network is enabled and disabled.                                      *)

\* A record of the client that differs from a good one in its stream and in
\* whether the network is enabled, the stream being started in neither.
LEMMA StillGood ==
  ASSUME NEW x, Good(x), NEW y \in ClientType,
         y.stream = x.stream \/ (/\ ~IsStarted(x.stream) /\ ~IsStarted(y.stream) /\ y.stream.ok
                                 /\ ~y.stream.backoff /\ y.stream.asked = {} /\ ~y.stream.idle),
         y.main = x.main, y.listens = x.listens, y.listeners = x.listeners, y.view = x.view,
         y.online = x.online, y.failed = x.failed, y.timer = x.timer,
         y.replies = x.replies, y.served = x.served, y.target = x.target
  PROVE  Good(y) /\ Runs(x, y) /\ Targets(y) = Targets(x)
<1>1. x \in ClientType /\ StreamOK(x) /\ IdleOK(x) /\ WatchOK(x) /\ TimerOK(x)
  BY DEF Good, Sound
<1>2. Runs(x, y) /\ Targets(y) = Targets(x)
  BY <1>1, RunsSame
<1>3. IsOpen(y.stream) <=> IsOpen(x.stream)
  BY DEF IsOpen, IsStarted
<1>4. y.stream.state \in {"Starting", "Backoff"} <=> x.stream.state \in {"Starting", "Backoff"}
  BY DEF IsStarted
<1>5. StreamOK(y) /\ IdleOK(y) /\ TimerOK(y)
  BY <1>1, <1>2 DEF StreamOK, IdleOK, TimerOK
<1>6. ViewOK(y) /\ DeniedOK(y) /\ ClosedOK(y)
  BY <1>1, <1>3, <1>4 DEF WatchOK, ViewOK, DeniedOK, ClosedOK
<1>7. \A q \in Queries : TargetOK(x, q) => TargetOK(y, q)
  BY <1>2 DEF TargetOK
<1> QED  BY <1>1, <1>2, <1>3, <1>5, <1>6, <1>7 DEF Good, Sound, WatchOK

LEMMA EnableKeeps ==
  ASSUME NEW x, Good(x)
  PROVE  Runs(x, EnableNetwork(x)) /\ Good(EnableNetwork(x))
<1> DEFINE w == [x EXCEPT !.enabled = TRUE]
<1>1. x \in ClientType
  BY DEF Good, Sound
<1>2. /\ w \in ClientType /\ w.stream = x.stream /\ w.main = x.main /\ w.listens = x.listens
      /\ w.listeners = x.listeners /\ w.view = x.view /\ w.online = x.online
      /\ w.failed = x.failed /\ w.timer = x.timer /\ w.replies = x.replies
      /\ w.served = x.served /\ w.target = x.target
  BY <1>1 DEF ClientType
<1> HIDE DEF w
<1>3. Good(w) /\ Runs(x, w)
  BY <1>2, StillGood
<1>4. CASE ShouldStartWatchStream(w)
  <2> DEFINE y == StartWatchStream(w)
  <2>1. ~IsStarted(w.stream) /\ ~w.timer /\ Sound(w)
    BY <1>3, <1>4 DEF ShouldStartWatchStream, Good, TimerOK
  <2>2. Runs(w, y) /\ Good(y)
    BY <2>1, StartKeeps
  <2>3. EnableNetwork(x) = y
    BY <1>4 DEF EnableNetwork, w
  <2> HIDE DEF y
  <2> QED  BY <1>1, <1>3, <2>2, <2>3, RunsOn
<1>5. CASE ~ShouldStartWatchStream(w)
  <2> DEFINE y == UpdateState(w, "Unknown")
  <2>1. Runs(w, y) /\ Good(y)
    BY <1>3, UpdateKeeps DEF Good, OnlineStates
  <2>2. EnableNetwork(x) = y
    BY <1>5 DEF EnableNetwork, w
  <2> HIDE DEF y
  <2> QED  BY <1>1, <1>3, <2>1, <2>2, RunsOn
<1> QED  BY <1>4, <1>5

LEMMA DisableInternalKeeps ==
  ASSUME NEW x, Good(x)
  PROVE  LET y == DisableNetworkInternal(x) IN
         Runs(x, y) /\ Good(y) /\ ~IsStarted(y.stream)
<1> DEFINE w == [x EXCEPT !.enabled = FALSE]
           y == Stop(w)
<1>1. x \in ClientType
  BY DEF Good, Sound
<1>2. /\ w \in ClientType /\ w.stream = x.stream /\ w.main = x.main /\ w.listens = x.listens
      /\ w.listeners = x.listeners /\ w.view = x.view /\ w.online = x.online
      /\ w.failed = x.failed /\ w.timer = x.timer /\ w.replies = x.replies
      /\ w.served = x.served /\ w.target = x.target /\ ~w.enabled
  BY <1>1 DEF ClientType
<1> HIDE DEF w
<1>3. Good(w) /\ Runs(x, w)
  BY <1>2, StillGood
<1>4. Runs(w, y) /\ Good(y) /\ ~IsStarted(y.stream)
  BY <1>2, <1>3, StopKeeps DEF Good
<1>5. DisableNetworkInternal(x) = y
  BY DEF DisableNetworkInternal, w
<1> HIDE DEF y
<1> QED  BY <1>1, <1>3, <1>4, <1>5, RunsOn

LEMMA DisableKeeps ==
  ASSUME NEW x, Good(x)
  PROVE  Runs(x, DisableNetwork(x)) /\ Good(DisableNetwork(x))
<1> DEFINE w == DisableNetworkInternal(x)
           y == UpdateState(w, "Offline")
<1>1. Runs(x, w) /\ Good(w)
  BY DisableInternalKeeps
<1> HIDE DEF w
<1>2. Runs(w, y) /\ Good(y)
  BY <1>1, UpdateKeeps DEF Good, OnlineStates
<1>3. DisableNetwork(x) = y
  BY DEF DisableNetwork, w
<1> HIDE DEF y
<1> QED  BY <1>1, <1>2, <1>3, RunsOn DEF Good, Sound

LEMMA RestartKeeps ==
  ASSUME NEW x, Good(x)
  PROVE  Runs(x, RestartNetwork(x)) /\ Good(RestartNetwork(x))
<1> DEFINE w == DisableNetworkInternal(x)
           u == UpdateState(w, "Unknown")
           t == InhibitBackoff(u.stream)
           z == [u EXCEPT !.stream = t]
           y == EnableNetwork(z)
<1>1. Runs(x, w) /\ Good(w) /\ ~IsStarted(w.stream)
  BY DisableInternalKeeps
<1> HIDE DEF w
<1>2. Runs(w, u) /\ Good(u) /\ u.stream = w.stream
  BY <1>1, UpdateKeeps DEF Good, OnlineStates
<1>3. RestartNetwork(x) = y
  BY DEF RestartNetwork, u, w
<1> HIDE DEF u
<1>4. u \in ClientType /\ StreamOK(u) /\ u.stream \in StreamType /\ ~IsStarted(u.stream)
  BY <1>1, <1>2, Fields DEF Good, Sound
<1>5. /\ t \in StreamType /\ t.state = "Initial" /\ t.ok /\ ~t.backoff /\ t.asked = {} /\ ~t.idle
  <2>1. HardAssert(u.stream, ~IsStarted(u.stream)) = u.stream
    BY <1>4 DEF HardAssert, StreamType, StreamOK
  <2>2. t = [u.stream EXCEPT !.state = "Initial"]
    BY <2>1 DEF InhibitBackoff
  <2> HIDE DEF t
  <2>3. ~u.stream.backoff /\ u.stream.asked = {} /\ ~u.stream.idle /\ u.stream.ok
    BY <1>4 DEF StreamOK, IsStarted, IsOpen
  <2> QED  BY <1>4, <2>2, <2>3 DEF StreamType
<1> HIDE DEF t
<1>6. /\ z \in ClientType /\ z.stream = t /\ z.main = u.main /\ z.listens = u.listens
      /\ z.listeners = u.listeners /\ z.view = u.view /\ z.online = u.online
      /\ z.failed = u.failed /\ z.timer = u.timer /\ z.replies = u.replies
      /\ z.served = u.served /\ z.target = u.target
  BY <1>4, <1>5 DEF ClientType
<1> HIDE DEF z
<1>7. Good(z) /\ Runs(u, z)
  <2>1. ~IsStarted(z.stream)
    BY <1>5, <1>6 DEF IsStarted
  <2> QED  BY <1>2, <1>4, <1>5, <1>6, <2>1, StillGood
<1>8. Runs(z, y) /\ Good(y)
  BY <1>7, EnableKeeps
<1> HIDE DEF y
<1>9. x \in ClientType
  BY DEF Good, Sound
<1>10. Runs(x, u)
  BY <1>1, <1>2, <1>9, RunsOn
<1>11. Runs(x, z)
  BY <1>7, <1>9, <1>10, RunsOn
<1> QED  BY <1>3, <1>8, <1>9, <1>11, RunsOn
-----------------------------------------------------------------------------
(* A listener comes or goes.                                                 *)

\* New events are no errors and are for gets that listen afterwards.
Grown(x, y) ==
    /\ Len(x.main) <= Len(y.main)
    /\ \A i \in 1..Len(x.main) : y.main[i] = x.main[i]
    /\ \A i \in (Len(x.main) + 1)..Len(y.main) :
          y.main[i].what # "error" /\ Listening(y, y.main[i].g)

LEMMA RunsGrown ==
  ASSUME NEW x, NEW w, NEW y, Runs(w, y), w.main = x.main
  PROVE  Grown(x, y)
BY DEF Runs, MainGrows, Grown, Listening

LEMMA TellsKeepsBut ==
  ASSUME NEW x \in ClientType, NEW y, Tells(x, y), NEW q, WatchBut(x, q)
  PROVE  WatchBut(y, q)
<1>1. /\ y.stream = x.stream /\ y.replies = x.replies /\ y.served = x.served
      /\ y.target = x.target /\ y.listens = x.listens /\ Targets(y) = Targets(x)
      /\ \A p \in Queries : y.view[p] \in {0, x.view[p]}
  BY DEF Tells, Same, Targets
<1>2. \A p \in Queries : TargetOK(x, p) => TargetOK(y, p)
  BY <1>1 DEF TargetOK
<1>3. DeniedOK(y) /\ ViewOK(y) /\ ClosedOK(y)
  BY <1>1 DEF WatchBut, DeniedOK, ViewOK, ClosedOK
<1> QED  BY <1>1, <1>2, <1>3 DEF WatchBut

\* The state between a change of q's listeners and the request that goes with it.
LEMMA HalfWay ==
  ASSUME NEW x, Good(x), NEW q \in Queries, NEW y \in ClientType,
         y.stream = x.stream, y.replies = x.replies, y.served = x.served, y.target = x.target,
         y.online = x.online, y.failed = x.failed, y.timer = x.timer,
         y.view = [x.view EXCEPT ![q] = 0],
         \A p \in Queries : p # q => y.listens[p] = x.listens[p] /\ y.listeners[p] = x.listeners[p]
  PROVE  StreamOK(y) /\ TimerOK(y) /\ WatchBut(y, q)
<1>1. x \in ClientType /\ StreamOK(x) /\ WatchOK(x) /\ TimerOK(x)
  BY DEF Good, Sound
<1>2. StreamOK(y) /\ TimerOK(y)
  BY <1>1 DEF StreamOK, TimerOK
<1>3. x.view \in [Queries -> Nat]
  BY <1>1, Fields
<1>4. ViewOK(y) /\ DeniedOK(y) /\ ClosedOK(y)
  BY <1>1, <1>3 DEF WatchOK, ViewOK, DeniedOK, ClosedOK
<1>5. WatchBut(x, q)
  BY <1>1, WatchOKBut
<1>6. ASSUME NEW p \in Queries, p # q
      PROVE  TargetOK(x, p) => TargetOK(y, p)
  <2>1. p \in Targets(y) <=> p \in Targets(x)
    BY <1>6 DEF Targets
  <2> DEFINE b == p \in Targets(x)
             d == p \in Targets(y)
  <2>2. b \in BOOLEAN /\ d \in BOOLEAN /\ b = d
    BY <2>1
  <2> HIDE DEF b, d
  <2>3. Agree(x.replies, p, x.target[p], x.served[p], x.listens[p], b)
          => Agree(y.replies, p, y.target[p], y.served[p], y.listens[p], d)
    BY <1>6, <2>2
  <2> QED  BY <2>3 DEF TargetOK, b, d
<1> QED  BY <1>2, <1>4, <1>5, <1>6 DEF WatchBut

LEMMA SendListenKeeps ==
  ASSUME NEW x \in ClientType, NEW q \in Targets(x), StreamOK(x), TimerOK(x), WatchBut(x, q)
  PROVE  Runs(x, SendListen(x, q)) /\ Good(SendListen(x, q))
<1>1. q \in Queries
  BY DEF Targets
<1>2. CASE ShouldStartWatchStream(x)
  <2>1. ~IsStarted(x.stream) /\ ~IsOpen(x.stream) /\ ~x.timer
    BY <1>2 DEF ShouldStartWatchStream, IsStarted, IsOpen, TimerOK
  <2>2. Sound(x)
    BY <2>1, WatchButClosed DEF Sound, StreamOK, IdleOK
  <2>3. Runs(x, StartWatchStream(x)) /\ Good(StartWatchStream(x))
    BY <2>1, <2>2, StartKeeps
  <2>4. SendListen(x, q) = StartWatchStream(x)
    BY <1>2 DEF SendListen
  <2> QED  BY <2>3, <2>4
<1>3. CASE ~ShouldStartWatchStream(x) /\ IsOpen(x.stream)
  <2> DEFINE y == SendWatchRequest(x, q)
  <2>1. SendListen(x, q) = y
    BY <1>3 DEF SendListen
  <2>2. Goes(x, y) /\ StreamOK(y) /\ WatchOK(y) /\ IsOpen(y.stream) /\ ~y.stream.idle
    BY <1>3, SendWatchKeeps
  <2> HIDE DEF y
  <2>3. Runs(x, y)
    BY <2>2, GoesRuns
  <2>4. TimerOK(y) /\ IdleOK(y) /\ y \in ClientType
    BY <2>2 DEF Goes, TimerOK, IdleOK, IsStarted, IsOpen
  <2> QED  BY <2>1, <2>2, <2>3, <2>4 DEF Good, Sound
<1>4. CASE ~ShouldStartWatchStream(x) /\ ~IsOpen(x.stream)
  <2>1. SendListen(x, q) = x
    BY <1>4 DEF SendListen
  <2>2. Good(x)
    BY <1>4, WatchButClosed DEF Good, Sound, StreamOK, IdleOK
  <2> QED  BY <2>1, <2>2, RunsSame
<1> QED  BY <1>2, <1>3, <1>4

LEMMA AddKeeps ==
  ASSUME NEW x, Good(x), NEW g \in Gets, NEW q \in Queries
  PROVE  LET y == AddQueryListener(x, g, q) IN
         /\ Good(y) /\ Grown(x, y)
         /\ y.listeners = [x.listeners EXCEPT ![q] = Append(@, g)]
<1>1. x \in ClientType
  BY DEF Good, Sound
<1>2. /\ x.listeners \in [Queries -> Seq(Gets)] /\ x.listeners[q] \in Seq(Gets)
      /\ x.listens \in [Queries -> Nat] /\ x.view \in [Queries -> Nat]
  BY <1>1, Fields
<1> DEFINE a == Append(x.listeners[q], g)
           ls == [x.listeners EXCEPT ![q] = a]
           one == <<g>>
<1>3. /\ a \in Seq(Gets) /\ a # <<>> /\ Len(a) = Len(x.listeners[q]) + 1
      /\ a[Len(x.listeners[q]) + 1] = g /\ Len(x.listeners[q]) \in Nat
  BY <1>2, AppendProperties, LenProperties
<1>4. one \in Seq(Gets) /\ Len(one) = 1 /\ one[1] = g
  OBVIOUS
<1>5. x.listeners[q] = <<>> => a = one
  BY <1>2
<1> HIDE DEF a, one
<1>6. ls \in [Queries -> Seq(Gets)] /\ ls[q] = a /\ \A p \in Queries : p # q => ls[p] = x.listeners[p]
  BY <1>2, <1>3
<1>7. \A z : z.listeners = ls => /\ \A i \in 1..Len(one) : Listening(z, one[i])
                                 /\ q \in Targets(z)
  <2>1. Len(x.listeners[q]) + 1 \in 1..Len(a)
    BY <1>3
  <2>2. \A i \in 1..Len(one) : one[i] = g
    BY <1>4
  <2> HIDE DEF ls
  <2> QED  BY <1>3, <1>6, <2>1, <2>2 DEF Listening, Targets
<1> HIDE DEF ls
<1>8. CASE x.listeners[q] = <<>>
  <2> DEFINE fresh == [x EXCEPT !.listens[q] = @ + 1, !.view[q] = 0, !.listeners[q] = one]
             r == Raise(fresh, q, one, x.online)
             y == SendListen(r, q)
             n == [x.listens EXCEPT ![q] = x.listens[q] + 1]
             v == [x.view EXCEPT ![q] = 0]
  <2>1. n \in [Queries -> Nat] /\ v \in [Queries -> Nat]
        /\ \A p \in Queries : p # q => n[p] = x.listens[p]
    BY <1>2
  <2>2. fresh = [x EXCEPT !.listens = n, !.view = v, !.listeners = ls]
    BY <1>1, <1>2, <1>5, <1>8 DEF ClientType, ls
  <2> HIDE DEF fresh, n
  <2>3. /\ fresh \in ClientType /\ fresh.listens = n /\ fresh.view = v /\ fresh.listeners = ls
        /\ fresh.main = x.main /\ fresh.stream = x.stream /\ fresh.replies = x.replies
        /\ fresh.served = x.served /\ fresh.target = x.target /\ fresh.online = x.online
        /\ fresh.failed = x.failed /\ fresh.timer = x.timer
    <3> HIDE DEF v
    <3> QED  BY <1>1, <1>6, <2>1, <2>2 DEF ClientType
  <2>4. StreamOK(fresh) /\ TimerOK(fresh) /\ WatchBut(fresh, q)
    BY <1>6, <2>1, <2>3, HalfWay
  <2>5. Tells(fresh, r) /\ r.online = fresh.online /\ r.failed = fresh.failed /\ r.timer = fresh.timer
    BY <1>4, <1>7, <2>3, RaiseTells
  <2>6. r \in ClientType /\ r.stream = fresh.stream /\ r.listeners = ls /\ Runs(fresh, r)
    BY <2>3, <2>5, TellsRuns DEF Tells, Same
  <2> HIDE DEF r
  <2>7. StreamOK(r) /\ TimerOK(r) /\ WatchBut(r, q)
    BY <2>3, <2>4, <2>5, <2>6, TellsKeepsBut DEF StreamOK, TimerOK
  <2>8. Runs(r, y) /\ Good(y)
    BY <1>7, <2>6, <2>7, SendListenKeeps
  <2>9. AddQueryListener(x, g, q) = y
    BY <1>8 DEF AddQueryListener, Listen, y, r, fresh, one
  <2> HIDE DEF y
  <2>10. Runs(fresh, y)
    BY <2>3, <2>6, <2>8, RunsOn
  <2>11. Grown(x, y) /\ y.listeners = ls
    BY <2>3, <2>10, RunsGrown DEF Runs
  <2> QED  BY <2>8, <2>9, <2>11 DEF ls, a
<1>9. CASE x.listeners[q] # <<>>
  <2> DEFINE w == [x EXCEPT !.listeners[q] = Append(@, g)]
             y == Raise(w, q, one, x.online)
  <2>1. w = [x EXCEPT !.listeners = ls]
    BY <1>1 DEF ls, a, ClientType
  <2> HIDE DEF w
  <2>2. /\ w \in ClientType /\ w.listens = x.listens /\ w.view = x.view /\ w.listeners = ls
        /\ w.main = x.main /\ w.stream = x.stream /\ w.replies = x.replies
        /\ w.served = x.served /\ w.target = x.target /\ w.online = x.online
        /\ w.failed = x.failed /\ w.timer = x.timer
    BY <1>1, <1>6, <2>1 DEF ClientType
  <2>3. Targets(w) = Targets(x)
    BY <1>3, <1>6, <1>9, <2>2 DEF Targets
  <2>4. StreamOK(x) /\ IdleOK(x) /\ WatchOK(x) /\ TimerOK(x)
    BY DEF Good, Sound
  <2>5. WatchOK(w)
    <3>1. ViewOK(w) /\ DeniedOK(w) /\ ClosedOK(w)
      BY <2>2, <2>4 DEF WatchOK, ViewOK, DeniedOK, ClosedOK
    <3>2. \A p \in Queries : TargetOK(x, p) => TargetOK(w, p)
      BY <2>2, <2>3 DEF TargetOK
    <3> QED  BY <2>2, <2>4, <3>1, <3>2 DEF WatchOK
  <2>6. Tells(w, y) /\ y.online = w.online /\ y.failed = w.failed /\ y.timer = w.timer
    BY <1>4, <1>7, <2>2, RaiseTells
  <2>7. AddQueryListener(x, g, q) = y
    BY <1>9 DEF AddQueryListener, y, w, one
  <2> HIDE DEF y
  <2>8. Runs(w, y) /\ y.stream = w.stream /\ Targets(y) = Targets(w)
    BY <2>6, TellsRuns
  <2>9. Grown(x, y) /\ y.listeners = ls
    BY <2>2, <2>8, RunsGrown DEF Runs
  <2>10. WatchOK(y)
    BY <2>2, <2>5, <2>6, TellsKeeps
  <2>11. Good(y)
    BY <2>2, <2>3, <2>4, <2>6, <2>8, <2>10 DEF Good, Sound, StreamOK, IdleOK, TimerOK, Tells
  <2> QED  BY <2>7, <2>9, <2>11 DEF ls, a
<1> QED  BY <1>8, <1>9
LEMMA StopListeningKeeps ==
  ASSUME NEW x \in ClientType, NEW q \in Queries, StreamOK(x), IdleOK(x), TimerOK(x), WatchBut(x, q)
  PROVE  Runs(x, StopListening(x, q)) /\ Good(StopListening(x, q))
<1>1. CASE IsOpen(x.stream)
  <2> DEFINE w == SendUnwatchRequest(x, q)
  <2>1. Goes(x, w) /\ StreamOK(w) /\ WatchOK(w) /\ IsOpen(w.stream) /\ ~w.stream.idle
    BY <1>1, SendUnwatchKeeps
  <2>2. StopListening(x, q) = IF Targets(x) # {} THEN w ELSE [w EXCEPT !.stream = MarkIdle(@)]
    BY <1>1 DEF StopListening
  <2> HIDE DEF w
  <2>3. w \in ClientType /\ TimerOK(w) /\ IdleOK(w) /\ Runs(x, w)
    BY <2>1, GoesRuns DEF Goes, TimerOK, IdleOK, IsStarted, IsOpen
  <2>4. CASE Targets(x) # {}
    BY <2>1, <2>2, <2>3, <2>4 DEF Good, Sound
  <2>5. CASE Targets(x) = {}
    <3> DEFINE t == MarkIdle(w.stream)
               y == [w EXCEPT !.stream = t]
    <3>1. w.stream \in StreamType
      BY <2>3, Fields
    <3>2. t = [w.stream EXCEPT !.idle = TRUE]
      BY <2>1, <3>1 DEF MarkIdle, StreamType
    <3> HIDE DEF t
    <3>3. /\ t \in StreamType /\ t.state = w.stream.state /\ t.backoff = w.stream.backoff
          /\ t.asked = w.stream.asked /\ t.ok = w.stream.ok
      BY <3>1, <3>2 DEF StreamType
    <3>4. /\ y \in ClientType /\ y.stream = t /\ y.main = w.main /\ y.listens = w.listens
          /\ y.listeners = w.listeners /\ y.view = w.view /\ y.online = w.online
          /\ y.failed = w.failed /\ y.timer = w.timer /\ y.replies = w.replies
          /\ y.served = w.served /\ y.target = w.target
      BY <2>3, <3>3 DEF ClientType
    <3>5. StopListening(x, q) = y
      BY <2>2, <2>5 DEF t
    <3> HIDE DEF y
    <3>6. Runs(w, y) /\ Targets(y) = Targets(w)
      BY <2>3, <3>4, RunsSame
    <3>7. Runs(x, y)
      BY <2>3, <3>6, RunsOn
    <3>8. StreamOK(y) /\ IdleOK(y) /\ TimerOK(y)
      BY <2>1, <2>3, <2>5, <3>3, <3>4, <3>6 DEF StreamOK, IdleOK, TimerOK, IsOpen, IsStarted, Goes
    <3>9. ViewOK(y) /\ DeniedOK(y) /\ ClosedOK(y)
      BY <2>1, <3>3, <3>4 DEF WatchOK, ViewOK, DeniedOK, ClosedOK, IsOpen
    <3>10. \A p \in Queries : TargetOK(w, p) => TargetOK(y, p)
      BY <3>4, <3>6 DEF TargetOK
    <3>11. WatchOK(y)
      BY <2>1, <3>3, <3>4, <3>9, <3>10 DEF WatchOK, IsOpen
    <3> QED  BY <3>4, <3>5, <3>7, <3>8, <3>11 DEF Good, Sound
  <2> QED  BY <2>4, <2>5
<1>2. CASE ~IsOpen(x.stream)
  <2>1. Good(x)
    BY <1>2, WatchButClosed DEF Good, Sound
  <2>2. StopListening(x, q) =
           IF Targets(x) = {} /\ x.enabled THEN UpdateState(x, "Unknown") ELSE x
    BY <1>2 DEF StopListening
  <2>3. CASE Targets(x) = {} /\ x.enabled
    <3> DEFINE y == UpdateState(x, "Unknown")
    <3>1. Runs(x, y) /\ Good(y)
      BY <2>1, UpdateKeeps DEF Good, OnlineStates
    <3>2. StopListening(x, q) = y
      BY <2>2, <2>3
    <3> HIDE DEF y
    <3> QED  BY <3>1, <3>2
  <2>4. CASE ~(Targets(x) = {} /\ x.enabled)
    <3>1. StopListening(x, q) = x
      BY <2>2, <2>4
    <3> QED  BY <2>1, <3>1, RunsSame
  <2> QED  BY <2>3, <2>4
<1> QED  BY <1>1, <1>2

\* Who listens to a query listens once.
Once(s) == \A i, j \in 1..Len(s) : s[i] = s[j] => i = j

\* The listeners left are those before but g.
Leaves(x, y, g, q) ==
    /\ y.listeners \in [Queries -> Seq(Gets)]
    /\ \A p \in Queries : p # q => y.listeners[p] = x.listeners[p]
    /\ \A i \in 1..Len(y.listeners[q]) : \E j \in 1..Len(x.listeners[q]) :
          y.listeners[q][i] = x.listeners[q][j]
    /\ Once(x.listeners[q]) => Once(y.listeners[q])

LEMMA RemoveKeeps ==
  ASSUME NEW x, Good(x), NEW g \in Gets, NEW q \in Queries, Once(x.listeners[q])
  PROVE  LET y == RemoveQueryListener(x, g, q) IN
         Good(y) /\ Grown(x, y) /\ Leaves(x, y, g, q)
<1> DEFINE s == x.listeners[q]
           keep == Gets \ {g}
           a == Those(s, keep)
           ls == [x.listeners EXCEPT ![q] = a]
           one == <<g>>
           v == IF s = one THEN [x.view EXCEPT ![q] = 0] ELSE x.view
           w == [x EXCEPT !.listeners = ls, !.view = v]
           y == IF s = one THEN StopListening(w, q) ELSE w
<1>1. x \in ClientType /\ StreamOK(x) /\ IdleOK(x) /\ WatchOK(x) /\ TimerOK(x)
  BY DEF Good, Sound
<1>2. /\ x.listeners \in [Queries -> Seq(Gets)] /\ s \in Seq(Gets) /\ Len(s) \in Nat
      /\ x.view \in [Queries -> Nat] /\ \A i \in 1..Len(s) : s[i] \in Gets
  BY <1>1, Fields
<1>3. Sifted(a, s, keep, Len(s))
  <2> HIDE DEF s, keep
  <2> QED  BY <1>2, ThoseAre
<1>4. /\ a \in Seq(Gets) /\ Len(a) \in Nat
      /\ \A i \in 1..Len(a) : a[i] # g /\ \E j \in 1..Len(s) : a[i] = s[j]
      /\ \A j \in 1..Len(s) : s[j] # g => \E i \in 1..Len(a) : a[i] = s[j]
      /\ Once(s) => Once(a)
  <2>1. a \in Seq(Gets)
    BY <1>3 DEF Sifted
  <2>2. Len(a) \in Nat
    <3> HIDE DEF a
    <3> QED  BY <2>1, LenProperties
  <2> HIDE DEF a, s
  <2> QED  BY <1>2, <1>3, <2>1, <2>2 DEF Sifted, Once
<1>5. RemoveQueryListener(x, g, q) = y
  BY <1>1, <1>2 DEF RemoveQueryListener, ClientType
<1>6. s = one => Len(s) = 1 /\ s[1] = g
  OBVIOUS
<1>7. Len(s) = 1 /\ s[1] = g => s = one
  BY <1>2
<1> HIDE DEF a, one
<1>8. ls \in [Queries -> Seq(Gets)] /\ ls[q] = a /\ (\A p \in Queries : p # q => ls[p] = x.listeners[p])
      /\ v \in [Queries -> Nat]
  BY <1>2, <1>4
<1>9. s = one => a = <<>>
  <2> SUFFICES ASSUME s = one PROVE a = <<>>
    OBVIOUS
  <2>4. Len(s) = 1 /\ s[1] = g
    BY <1>6
  <2>1. \A j \in 1..Len(s) : s[j] = g
    <3> HIDE DEF s
    <3> QED  BY <2>4
  <2>2. \A i \in 1..Len(a) : FALSE
    <3> HIDE DEF s
    <3> QED  BY <1>4, <2>1
  <2>3. Len(a) = 0
    BY <1>4, <2>2
  <2> QED  BY <1>4, <2>3, EmptySeq
<1>10. s # one /\ s # <<>> => a # <<>>
  <2> SUFFICES ASSUME s # one, s # <<>>, a = <<>> PROVE FALSE
    OBVIOUS
  <2>1. Len(a) = 0
    BY <1>4
  <2>2. \A j \in 1..Len(s) : s[j] = g
    <3> HIDE DEF s
    <3> QED  BY <1>4, <2>1
  <2>3. Len(s) # 0
    BY <1>2
  <2>4. 1 \in 1..Len(s) /\ Len(s) \in 1..Len(s)
    BY <1>2, <2>3
  <2>5. Len(s) = 1
    BY <2>2, <2>4 DEF Once
  <2> QED  BY <1>7, <2>2, <2>4, <2>5
<1>11. s = <<>> => a = <<>>
  <2> SUFFICES ASSUME s = <<>> PROVE a = <<>>
    OBVIOUS
  <2>1. Len(s) = 0
    OBVIOUS
  <2>2. \A i \in 1..Len(a) : FALSE
    BY <1>4, <2>1
  <2>3. Len(a) = 0
    BY <1>4, <2>2
  <2> QED  BY <1>4, <2>3, EmptySeq
<1>12. /\ w \in ClientType /\ w.listens = x.listens /\ w.view = v /\ w.listeners = ls
       /\ w.main = x.main /\ w.stream = x.stream /\ w.replies = x.replies
       /\ w.served = x.served /\ w.target = x.target /\ w.online = x.online
       /\ w.failed = x.failed /\ w.timer = x.timer
  <2> HIDE DEF ls, v
  <2> QED  BY <1>1, <1>8 DEF ClientType
<1> HIDE DEF ls, v, w
<1>13. Runs(w, y) /\ Good(y)
  <2>1. CASE s = one
    <3>1. v = [x.view EXCEPT ![q] = 0]
      BY <2>1 DEF v
    <3>2. StreamOK(w) /\ TimerOK(w) /\ WatchBut(w, q)
      BY <1>8, <1>12, <3>1, HalfWay, ZenonT(40)
    <3>3. IdleOK(w)
      <4>1. q \in Targets(x)
        <5>1. Len(s) = 1
          BY <1>6, <2>1
        <5>2. s # <<>>
          <6> HIDE DEF s
          <6> QED  BY <5>1
        <5> QED  BY <5>2 DEF Targets
      <4> QED  BY <1>1, <1>12, <4>1 DEF IdleOK
    <3>4. Runs(w, StopListening(w, q)) /\ Good(StopListening(w, q))
      BY <1>12, <3>2, <3>3, StopListeningKeeps
    <3> QED  BY <2>1, <3>4
  <2>2. CASE s # one
    <3>1. v = x.view
      BY <2>2 DEF v
    <3>2. Targets(w) = Targets(x)
      <4>1. a = <<>> <=> s = <<>>
        BY <1>10, <1>11, <2>2
      <4>2. \A p \in Queries : ls[p] = <<>> <=> x.listeners[p] = <<>>
        BY <1>8, <4>1
      <4> QED  BY <1>12, <4>2 DEF Targets
    <3>3. ViewOK(w) /\ DeniedOK(w) /\ ClosedOK(w)
      BY <1>1, <1>12, <3>1 DEF WatchOK, ViewOK, DeniedOK, ClosedOK
    <3>4. \A p \in Queries : TargetOK(x, p) => TargetOK(w, p)
      BY <1>12, <3>2 DEF TargetOK
    <3>5. WatchOK(w)
      BY <1>1, <1>12, <3>3, <3>4 DEF WatchOK
    <3>6. StreamOK(w) /\ IdleOK(w) /\ TimerOK(w)
      BY <1>1, <1>12, <3>2 DEF StreamOK, IdleOK, TimerOK
    <3>7. y = w
      BY <2>2
    <3> QED  BY <1>12, <3>5, <3>6, <3>7, RunsSame DEF Good, Sound
  <2> QED  BY <2>1, <2>2
<1> HIDE DEF y
<1>14. Grown(x, y) /\ y.listeners = ls
  BY <1>12, <1>13, RunsGrown DEF Runs
<1>15. Leaves(x, y, g, q)
  BY <1>4, <1>8, <1>14 DEF Leaves
<1> QED  BY <1>5, <1>13, <1>14, <1>15
-----------------------------------------------------------------------------
(* A message from the backend.                                               *)

\* When the first message has been taken in by its target, the rest agrees.
LEMMA TakenKeeps ==
  ASSUME NEW x, Good(x), x.replies # <<>>, NEW y \in ClientType, y.replies = Tail(x.replies),
         y.stream = x.stream, y.listens = x.listens, y.listeners = x.listeners, y.served = x.served,
         \A q \in Queries : y.view[q] \in {0, x.view[q]},
         \A q \in Queries :
            y.target[q] = TargetAfter(x.target[q], Head(x.replies), q, q \in Targets(x))
  PROVE  WatchOK(y)
<1> DEFINE s == x.replies
           r == y.replies
           m == Head(s)
<1>1. x \in ClientType /\ WatchOK(x)
  BY DEF Good, Sound
<1>2. /\ s \in Seq(ReplyType) /\ x.target \in [Queries -> TargetType]
      /\ x.listens \in [Queries -> Nat]
  BY <1>1, Fields DEF ReplyType, Kinds, TargetType
<1>3. IsOpen(x.stream) /\ IsOpen(y.stream)
  BY <1>1 DEF WatchOK, ClosedOK
<1>4. Targets(y) = Targets(x)
  BY DEF Targets
<1>5. Len(s) \in Nat /\ 1 \in 1..Len(s) /\ s[1] = m /\ m \in ReplyType /\ Len(r) \in Nat
      /\ \A i \in 1..Len(r) : i + 1 \in 1..Len(s) /\ r[i] = s[i + 1]
  <2>1. PICK q : q = q
    OBVIOUS
  <2> DEFINE tl == Tail(s)
  <2>2. /\ Len(tl) \in Nat /\ Len(s) = Len(tl) + 1 /\ s[1] = m /\ s[1] \in ReplyType
        /\ \A i \in 1..Len(tl) : i + 1 \in 1..Len(s) /\ tl[i] = s[i + 1]
    <3> HIDE DEF s
    <3> QED  BY <1>2, TailOf DEF s
  <2>3. tl = r
    OBVIOUS
  <2> HIDE DEF tl, r, s, m
  <2> QED  BY <2>2, <2>3
<1>6. ASSUME NEW q \in Queries \ denied
      PROVE  TargetOK(y, q)
  <2> DEFINE b == q \in Targets(x)
             t == x.target[q]
             v == x.served[q]
             l == x.listens[q]
  <2>1. Agree(s, q, t, v, l, b)
    BY <1>1, <1>3 DEF WatchOK, TargetOK
  <2>2. b \in BOOLEAN /\ t \in TargetType /\ l \in Nat /\ s # <<>>
    BY <1>2
  <2> HIDE DEF b, t, v, l, s
  <2>3. Agree(Tail(s), q, TargetAfter(t, Head(s), q, b), v, l, b)
    BY <1>2, <2>1, <2>2, TargetAfterAgrees
  <2> QED  BY <1>4, <2>3 DEF TargetOK, b, t, v, l, s
<1>7. DeniedOK(y)
  <2>1. ASSUME NEW q \in Queries, q \in denied
        PROVE  y.target[q].current = 0
    <3>1. x.target[q].current = 0 /\ x.target[q] \in TargetType
      BY <1>1, <1>2, <2>1 DEF WatchOK, DeniedOK
    <3>2. m.q = q => m.kind \in {"rejected", "removed", "snapshot"}
      BY <1>1, <1>5, <2>1 DEF WatchOK, DeniedOK
    <3> DEFINE t == x.target[q]
               b == q \in Targets(x)
               u == TargetAfter(t, m, q, b)
               w == Answered(t)
    <3>3. t \in TargetType /\ t.current = 0
      BY <3>1
    <3> HIDE DEF t, b, m
    <3>4. w.current = t.current
      BY <3>3 DEF Answered, TargetType
    <3>5. u \in {t, w, NewTarget}
      <4>1. CASE m.q # q
        BY <4>1 DEF TargetAfter
      <4>2. CASE m.q = q /\ m.kind = "removed"
        BY <4>2 DEF TargetAfter
      <4>3. CASE m.q = q /\ m.kind \in {"rejected", "snapshot"}
        BY <4>3 DEF TargetAfter
      <4> QED  BY <3>2, <4>1, <4>2, <4>3
    <3>6. u.current = 0
      <4> HIDE DEF u, w
      <4> QED  BY <3>3, <3>4, <3>5 DEF NewTarget
    <3> QED  BY <3>6 DEF t, b, m
  <2>2. \A q \in Queries : q \in denied => y.served[q] = NotServed /\ y.view[q] = 0
    BY <1>1 DEF WatchOK, DeniedOK
  <2>3. ASSUME NEW i \in 1..Len(r)
        PROVE  IF r[i].q \in denied THEN r[i].kind \in {"rejected", "removed", "snapshot"}
               ELSE r[i].kind # "rejected"
    <3>1. i + 1 \in 1..Len(s) /\ r[i] = s[i + 1]
      BY <1>5
    <3> HIDE DEF r
    <3>2. IF s[i + 1].q \in denied THEN s[i + 1].kind \in {"rejected", "removed", "snapshot"}
               ELSE s[i + 1].kind # "rejected"
      BY <1>1, <3>1 DEF WatchOK, DeniedOK
    <3> QED  BY <3>1, <3>2
  <2> QED  BY <2>1, <2>2, <2>3 DEF DeniedOK
<1>8. ViewOK(y) /\ ClosedOK(y)
  BY <1>1, <1>3 DEF WatchOK, ViewOK, ClosedOK, IsOpen
<1> QED  BY <1>6, <1>7, <1>8 DEF WatchOK
LEMMA HandleChangeIs ==
  ASSUME NEW x \in ClientType, NEW m \in ReplyType, m.kind \in {"added", "removed", "current", "change"}
  PROVE  LET y == HandleChange(x, m) IN
         /\ Goes(x, y) /\ y.stream = x.stream /\ y.replies = x.replies /\ y.served = x.served
         /\ \A q \in Queries : y.target[q] = TargetAfter(x.target[q], m, q, q \in Targets(x))
<1> DEFINE q == m.q
           t == x.target[q]
           b == q \in Targets(x)
           u == TargetAfter(t, m, q, b)
           w == Answered(t)
           tg == [x.target EXCEPT ![q] = u]
           y == HandleChange(x, m)
<1>1. /\ x.target \in [Queries -> TargetType] /\ q \in Queries /\ t \in TargetType
      /\ m.listen \in Nat
  BY Fields DEF TargetType, ReplyType
<1>2. b \in BOOLEAN /\ (IsActiveTarget(x, q) <=> t.out = 0 /\ b)
  BY DEF IsActiveTarget
<1>3. w \in TargetType /\ NewTarget \in TargetType
  <2> HIDE DEF t
  <2> QED  BY <1>1 DEF Answered, TargetType, NewTarget
<1>4. u \in TargetType /\ y = [x EXCEPT !.target = tg]
  <2>1. CASE m.kind = "added"
    <3>1. u = IF w.out = 0 THEN [w EXCEPT !.dirty = FALSE] ELSE w
      BY <2>1 DEF TargetAfter
    <3>2. y = [x EXCEPT !.target[q] = IF w.out = 0 THEN [w EXCEPT !.dirty = FALSE] ELSE w]
      BY <2>1 DEF HandleChange
    <3> HIDE DEF u, w, t, q, y
    <3>3. u \in TargetType
      BY <1>3, <3>1 DEF TargetType
    <3>4. y = [x EXCEPT !.target[q] = u]
      BY <3>1, <3>2
    <3> QED  BY <3>3, <3>4
  <2>2. CASE m.kind = "removed"
    <3>1. u = IF w.out = 0 THEN NewTarget ELSE w
      BY <2>2 DEF TargetAfter
    <3>2. y = [x EXCEPT !.target[q] = IF w.out = 0 THEN NewTarget ELSE w]
      BY <2>2 DEF HandleChange
    <3> HIDE DEF u, w, t, q, y
    <3> QED  BY <1>3, <3>1, <3>2
  <2>3. CASE m.kind = "current" /\ t.out = 0 /\ b
    <3>1. u = [t EXCEPT !.current = m.listen, !.dirty = TRUE]
      BY <2>3 DEF TargetAfter
    <3>2. y = [x EXCEPT !.target[q].current = m.listen, !.target[q].dirty = TRUE]
      BY <1>2, <2>3 DEF HandleChange
    <3>3. u \in TargetType
      <4> HIDE DEF t, u
      <4> QED  BY <1>1, <3>1 DEF TargetType
    <3>4. y = [x EXCEPT !.target = [x.target EXCEPT ![q] = [t EXCEPT !.current = m.listen, !.dirty = TRUE]]]
      <4> HIDE DEF y, q, u, b
      <4> QED  BY <1>1, <3>2 DEF ClientType, TargetType, t
    <3> HIDE DEF y, u, t, q
    <3> QED  BY <3>1, <3>3, <3>4
  <2>4. CASE m.kind = "change" /\ t.out = 0 /\ b
    <3>1. u = [t EXCEPT !.dirty = TRUE]
      BY <2>4 DEF TargetAfter
    <3>2. y = [x EXCEPT !.target[q].dirty = TRUE]
      BY <1>2, <2>4 DEF HandleChange
    <3>3. u \in TargetType
      <4> HIDE DEF t, u
      <4> QED  BY <1>1, <3>1 DEF TargetType
    <3>4. y = [x EXCEPT !.target = [x.target EXCEPT ![q] = [t EXCEPT !.dirty = TRUE]]]
      <4> HIDE DEF y, q, u, b
      <4> QED  BY <1>1, <3>2 DEF ClientType, TargetType, t
    <3> HIDE DEF y, u, t, q
    <3> QED  BY <3>1, <3>3, <3>4
  <2>5. CASE m.kind \in {"current", "change"} /\ ~(t.out = 0 /\ b)
    <3>1. u = t
      BY <2>5 DEF TargetAfter
    <3>2. y = x
      BY <1>2, <2>5 DEF HandleChange
    <3>3. tg = x.target
      BY <1>1, <3>1
    <3>4. x = [x EXCEPT !.target = x.target]
      BY DEF ClientType
    <3> HIDE DEF tg, u, y
    <3> QED  BY <1>1, <3>1, <3>2, <3>3, <3>4
  <2> QED  BY <2>1, <2>2, <2>3, <2>4, <2>5
<1>5. tg \in [Queries -> TargetType] /\ tg[q] = u /\ \A p \in Queries : p # q => tg[p] = x.target[p]
  <2> HIDE DEF u
  <2> QED  BY <1>1, <1>4
<1>6. \A p \in Queries : tg[p] = TargetAfter(x.target[p], m, p, p \in Targets(x))
  <2>1. ASSUME NEW p \in Queries, p # q
        PROVE  TargetAfter(x.target[p], m, p, p \in Targets(x)) = x.target[p]
    BY <2>1 DEF TargetAfter
  <2> HIDE DEF tg
  <2> QED  BY <1>5, <2>1
<1> HIDE DEF tg, y, u, t, w
<1>7. /\ y.target = tg /\ y.stream = x.stream /\ y.replies = x.replies /\ y.served = x.served
      /\ y.enabled = x.enabled /\ y.main = x.main /\ y.view = x.view
      /\ y.online = x.online /\ y.failed = x.failed /\ y.timer = x.timer
      /\ y.listens = x.listens /\ y.listeners = x.listeners
  BY <1>4 DEF ClientType
<1>8. y \in ClientType
  BY <1>4, <1>5 DEF ClientType, TargetType
<1>9. Goes(x, y)
  BY <1>7, <1>8 DEF Goes, Targets
<1> QED  BY <1>6, <1>7, <1>9 DEF y
\* The error of a denied listen: nothing is kept of the query but the events.
Fails(x, y, q) ==
    /\ y.listeners = [x.listeners EXCEPT ![q] = <<>>]
    /\ Len(y.main) = Len(x.main) + Len(x.listeners[q])
    /\ \A i \in 1..Len(x.main) : y.main[i] = x.main[i]
    /\ \A i \in 1..Len(x.listeners[q]) :
          y.main[Len(x.main) + i] = [g |-> x.listeners[q][i], what |-> "error"]

LEMMA ErrorKeeps ==
  ASSUME NEW x, Good(x), NEW q \in Queries, q \in denied
  PROVE  LET y == ProcessTargetError(x, q) IN Good(y) /\ Fails(x, y, q)
<1>1. x \in ClientType /\ StreamOK(x) /\ IdleOK(x) /\ WatchOK(x) /\ TimerOK(x)
  BY DEF Good, Sound
<1>2. /\ x.listeners \in [Queries -> Seq(Gets)] /\ x.listeners[q] \in Seq(Gets)
      /\ x.view \in [Queries -> Nat] /\ x.target \in [Queries -> TargetType] /\ Len(x.main) \in Nat
  BY <1>1, Fields DEF TargetType
<1>3. CASE q \notin Targets(x)
  <2>1. x.listeners[q] = <<>>
    BY <1>3 DEF Targets
  <2>2. x.listeners = [x.listeners EXCEPT ![q] = <<>>] /\ Len(x.listeners[q]) = 0
    BY <1>2, <2>1
  <2>3. ProcessTargetError(x, q) = x
    BY <1>3 DEF ProcessTargetError
  <2>4. Fails(x, x, q)
    BY <1>2, <2>1, <2>2 DEF Fails
  <2> QED  BY <2>3, <2>4
<1>4. CASE q \in Targets(x)
  <2> DEFINE gets == x.listeners[q]
             m == Tell(x, gets, "error").main
             tg == [x.target EXCEPT ![q] = NewTarget]
             ls == [x.listeners EXCEPT ![q] = <<>>]
             v == [x.view EXCEPT ![q] = 0]
             y == [x EXCEPT !.main = m, !.target = tg, !.listeners = ls, !.view = v]
  <2>1. /\ Tell(x, gets, "error") = [x EXCEPT !.main = m]
        /\ m \in Seq(MainType) /\ Len(m) = Len(x.main) + Len(gets) /\ Len(gets) \in Nat
        /\ \A i \in 1..Len(x.main) : m[i] = x.main[i]
        /\ \A i \in 1..Len(gets) : m[Len(x.main) + i] = [g |-> gets[i], what |-> "error"]
    <3>1. gets \in Seq(Gets)
      BY <1>2
    <3> HIDE DEF gets
    <3> QED  BY <1>1, <3>1, TellIs
  <2> HIDE DEF m
  <2>2. ProcessTargetError(x, q) = y
    BY <1>1, <1>4, <2>1 DEF ProcessTargetError, ClientType
  <2>3. <<>> \in Seq(Gets) /\ NewTarget \in TargetType /\ NewTarget.current = 0
    BY EmptySeq DEF NewTarget, TargetType
  <2>4. /\ tg \in [Queries -> TargetType] /\ ls \in [Queries -> Seq(Gets)] /\ v \in [Queries -> Nat]
        /\ tg[q] = NewTarget /\ v[q] = 0 /\ ls[q] = <<>>
        /\ \A p \in Queries : p # q => tg[p] = x.target[p] /\ ls[p] = x.listeners[p] /\ v[p] = x.view[p]
    BY <1>2, <2>3
  <2> HIDE DEF tg, ls, v
  <2>5. /\ y \in ClientType /\ y.main = m /\ y.target = tg /\ y.listeners = ls /\ y.view = v
        /\ y.stream = x.stream /\ y.listens = x.listens /\ y.online = x.online
        /\ y.failed = x.failed /\ y.timer = x.timer /\ y.replies = x.replies /\ y.served = x.served
    <3>1. tg \in [Queries -> [out : Int, current : Nat, dirty : BOOLEAN]] /\ m \in Seq([g : Gets, what : {"server", "cache", "error"}])
      BY <2>1, <2>4 DEF TargetType, MainType
    <3> QED  BY <1>1, <2>4, <3>1 DEF ClientType
  <2> HIDE DEF y
  <2>6. Fails(x, y, q)
    BY <2>1, <2>5 DEF Fails, ls
  <2>7. StreamOK(y) /\ TimerOK(y) /\ IdleOK(y)
    <3>1. \A p \in Queries : p \in Targets(y) => p \in Targets(x)
      BY <2>4, <2>5 DEF Targets
    <3>2. Targets(y) \in SUBSET Queries
      BY DEF Targets
    <3> QED  BY <1>1, <2>5, <3>1, <3>2 DEF StreamOK, TimerOK, IdleOK
  <2>8. ViewOK(y) /\ DeniedOK(y)
    BY <1>1, <2>3, <2>4, <2>5, ZenonT(40) DEF WatchOK, ViewOK, DeniedOK
  <2>9. ClosedOK(y)
    <3>1. x.target = [p \in Queries |-> NewTarget] => tg = x.target
      BY <1>2, <2>4
    <3> QED  BY <1>1, <2>5, <3>1 DEF WatchOK, ClosedOK
  <2>10. ASSUME NEW p \in Queries \ denied
         PROVE  TargetOK(x, p) => TargetOK(y, p)
    <3> DEFINE b == p \in Targets(x)
               d == p \in Targets(y)
    <3>1. p # q
      BY <2>10
    <3>2. b \in BOOLEAN /\ d \in BOOLEAN /\ b = d
      BY <2>4, <2>5, <3>1 DEF Targets
    <3> HIDE DEF b, d
    <3>3. Agree(x.replies, p, x.target[p], x.served[p], x.listens[p], b)
            => Agree(y.replies, p, y.target[p], y.served[p], y.listens[p], d)
      BY <2>4, <2>5, <3>1, <3>2
    <3> QED  BY <3>3 DEF TargetOK, b, d
  <2>11. WatchOK(y)
    BY <1>1, <2>5, <2>8, <2>9, <2>10 DEF WatchOK
  <2> QED  BY <2>2, <2>5, <2>6, <2>7, <2>11 DEF Good, Sound
<1> QED  BY <1>3, <1>4

\* A snapshot shows what has gathered for these targets.
Due(x) == {q \in Queries : IsActiveTarget(x, q) /\ x.target[q].dirty}

Shown(x, y) ==
    /\ y \in ClientType /\ MainGrows(x, y)
    /\ y.listens = x.listens /\ y.listeners = x.listeners /\ y.stream = x.stream
    /\ y.replies = x.replies /\ y.served = x.served
    /\ y.online = x.online /\ y.failed = x.failed /\ y.timer = x.timer
    /\ \A q \in Queries :
          /\ \/ y.view[q] = x.view[q]
             \/ q \in Due(x) /\ y.view[q] = x.target[q].current
          /\ y.target[q] \in {x.target[q], [x.target[q] EXCEPT !.dirty = FALSE]}

LEMMA ShowStep ==
  ASSUME NEW x \in ClientType, NEW y, Shown(x, y), NEW q \in Due(x)
  PROVE  Shown(x, Raise([y EXCEPT !.view[q] = y.target[q].current, !.target[q].dirty = FALSE],
                        q, y.listeners[q], y.online))
<1>1. q \in Queries /\ y \in ClientType
  BY DEF Due, Shown
<1>2. /\ y.target \in [Queries -> TargetType] /\ x.target \in [Queries -> TargetType]
      /\ y.view \in [Queries -> Nat] /\ y.listeners[q] \in Seq(Gets)
      /\ Len(x.main) \in Nat /\ Len(y.main) \in Nat
  BY <1>1, Fields DEF TargetType
<1> DEFINE u == y.target[q]
           t == [u EXCEPT !.dirty = FALSE]
           tg == [y.target EXCEPT ![q] = t]
           v == [y.view EXCEPT ![q] = u.current]
           w == [y EXCEPT !.view[q] = y.target[q].current, !.target[q].dirty = FALSE]
           z == Raise(w, q, y.listeners[q], y.online)
<1>3. w = [y EXCEPT !.view = v, !.target = tg]
  BY <1>1, <1>2 DEF ClientType, TargetType
<1>4. u \in TargetType
  BY <1>1, <1>2
<1>5. t \in TargetType /\ u.current = x.target[q].current
      /\ t = [x.target[q] EXCEPT !.dirty = FALSE]
  <2> DEFINE a == x.target[q]
  <2>1. a \in TargetType /\ u \in {a, [a EXCEPT !.dirty = FALSE]}
    BY <1>1, <1>2 DEF Shown
  <2> HIDE DEF a, u
  <2>2. [[a EXCEPT !.dirty = FALSE] EXCEPT !.dirty = FALSE] = [a EXCEPT !.dirty = FALSE]
    BY <2>1 DEF TargetType
  <2>3. [a EXCEPT !.dirty = FALSE].current = a.current
    BY <2>1 DEF TargetType
  <2>4. [u EXCEPT !.dirty = FALSE] = [a EXCEPT !.dirty = FALSE] /\ u.current = a.current
    BY <2>1, <2>2, <2>3
  <2>5. [u EXCEPT !.dirty = FALSE] \in TargetType
    BY <1>4 DEF TargetType
  <2> QED  BY <2>4, <2>5 DEF a
<1>6. /\ tg \in [Queries -> TargetType] /\ v \in [Queries -> Nat]
      /\ tg[q] = t /\ v[q] = u.current
      /\ \A p \in Queries : p # q => tg[p] = y.target[p] /\ v[p] = y.view[p]
  <2>1. u.current \in Nat
    <3> HIDE DEF u
    <3> QED  BY <1>4 DEF TargetType
  <2> HIDE DEF u, t
  <2> QED  BY <1>1, <1>2, <1>5, <2>1
<1> HIDE DEF w, tg, v, t
<1>7. /\ w \in ClientType /\ w.target = tg /\ w.view = v /\ w.main = y.main
      /\ w.stream = y.stream /\ w.listens = y.listens /\ w.listeners = y.listeners
      /\ w.online = y.online /\ w.failed = y.failed /\ w.timer = y.timer
      /\ w.replies = y.replies /\ w.served = y.served
  BY <1>1, <1>3, <1>6 DEF ClientType, TargetType
<1>8. /\ Tells(w, z) /\ z.view = w.view /\ z.online = w.online /\ z.failed = w.failed
      /\ z.timer = w.timer
  <2> DEFINE gets == y.listeners[q]
             o == y.online
  <2>1. gets \in Seq(Gets) /\ \A i \in 1..Len(gets) : Listening(w, gets[i])
    BY <1>1, <1>2, <1>7 DEF Listening
  <2> HIDE DEF gets, o
  <2>2. /\ Tells(w, Raise(w, q, gets, o)) /\ Raise(w, q, gets, o).view = w.view
        /\ Raise(w, q, gets, o).online = w.online /\ Raise(w, q, gets, o).failed = w.failed
        /\ Raise(w, q, gets, o).timer = w.timer
    BY <1>1, <1>7, <2>1, RaiseTells
  <2> QED  BY <2>2 DEF gets, o
<1> HIDE DEF z
<1>9. /\ z \in ClientType /\ z.target = tg /\ z.view = v /\ z.stream = x.stream
      /\ z.listens = x.listens /\ z.listeners = x.listeners /\ z.online = x.online
      /\ z.failed = x.failed /\ z.timer = x.timer /\ z.replies = x.replies /\ z.served = x.served
  BY <1>7, <1>8 DEF Shown, Tells, Same
<1>10. MainGrows(x, z)
  <2>1. MainGrows(x, y) /\ MainGrows(w, z) /\ w.main = y.main
    BY <1>7, <1>8 DEF Shown, Tells
  <2>2. \A g : Listening(w, g) => Listening(x, g)
    BY <1>7 DEF Shown, Listening
  <2>3. Len(z.main) \in Nat
    BY <1>9, Fields
  <2>4. ASSUME NEW i \in (Len(x.main) + 1)..Len(z.main)
        PROVE  z.main[i].what # "error" /\ Listening(x, z.main[i].g)
    <3>1. CASE i \in (Len(x.main) + 1)..Len(y.main)
      BY <1>2, <2>1, <3>1 DEF MainGrows
    <3>2. CASE i \in (Len(y.main) + 1)..Len(z.main)
      BY <2>1, <2>2, <3>2 DEF MainGrows
    <3> QED  BY <1>2, <2>3, <3>1, <3>2
  <2> QED  BY <1>2, <2>1, <2>3, <2>4 DEF MainGrows
<1>11. ASSUME NEW p \in Queries
       PROVE  /\ \/ z.view[p] = x.view[p]
                 \/ p \in Due(x) /\ z.view[p] = x.target[p].current
              /\ z.target[p] \in {x.target[p], [x.target[p] EXCEPT !.dirty = FALSE]}
  <2>1. CASE p = q
    BY <1>5, <1>6, <1>9, <2>1
  <2>2. CASE p # q
    BY <1>6, <1>9, <2>2 DEF Shown
  <2> QED  BY <2>1, <2>2
<1>12. Shown(x, z)
  BY <1>9, <1>10, <1>11 DEF Shown
<1> QED  BY <1>12 DEF z, w

LEMMA SnapshotShows ==
  ASSUME NEW x \in ClientType
  PROVE  Shown(x, RaiseWatchSnapshot(x))
<1> DEFINE X == {y \in ClientType : Shown(x, y)}
           Op(y, q) == Raise([y EXCEPT !.view[q] = y.target[q].current, !.target[q].dirty = FALSE],
                             q, y.listeners[q], y.online)
<1>1. Due(x) \in SUBSET Queries
  BY DEF Due
<1>2. x \in X
  <2>1. Len(x.main) \in Nat
    BY Fields
  <2> QED  BY <2>1 DEF Shown, MainGrows
<1>3. ASSUME NEW y \in X, NEW q \in Due(x)
      PROVE  Op(y, q) \in X
  <2>1. Shown(x, Op(y, q))
    BY ShowStep
  <2> HIDE DEF Op
  <2> QED  BY <2>1 DEF Shown
<1> HIDE DEF Op
<1> DEFINE s == SetToSeq(Due(x))
           n == Len(s)
           f == [p \in X \X (1..n) |-> Op(p[1], s[p[2]])]
           Eq(G) == G = [t \in SUBSET DOMAIN s |->
                           IF t = {} THEN x
                           ELSE Op(G[t \ {Max(t)}], s[Max(t)])]
           Fold == CHOOSE G : Eq(G)
<1>4. n \in Nat /\ DOMAIN s = 1..n /\ \A i \in 1..n : s[i] \in Due(x)
  <2>1. s \in Seq(Due(x)) /\ \A i \in 1..n : s[i] \in Due(x)
    BY <1>1, SetToSeqOf
  <2> HIDE DEF s
  <2> QED  BY <2>1
<1> HIDE DEF s
<1>5. f \in [X \X (1..n) -> X]
  <2> HIDE DEF X, n
  <2> QED  BY <1>4, <1>3
<1>6. PICK F \in [SUBSET (1..n) -> X] : IsFold(F, x, f, n)
  <2> HIDE DEF f, n, X
  <2> QED  BY <1>2, <1>4, <1>5, FoldExists
<1>7. Eq(F)
  <2>1. ASSUME NEW t \in SUBSET (1..n), t # {}
        PROVE  f[<<F[t \ {Max(t)}], Max(t)>>] = Op(F[t \ {Max(t)}], s[Max(t)])
    <3>1. Max(t) \in 1..n
      BY <1>4, <2>1, MaxIsIn
    <3>2. F[t \ {Max(t)}] \in X
      <4> HIDE DEF X
      <4> QED  BY <1>6
    <3> HIDE DEF X
    <3> QED  BY <3>1, <3>2
  <2> HIDE DEF f, n, X
  <2> QED  BY <1>4, <1>6, <2>1 DEF IsFold
<1>8. Eq(Fold)
  <2> HIDE DEF Eq
  <2> QED  BY <1>7
<1>9. RaiseWatchSnapshot(x) = Fold[1..n]
  <2>1. RaiseWatchSnapshot(x) = Fold[DOMAIN s]
    BY DEF RaiseWatchSnapshot, FoldLeft, MapThenFoldSet, s, Op, Due
  <2> HIDE DEF Fold, n
  <2> QED  BY <1>4, <2>1
<1>10. Fold[1..0] = x
  <2>1. 1..0 = {}
    OBVIOUS
  <2> HIDE DEF Fold, n
  <2> QED  BY <1>4, <1>8, <2>1
<1>11. ASSUME NEW i \in 1..n, Fold[1..(i - 1)] \in X
      PROVE  Fold[1..i] \in X
  <2>1. /\ 1..i \in SUBSET (1..n) /\ 1..i # {}
        /\ Max(1..i) = i /\ (1..i) \ {i} = 1..(i - 1)
    BY <1>4, PrefixOf
  <2>2. Fold[1..i] = Op(Fold[1..(i - 1)], s[i])
    <3> HIDE DEF Fold, n
    <3> QED  BY <1>4, <1>8, <2>1
  <2> HIDE DEF Fold, X, n
  <2> QED  BY <1>4, <1>11, <1>3, <2>2
<1>12. Fold[1..n] \in X
  <2> DEFINE Y == [i \in 0..n |-> X]
  <2>1. 0 \in 0..n /\ n \in 0..n /\ \A i \in 1..n : i \in 0..n /\ i - 1 \in 0..n
    BY <1>4
  <2>2. Fold[1..0] \in Y[0]
    <3> HIDE DEF Fold, X, n
    <3> QED  BY <1>2, <1>10, <2>1
  <2>3. \A i \in 1..n : Fold[1..(i - 1)] \in Y[i - 1] => Fold[1..i] \in Y[i]
    <3> HIDE DEF Fold, X, n
    <3> QED  BY <1>11, <2>1
  <2>4. Fold[1..n] \in Y[n]
    <3> HIDE DEF Fold, Y, n
    <3> QED  BY <1>4, <2>2, <2>3, FoldStays
  <2> HIDE DEF Fold, X, n
  <2> QED  BY <2>1, <2>4
<1> HIDE DEF Fold
<1> QED  BY <1>9, <1>12
\* A target that is shown was current: of its view's listen, if not denied.
LEMMA SnapshotKeeps ==
  ASSUME NEW x, Good(x), IsOpen(x.stream)
  PROVE  LET y == RaiseWatchSnapshot(x) IN
         Good(y) /\ MainGrows(x, y) /\ y.listeners = x.listeners
<1> DEFINE y == RaiseWatchSnapshot(x)
<1>1. x \in ClientType /\ StreamOK(x) /\ IdleOK(x) /\ WatchOK(x) /\ TimerOK(x)
  BY DEF Good, Sound
<1>2. Shown(x, y)
  BY <1>1, SnapshotShows
<1> HIDE DEF y
<1>3. /\ x.target \in [Queries -> TargetType] /\ x.view \in [Queries -> Nat]
      /\ x.listens \in [Queries -> Nat]
  BY <1>1, Fields DEF TargetType
<1>4. Targets(y) = Targets(x) /\ StreamOK(y) /\ IdleOK(y) /\ TimerOK(y)
  BY <1>1, <1>2 DEF Shown, Targets, StreamOK, IdleOK, TimerOK
<1>5. ASSUME NEW q \in Due(x)
      PROVE  q \in Queries /\ (IF q \in denied THEN x.target[q].current = 0
                               ELSE x.target[q].current = x.listens[q])
  <2>1. q \in Queries /\ x.target[q].out = 0 /\ x.target[q].dirty
    BY DEF Due, IsActiveTarget
  <2>2. q \notin denied => TargetOK(x, q)
    BY <1>1, <2>1 DEF WatchOK
  <2> QED  BY <1>1, <2>1, <2>2 DEF WatchOK, DeniedOK, TargetOK, Agree, Knows
<1>6. ViewOK(y)
  BY <1>1, <1>2, <1>5 DEF WatchOK, ViewOK, Shown
<1>7. \A q \in Queries : /\ y.target[q].current = x.target[q].current
                         /\ y.target[q].out = x.target[q].out
                         /\ y.target[q].dirty => x.target[q].dirty
  <2> SUFFICES ASSUME NEW q \in Queries
               PROVE  /\ y.target[q].current = x.target[q].current
                      /\ y.target[q].out = x.target[q].out
                      /\ y.target[q].dirty => x.target[q].dirty
    OBVIOUS
  <2> DEFINE a == x.target[q]
             u == y.target[q]
  <2>1. a \in TargetType /\ u \in {a, [a EXCEPT !.dirty = FALSE]}
    BY <1>2, <1>3 DEF Shown
  <2> HIDE DEF a, u
  <2>2. u.current = a.current /\ u.out = a.out /\ (u.dirty => a.dirty)
    BY <2>1 DEF TargetType
  <2> QED  BY <2>2 DEF a, u
<1>8. DeniedOK(y)
  <2>1. \A q \in Queries : q \in denied => y.view[q] = 0
    BY <1>1, <1>2, <1>5 DEF WatchOK, DeniedOK, Shown
  <2> QED  BY <1>1, <1>2, <1>7, <2>1 DEF WatchOK, DeniedOK, Shown
<1>9. ClosedOK(y)
  BY <1>1, <1>2 DEF WatchOK, ClosedOK, Shown, IsOpen
<1>10. ASSUME NEW q \in Queries \ denied
       PROVE  TargetOK(y, q)
  <2>1. TargetOK(x, q)
    BY <1>1 DEF WatchOK
  <2> DEFINE t == x.target[q]
             u == y.target[q]
             b == q \in Targets(x)
             s == x.replies
             v == x.served[q]
             l == x.listens[q]
  <2>2. Agree(s, q, t, v, l, b)
    BY <2>1 DEF TargetOK
  <2>3. u.out = t.out /\ (Knows(u, l) <=> Knows(t, l)) /\ (u.dirty => t.dirty)
    BY <1>7 DEF Knows
  <2> HIDE DEF t, u, b, s, v, l
  <2>4. Agree(s, q, u, v, l, b)
    BY <2>2, <2>3 DEF Agree
  <2> QED  BY <1>2, <1>4, <2>4 DEF TargetOK, Shown, u, b, s, v, l
<1>11. WatchOK(y)
  BY <1>6, <1>8, <1>9, <1>10 DEF WatchOK
<1> QED  BY <1>2, <1>4, <1>11 DEF Good, Sound, Shown, y

\* An error leaves the executor's queue and the listeners as Fails says, all
\* else as a growth of the queue.
LEMMA ReplyKeeps ==
  ASSUME NEW x, Good(x), x.replies # <<>>
  PROVE  LET y == OnWatchStreamChange([x EXCEPT !.replies = Tail(@)], Head(x.replies)) IN
         /\ Good(y)
         /\ \/ MainGrows(x, y) /\ y.listeners = x.listeners
            \/ \E w \in ClientType : \E q \in Queries :
                  MainGrows(x, w) /\ w.listeners = x.listeners /\ Fails(w, y, q)
<1> DEFINE m == Head(x.replies)
           r == Tail(x.replies)
           w == [x EXCEPT !.replies = r]
           o == UpdateState(w, "Online")
           y == OnWatchStreamChange(w, m)
<1>1. x \in ClientType /\ StreamOK(x) /\ IdleOK(x) /\ WatchOK(x) /\ TimerOK(x)
  BY DEF Good, Sound
<1>2. m \in ReplyType /\ r \in Seq(ReplyType) /\ 1 \in 1..Len(x.replies) /\ x.replies[1] = m
  <2> DEFINE s == x.replies
  <2>1. s \in Seq(ReplyType)
    BY <1>1, Fields DEF ReplyType, Kinds
  <2>2. s # <<>>
    OBVIOUS
  <2> HIDE DEF s
  <2>3. Head(s) \in ReplyType /\ Tail(s) \in Seq(ReplyType)
    BY <2>1, <2>2, HeadTailProperties
  <2>4. 1 \in 1..Len(s) /\ s[1] = Head(s)
    BY <2>1, <2>2, LenProperties
  <2> QED  BY <2>3, <2>4 DEF s
<1>3. IsOpen(x.stream)
  BY <1>1 DEF WatchOK, ClosedOK
<1> HIDE DEF r
<1>4. /\ w \in ClientType /\ w.replies = r /\ w.main = x.main /\ w.view = x.view
      /\ w.stream = x.stream /\ w.listens = x.listens /\ w.listeners = x.listeners
      /\ w.online = x.online /\ w.failed = x.failed /\ w.timer = x.timer
      /\ w.target = x.target /\ w.served = x.served
  BY <1>1, <1>2 DEF ClientType, ReplyType, Kinds
<1>5. Runs(x, w) /\ Targets(w) = Targets(x)
  BY <1>1, <1>4, RunsSame
<1> HIDE DEF w
<1>6. Tells(w, o) /\ o.online = "Online" /\ ~o.failed /\ ~o.timer
  BY <1>4, UpdateTells DEF OnlineStates
<1> HIDE DEF o
<1>7. Runs(w, o) /\ Targets(o) = Targets(x) /\ o \in ClientType
  BY <1>5, <1>6, TellsRuns DEF Tells
<1>8. Runs(x, o)
  BY <1>1, <1>5, <1>7, RunsOn
<1>9. /\ o.stream = x.stream /\ o.replies = Tail(x.replies) /\ o.served = x.served
      /\ o.target = x.target /\ o.listens = x.listens /\ o.listeners = x.listeners
      /\ MainGrows(x, o) /\ \A q \in Queries : o.view[q] \in {0, x.view[q]}
  BY <1>4, <1>6, <1>8 DEF Tells, Same, Runs, r
<1>10. ASSUME NEW z, Goes(o, z), z.stream = o.stream, z.replies = o.replies, z.served = o.served,
              \A q \in Queries : z.target[q] = TargetAfter(x.target[q], m, q, q \in Targets(x))
       PROVE  Good(z) /\ MainGrows(x, z) /\ z.listeners = x.listeners
  <2>1. WatchOK(z)
    BY <1>9, <1>10, TakenKeeps DEF Goes
  <2>2. StreamOK(z) /\ IdleOK(z) /\ TimerOK(z)
    BY <1>1, <1>6, <1>7, <1>9, <1>10 DEF Goes, StreamOK, IdleOK, TimerOK
  <2> QED  BY <1>9, <1>10, <2>1, <2>2 DEF Goes, Good, Sound, MainGrows
<1>11. CASE m.kind \in {"added", "removed", "current", "change"}
  <2> DEFINE z == HandleChange(o, m)
  <2>1. /\ Goes(o, z) /\ z.stream = o.stream /\ z.replies = o.replies /\ z.served = o.served
        /\ \A q \in Queries : z.target[q] = TargetAfter(o.target[q], m, q, q \in Targets(o))
    BY <1>2, <1>7, <1>11, HandleChangeIs
  <2>2. y = z
    BY <1>11 DEF OnWatchStreamChange, o
  <2> HIDE DEF z
  <2>3. Good(z) /\ MainGrows(x, z) /\ z.listeners = x.listeners
    BY <1>7, <1>9, <1>10, <2>1
  <2> QED  BY <2>2, <2>3 DEF w, r
<1>12. CASE m.kind \in {"rejected", "snapshot"}
  <2>1. ASSUME NEW q \in Queries
        PROVE  o.target[q] = TargetAfter(x.target[q], m, q, q \in Targets(x))
    BY <1>9, <1>12 DEF TargetAfter
  <2>2. Good(o)
    BY <1>7, <1>10, <2>1 DEF Goes
  <2>3. CASE m.kind = "snapshot"
    <3> DEFINE z == RaiseWatchSnapshot(o)
    <3>1. Good(z) /\ MainGrows(o, z) /\ z.listeners = o.listeners
      BY <1>3, <1>9, <2>2, SnapshotKeeps
    <3>2. y = z
      BY <2>3 DEF OnWatchStreamChange, o
    <3> HIDE DEF z
    <3>3. MainGrows(x, z)
      <4>1. Len(x.main) \in Nat /\ Len(o.main) \in Nat /\ Len(z.main) \in Nat
        BY <1>1, <1>7, <3>1, Fields DEF Good, Sound
      <4>2. \A g : Listening(o, g) => Listening(x, g)
        BY <1>9 DEF Listening
      <4>3. ASSUME NEW i \in (Len(x.main) + 1)..Len(z.main)
            PROVE  z.main[i].what # "error" /\ Listening(x, z.main[i].g)
        <5>1. CASE i \in (Len(x.main) + 1)..Len(o.main)
          BY <1>9, <3>1, <4>1, <5>1 DEF MainGrows
        <5>2. CASE i \in (Len(o.main) + 1)..Len(z.main)
          BY <3>1, <4>2, <5>2 DEF MainGrows
        <5> QED  BY <4>1, <5>1, <5>2
      <4> QED  BY <1>9, <3>1, <4>1, <4>3 DEF MainGrows
    <3> QED  BY <1>9, <3>1, <3>2, <3>3 DEF w, r
  <2>4. CASE m.kind = "rejected"
    <3> DEFINE q == m.q
               z == ProcessTargetError(o, q)
    <3>1. q \in Queries /\ q \in denied
      BY <1>1, <1>2, <2>4 DEF ReplyType, WatchOK, DeniedOK
    <3>2. y = z
      BY <2>4 DEF OnWatchStreamChange, o
    <3> HIDE DEF q
    <3>3. Good(z) /\ Fails(o, z, q)
      BY <2>2, <3>1, ErrorKeeps
    <3> HIDE DEF z
    <3> QED  BY <1>7, <1>9, <3>1, <3>2, <3>3 DEF w, r
  <2> QED  BY <1>12, <2>3, <2>4
<1> QED  BY <1>2, <1>11, <1>12 DEF ReplyType, Kinds
-----------------------------------------------------------------------------
(* Who listens, and which events await whom.                                 *)

\* A get listens to its query, and once.
ListenOK(x, asked) ==
    \A q \in Queries : /\ Once(x.listeners[q])
                       /\ \A i \in 1..Len(x.listeners[q]) :
                             x.listeners[q][i] \in 1..Len(asked) /\ asked[x.listeners[q][i]] = q

\* After an error there is no event for its get, and none can come.
GetsOK(x, asked) ==
    /\ ListenOK(x, asked)
    /\ \A i \in 1..Len(x.main) :
          /\ x.main[i].g \in 1..Len(asked)
          /\ x.main[i].what = "error" =>
                /\ ~Listening(x, x.main[i].g)
                /\ \A j \in (i + 1)..Len(x.main) : x.main[j].g # x.main[i].g

\* There is no event for the get, and none can come.
Silent(x, g) == ~Listening(x, g) /\ \A i \in 1..Len(x.main) : x.main[i].g # g

\* A get that was called and takes events still will have none.
AnswersOK ==
    /\ muted \subseteq 1..Len(query)
    /\ \A g \in Gets : /\ answers[g] <= 1
                       /\ answers[g] # 0 => g \in 1..Len(query) /\ (g \in muted \/ Silent(c, g))

LEMMA GrownKeeps ==
  ASSUME NEW x \in ClientType, NEW y \in ClientType, Grown(x, y),
         NEW asked, NEW n \in Nat, Len(asked) \in Nat, Len(asked) <= n,
         GetsOK(x, asked), NEW more, Len(more) = n, ListenOK(y, more),
         \A g \in 1..Len(asked) : Listening(y, g) => Listening(x, g)
  PROVE  GetsOK(y, more) /\ \A g \in 1..Len(asked) : Silent(x, g) => Silent(y, g)
<1>1. Len(x.main) \in Nat /\ Len(y.main) \in Nat /\ Len(x.main) <= Len(y.main)
  BY Fields DEF Grown
<1>2. \A i \in 1..Len(y.main) : i \in 1..Len(x.main) \/ i \in (Len(x.main) + 1)..Len(y.main)
  BY <1>1
<1>3. \A i \in 1..Len(x.main) : y.main[i] = x.main[i]
  BY DEF Grown
<1>4. \A i \in (Len(x.main) + 1)..Len(y.main) :
         y.main[i].what # "error" /\ Listening(y, y.main[i].g)
  BY DEF Grown
<1>5. \A g : Listening(y, g) => g \in 1..n
  BY DEF Listening, ListenOK
<1>6. \A i \in 1..Len(x.main) : x.main[i].g \in 1..Len(asked) /\ x.main[i].g \in 1..n
  <2>1. \A k \in 1..Len(asked) : k \in 1..n
    OBVIOUS
  <2> QED  BY <2>1 DEF GetsOK
<1>7. \A i \in 1..Len(y.main) : y.main[i].g \in 1..n
  BY <1>2, <1>3, <1>4, <1>5, <1>6
<1>8. ASSUME NEW i \in 1..Len(y.main), y.main[i].what = "error"
      PROVE  /\ ~Listening(y, y.main[i].g)
             /\ \A j \in (i + 1)..Len(y.main) : y.main[j].g # y.main[i].g
  <2>1. i \in 1..Len(x.main) /\ y.main[i] = x.main[i]
    BY <1>2, <1>3, <1>4, <1>8
  <2>2. /\ ~Listening(x, x.main[i].g)
        /\ \A j \in (i + 1)..Len(x.main) : x.main[j].g # x.main[i].g
    BY <1>8, <2>1 DEF GetsOK
  <2>3. ~Listening(y, y.main[i].g)
    BY <1>6, <2>1, <2>2
  <2>4. ASSUME NEW j \in (i + 1)..Len(y.main)
        PROVE  y.main[j].g # y.main[i].g
    <3>1. CASE j \in 1..Len(x.main)
      <4>1. j \in (i + 1)..Len(x.main)
        BY <1>1, <3>1
      <4> QED  BY <1>3, <2>1, <2>2, <3>1, <4>1
    <3>2. CASE j \in (Len(x.main) + 1)..Len(y.main)
      BY <1>4, <2>3, <3>2
    <3> QED  BY <1>1, <2>1, <3>1, <3>2
  <2> QED  BY <2>3, <2>4
<1>9. ASSUME NEW g \in 1..Len(asked), Silent(x, g)
      PROVE  Silent(y, g)
  <2>1. ~Listening(y, g)
    BY <1>9 DEF Silent
  <2>2. \A i \in 1..Len(y.main) : y.main[i].g # g
    BY <1>2, <1>3, <1>4, <1>9, <2>1 DEF Silent
  <2> QED  BY <2>1, <2>2 DEF Silent
<1> QED  BY <1>7, <1>8, <1>9 DEF GetsOK

LEMMA FailsKeeps ==
  ASSUME NEW x \in ClientType, NEW y \in ClientType, NEW q \in Queries, Fails(x, y, q),
         NEW asked, GetsOK(x, asked)
  PROVE  GetsOK(y, asked) /\ \A g : Silent(x, g) => Silent(y, g)
<1> DEFINE n == Len(x.main)
           m == Len(y.main)
           s == x.listeners[q]
           d == Len(s)
<1>0. /\ n \in Nat /\ d \in Nat /\ m \in Nat
      /\ m = n + d /\ x.listeners \in [Queries -> Seq(Gets)]
  BY Fields DEF Fails
<1>1. n \in Nat /\ d \in Nat /\ m \in Nat /\ m = n + d
  BY <1>0
<1>2. \A i \in 1..n : y.main[i] = x.main[i]
  BY DEF Fails
<1>3. \A i \in 1..m : i \in 1..n \/ i - n \in 1..d
  <2> HIDE DEF n, m, d
  <2> QED  BY <1>1
<1>4. \A i \in 1..m : i - n \in 1..d => y.main[i].g = s[i - n]
  <2> SUFFICES ASSUME NEW i \in 1..m, i - n \in 1..d PROVE y.main[i].g = s[i - n]
    OBVIOUS
  <2>1. \A k \in 1..d : y.main[n + k] = [g |-> s[k], what |-> "error"]
    BY DEF Fails
  <2>2. n + (i - n) = i
    <3> HIDE DEF n, m, d
    <3> QED  BY <1>1
  <2> HIDE DEF n, m, d, s
  <2>3. y.main[n + (i - n)] = [g |-> s[i - n], what |-> "error"]
    BY <2>1
  <2> QED  BY <2>2, <2>3
<1>5. Len(y.listeners[q]) = 0 /\ \A p \in Queries : p # q => y.listeners[p] = x.listeners[p]
  <2>1. y.listeners[q] = <<>> /\ \A p \in Queries : p # q => y.listeners[p] = x.listeners[p]
    BY <1>0 DEF Fails
  <2> QED  BY <2>1
<1>6. ListenOK(y, asked)
  <2>1. ASSUME NEW p \in Queries
        PROVE  /\ Once(y.listeners[p])
               /\ \A i \in 1..Len(y.listeners[p]) :
                     y.listeners[p][i] \in 1..Len(asked) /\ asked[y.listeners[p][i]] = p
    <3>1. CASE p = q
      <4>1. \A i \in 1..Len(y.listeners[p]) : FALSE
        BY <1>5, <3>1
      <4> QED  BY <4>1 DEF Once
    <3>2. CASE p # q
      BY <1>5, <3>2 DEF GetsOK, ListenOK
    <3> QED  BY <3>1, <3>2
  <2> QED  BY <2>1 DEF ListenOK
<1>7. \A g : Listening(y, g) => Listening(x, g)
  <2> SUFFICES ASSUME NEW g, Listening(y, g) PROVE Listening(x, g)
    OBVIOUS
  <2>1. PICK p \in Queries : \E i \in 1..Len(y.listeners[p]) : y.listeners[p][i] = g
    BY DEF Listening
  <2>2. p # q
    BY <1>5, <2>1
  <2> QED  BY <1>5, <2>1, <2>2 DEF Listening
<1>8. ASSUME NEW k \in 1..d
      PROVE  s[k] \in 1..Len(asked) /\ ~Listening(y, s[k])
             /\ Listening(x, s[k])
  <2> DEFINE g == s[k]
  <2>1. g \in 1..Len(asked) /\ asked[g] = q
    BY DEF GetsOK, ListenOK
  <2>2. ASSUME NEW p \in Queries, NEW i \in 1..Len(y.listeners[p]), y.listeners[p][i] = g
        PROVE  FALSE
    <3>1. p # q
      BY <1>5
    <3>2. asked[g] = p
      BY <1>5, <2>2, <3>1, SMTT(20) DEF GetsOK, ListenOK
    <3> QED  BY <2>1, <3>1, <3>2
  <2>3. Listening(x, g)
    BY DEF Listening
  <2> QED  BY <2>1, <2>2, <2>3 DEF Listening
<1>9. ASSUME NEW i \in 1..m
      PROVE  y.main[i].g \in 1..Len(asked)
  <2>1. CASE i \in 1..n
    BY <1>2, <2>1 DEF GetsOK
  <2>2. CASE i - n \in 1..d
    <3>1. y.main[i].g = s[i - n]
      <4> HIDE DEF n, m, d, s
      <4> QED  BY <1>4, <2>2
    <3> QED  BY <1>8, <2>2, <3>1
  <2> QED  BY <1>3, <2>1, <2>2
<1>10. ASSUME NEW i \in 1..m, y.main[i].what = "error"
       PROVE  /\ ~Listening(y, y.main[i].g)
              /\ \A j \in (i + 1)..m : y.main[j].g # y.main[i].g
  <2>1. CASE i \in 1..n
    <3>1. /\ ~Listening(x, x.main[i].g)
          /\ \A j \in (i + 1)..n : x.main[j].g # x.main[i].g
      BY <1>2, <1>10, <2>1 DEF GetsOK
    <3>2. ~Listening(y, y.main[i].g)
      BY <1>2, <1>7, <2>1, <3>1
    <3>3. ASSUME NEW j \in (i + 1)..m
          PROVE  y.main[j].g # y.main[i].g
      <4>1. CASE j \in 1..n
        <5>1. j \in (i + 1)..n
          <6> HIDE DEF n, m, d, s
          <6> QED  BY <1>1, <4>1
        <5> QED  BY <1>2, <2>1, <3>1, <4>1, <5>1
      <4>2. CASE j - n \in 1..d
        <5>1. j \in 1..m
          <6> HIDE DEF n, m, d, s
          <6> QED  BY <1>1, <2>1
        <5>2. y.main[j].g = s[j - n]
          <6> HIDE DEF n, m, d, s
          <6> QED  BY <1>4, <4>2, <5>1
        <5>3. Listening(x, y.main[j].g)
          BY <1>8, <4>2, <5>2
        <5> QED  BY <1>2, <2>1, <3>1, <5>3
      <4>3. j \in 1..m
        <5> HIDE DEF n, m, d, s
        <5> QED  BY <1>1, <2>1
      <4> QED  BY <1>3, <4>1, <4>2, <4>3
    <3> QED  BY <3>2, <3>3
  <2>2. CASE i - n \in 1..d
    <3> DEFINE k == i - n
    <3>1. y.main[i].g = s[k]
      <4> HIDE DEF n, m, d, s
      <4> QED  BY <1>4, <2>2
    <3>2. ~Listening(y, y.main[i].g)
      BY <1>8, <2>2, <3>1
    <3>3. ASSUME NEW j \in (i + 1)..m
          PROVE  y.main[j].g # y.main[i].g
      <4> DEFINE l == j - n
      <4>1. j \in 1..m /\ l \in 1..d /\ l # k
        <5> HIDE DEF n, m, d, s
        <5> QED  BY <1>1, <2>2
      <4>2. y.main[j].g = s[l]
        <5> HIDE DEF n, m, d, s
        <5> QED  BY <1>4, <4>1
      <4>3. Once(s)
        BY DEF GetsOK, ListenOK
      <4> HIDE DEF l, k
      <4>4. k \in 1..d
        BY <2>2 DEF k
      <4> QED  BY <3>1, <4>1, <4>2, <4>3, <4>4 DEF Once
    <3> QED  BY <3>2, <3>3
  <2> QED  BY <1>3, <2>1, <2>2
<1>11. ASSUME NEW g, Silent(x, g)
       PROVE  Silent(y, g)
  <2>1. ~Listening(y, g)
    BY <1>7, <1>11 DEF Silent
  <2>2. ASSUME NEW i \in 1..m
        PROVE  y.main[i].g # g
    <3>1. CASE i \in 1..n
      BY <1>2, <1>11, <3>1 DEF Silent
    <3>2. CASE i - n \in 1..d
      <4>1. y.main[i].g = s[i - n]
        <5> HIDE DEF n, m, d, s
        <5> QED  BY <1>4, <3>2
      <4>2. Listening(x, y.main[i].g)
        BY <1>8, <3>2, <4>1
      <4> QED  BY <1>11, <4>2 DEF Silent
    <3> QED  BY <1>3, <3>1, <3>2
  <2> QED  BY <2>1, <2>2 DEF Silent
<1> QED  BY <1>6, <1>9, <1>10, <1>11 DEF GetsOK
-----------------------------------------------------------------------------
(* The specification.                                                        *)

IInv == TypeOK /\ Good(c) /\ GetsOK(c, query) /\ AnswersOK

\* What holds of the client holds after a step that denies no other query.
LEMMA GoodNext ==
  ASSUME Good(c'), denied' = denied
  PROVE  Good(c)'
<1>1. /\ c' \in ClientType /\ StreamOK(c') /\ IdleOK(c') /\ TimerOK(c')
      /\ ViewOK(c') /\ DeniedOK(c') /\ ClosedOK(c')
      /\ IsOpen(c'.stream) => \A q \in Queries \ denied : TargetOK(c', q)
  BY DEF Good, Sound, WatchOK
<1>2. (c \in ClientType)' /\ StreamOK(c)' /\ IdleOK(c)' /\ TimerOK(c)'
  BY <1>1 DEF StreamOK, IdleOK, TimerOK, IsOpen, IsStarted, Targets
<1>3. ViewOK(c)' /\ DeniedOK(c)' /\ ClosedOK(c)'
  BY <1>1 DEF ViewOK, DeniedOK, ClosedOK, IsOpen, NewTarget, NotServed
<1>4. (IsOpen(c.stream) => \A q \in Queries \ denied : TargetOK(c, q))'
  BY <1>1 DEF IsOpen, TargetOK, Agree, Says, Knows, AnswersOf, Targets
<1> QED  BY <1>2, <1>3, <1>4 DEF Good, Sound, WatchOK

LEMMA InitInv == Init => IInv
<1> SUFFICES ASSUME Init PROVE IInv
  OBVIOUS
<1>1. /\ c.enabled = TRUE /\ c.stream = NewStream /\ c.replies = <<>>
      /\ c.served = [q \in Queries |-> NotServed] /\ c.target = [q \in Queries |-> NewTarget]
      /\ c.online = "Unknown" /\ c.failed = FALSE /\ c.timer = FALSE
      /\ c.listens = [q \in Queries |-> 0] /\ c.listeners = [q \in Queries |-> <<>>]
      /\ c.view = [q \in Queries |-> 0] /\ c.raised = {} /\ c.main = <<>>
  BY DEF Init, NewClient
<1>2. c \in ClientType
  <2>1. c.listeners \in [Queries -> Seq(Gets)]
    <3>1. <<>> \in Seq(Gets)
      OBVIOUS
    <3> QED  BY <1>1, <3>1
  <2>2. c.stream \in StreamType
    BY <1>1 DEF NewStream, StreamType
  <2>3. c.served \in [Queries -> [listen : Nat, current : BOOLEAN]]
    BY <1>1 DEF NotServed
  <2>4. c.target \in [Queries -> [out : Int, current : Nat, dirty : BOOLEAN]]
    BY <1>1 DEF NewTarget
  <2>5. /\ c.replies \in Seq([kind : {"added", "removed", "rejected", "current", "change", "snapshot"},
                              q : Queries, listen : Nat])
        /\ c.main \in Seq([g : Gets, what : {"server", "cache", "error"}])
    BY <1>1
  <2>6. c.listens \in [Queries -> Nat] /\ c.view \in [Queries -> Nat] /\ c.raised \in SUBSET Gets
    BY <1>1
  <2>7. c.enabled \in BOOLEAN /\ c.online \in OnlineStates /\ c.failed \in BOOLEAN /\ c.timer \in BOOLEAN
    BY <1>1 DEF OnlineStates
  <2> DEFINE w == [enabled |-> c.enabled, stream |-> c.stream, replies |-> c.replies,
                   served |-> c.served, target |-> c.target, online |-> c.online,
                   failed |-> c.failed, timer |-> c.timer, listens |-> c.listens,
                   listeners |-> c.listeners, view |-> c.view, raised |-> c.raised, main |-> c.main]
  <2>8. c = w
    BY <1>1 DEF Init, NewClient
  <2>9. w \in ClientType
    BY <2>1, <2>2, <2>3, <2>4, <2>5, <2>6, <2>7 DEF ClientType
  <2> HIDE DEF w
  <2> QED  BY <2>8, <2>9
<1>3. TypeOK
  <2>1. query = <<>> /\ query \in Seq(Queries) /\ denied \subseteq Deniable
        /\ removing = {} /\ muted = {} /\ answers \in [Gets -> Nat]
    BY DEF Init
  <2>2. events \in 0..MaxEvents
    BY GetsAssumption DEF Init
  <2> QED  BY <1>2, <2>1, <2>2 DEF TypeOK
<1>4. Targets(c) = {}
  BY <1>1 DEF Targets
<1>5. StreamOK(c) /\ IdleOK(c) /\ TimerOK(c) /\ ~IsOpen(c.stream)
  BY <1>1, <1>4 DEF StreamOK, IdleOK, TimerOK, NewStream, IsOpen
<1>6. ViewOK(c) /\ DeniedOK(c) /\ ClosedOK(c)
  <2>1. Len(c.replies) = 0
    BY <1>1
  <2> QED  BY <1>1, <2>1 DEF ViewOK, DeniedOK, ClosedOK, NewTarget
<1>7. Good(c)
  BY <1>2, <1>5, <1>6 DEF Good, Sound, WatchOK
<1>8. GetsOK(c, query)
  <2>1. Len(c.main) = 0 /\ \A q \in Queries : Len(c.listeners[q]) = 0
    BY <1>1
  <2> QED  BY <2>1 DEF GetsOK, ListenOK, Once
<1>9. AnswersOK
  BY DEF AnswersOK, Init
<1> QED  BY <1>3, <1>7, <1>8, <1>9 DEF IInv

\* Whatever the connection does, the gets are as they were.
LEMMA RunsKeeps ==
  ASSUME NEW x \in ClientType, NEW y, Runs(x, y), NEW asked, Len(asked) \in Nat, GetsOK(x, asked)
  PROVE  GetsOK(y, asked) /\ \A g \in 1..Len(asked) : Silent(x, g) => Silent(y, g)
<1>1. Grown(x, y) /\ y \in ClientType /\ y.listeners = x.listeners
  BY RunsGrown DEF Runs
<1>2. ListenOK(y, asked)
  BY <1>1 DEF GetsOK, ListenOK
<1>3. \A g : Listening(y, g) => Listening(x, g)
  BY <1>1 DEF Listening
<1> QED  BY <1>1, <1>2, <1>3, GrownKeeps

\* A step that leaves the gets, and who is to be answered, alone.
LEMMA KeptNext ==
  ASSUME IInv, Good(c'), GetsOK(c', query), \A g \in 1..Len(query) : Silent(c, g) => Silent(c', g),
         KeepOutside, events' \in 0..MaxEvents
  PROVE  IInv'
<1>1. Good(c)'
  BY GoodNext DEF KeepOutside
<1>2. GetsOK(c, query)'
  BY DEF KeepOutside, GetsOK, ListenOK, Listening, Once
<1>3. TypeOK'
  BY DEF IInv, TypeOK, KeepOutside, Good, Sound
<1>4. ASSUME NEW g \in 1..Len(query), Silent(c, g)
      PROVE  Silent(c, g)'
  <2>1. Silent(c', g)
    BY <1>4
  <2> QED  BY <2>1 DEF Silent, Listening
<1>5. AnswersOK'
  <2>1. muted' = muted /\ query' = query /\ answers' = answers
    BY DEF KeepOutside
  <2>2. ASSUME NEW g \in Gets
        PROVE  /\ answers'[g] <= 1
               /\ answers'[g] # 0 => g \in 1..Len(query') /\ (g \in muted' \/ Silent(c, g)')
    BY <1>4, <2>1 DEF IInv, AnswersOK
  <2> QED  BY <2>1, <2>2 DEF IInv, AnswersOK
<1> QED  BY <1>1, <1>2, <1>3, <1>5 DEF IInv

LEMMA RunsNext ==
  ASSUME IInv, Good(c'), Runs(c, c'), KeepOutside, events' \in 0..MaxEvents
  PROVE  IInv'
<1>1. c \in ClientType /\ GetsOK(c, query) /\ Len(query) \in Nat
  BY LenProperties DEF IInv, TypeOK
<1>2. GetsOK(c', query) /\ \A g \in 1..Len(query) : Silent(c, g) => Silent(c', g)
  BY <1>1, RunsKeeps
<1> QED  BY <1>2, KeptNext
LEMMA Facts ==
  ASSUME IInv
  PROVE  /\ c \in ClientType /\ Good(c) /\ Sound(c) /\ TimerOK(c) /\ StreamOK(c) /\ IdleOK(c) /\ WatchOK(c)
         /\ GetsOK(c, query) /\ AnswersOK /\ c.stream \in StreamType
         /\ query \in Seq(Queries) /\ Len(query) \in Nat
         /\ events \in 0..MaxEvents /\ MaxEvents \in Nat /\ denied \in SUBSET Queries
<1>1. c \in ClientType /\ query \in Seq(Queries) /\ events \in 0..MaxEvents /\ denied \subseteq Deniable
  BY DEF IInv, TypeOK
<1>2. c.stream \in StreamType /\ Len(query) \in Nat
  BY <1>1, Fields, LenProperties
<1>3. MaxEvents \in Nat /\ denied \in SUBSET Queries
  BY <1>1, GetsAssumption
<1> QED  BY <1>1, <1>2, <1>3 DEF IInv, Good, Sound

LEMMA FailInv == ASSUME IInv, Fail PROVE IInv'
<1>1. c' = Close_(c, FALSE) /\ IsStarted(c.stream)
  BY DEF Fail, IsStarted
<1>2. Runs(c, c') /\ Good(c')
  BY <1>1, Facts, CloseKeeps
<1>3. events' \in 0..MaxEvents
  BY Facts DEF Fail, Event
<1> QED  BY <1>2, <1>3, RunsNext DEF Fail

LEMMA SetNetworkInv == ASSUME IInv, SetNetwork PROVE IInv'
<1>1. Runs(c, c') /\ Good(c')
  BY Facts, EnableKeeps, DisableKeeps DEF SetNetwork
<1>2. events' \in 0..MaxEvents
  BY Facts DEF SetNetwork, Event
<1> QED  BY <1>1, <1>2, RunsNext DEF SetNetwork

LEMMA OnNetworkChangeInv == ASSUME IInv, OnNetworkChange PROVE IInv'
<1>1. Runs(c, c') /\ Good(c')
  BY Facts, RestartKeeps DEF OnNetworkChange
<1>2. events' \in 0..MaxEvents
  BY Facts DEF OnNetworkChange, Event
<1> QED  BY <1>1, <1>2, RunsNext DEF OnNetworkChange

LEMMA OnIdleTimeoutInv == ASSUME IInv, OnIdleTimeout PROVE IInv'
<1>1. c' = Stop(c) /\ Targets(c) = {}
  BY Facts DEF OnIdleTimeout, IdleOK
<1>2. Runs(c, c') /\ Good(c')
  BY <1>1, Facts, StopKeeps
<1>3. events' \in 0..MaxEvents
  BY Facts DEF OnIdleTimeout
<1> QED  BY <1>2, <1>3, RunsNext DEF OnIdleTimeout

LEMMA OnOnlineStateTimeoutInv == ASSUME IInv, OnOnlineStateTimeout PROVE IInv'
<1> DEFINE v == [c EXCEPT !.timer = FALSE]
           w == Assert_(v, c.online = "Unknown")
           y == SetAndBroadcast(w, "Offline")
<1>1. c' = y /\ c.timer
  BY DEF OnOnlineStateTimeout
<1>2. c \in ClientType /\ c.stream \in StreamType /\ c.stream.ok /\ c.online = "Unknown" /\ ~c.failed
  BY <1>1, Facts DEF TimerOK, StreamOK
<1>3. HardAssert(c.stream, c.online = "Unknown") = c.stream
  BY <1>2 DEF HardAssert, StreamType
<1>4. w = [c EXCEPT !.timer = FALSE, !.stream = c.stream]
  BY <1>2, <1>3 DEF Assert_, ClientType
<1>5. /\ w \in ClientType /\ Same(c, w) /\ w.main = c.main /\ w.view = c.view
      /\ w.online = c.online /\ w.failed = c.failed /\ ~w.timer
  <2> HIDE DEF w
  <2> QED  BY <1>2, <1>4 DEF ClientType, Same
<1>6. Tells(c, w)
  <2>1. Len(c.main) \in Nat
    BY <1>2, Fields
  <2> HIDE DEF w
  <2> QED  BY <1>5, <2>1 DEF Tells, MainGrows
<1> HIDE DEF w
<1>7. Tells(w, y) /\ y.online = "Offline" /\ y.failed = w.failed /\ y.timer = w.timer
  BY <1>5, Broadcast DEF OnlineStates
<1> HIDE DEF y
<1>8. Tells(c, y)
  BY <1>2, <1>6, <1>7, TellsOn
<1>9. WatchOK(y) /\ IdleOK(y) /\ StreamOK(y) /\ TimerOK(y)
  BY <1>2, <1>5, <1>7, <1>8, Facts, TellsKeeps DEF TimerOK
<1>10. Runs(c, y) /\ Good(y)
  BY <1>8, <1>9, TellsRuns DEF Tells, Good, Sound
<1>11. events' \in 0..MaxEvents
  BY Facts DEF OnOnlineStateTimeout
<1> QED  BY <1>1, <1>10, <1>11, RunsNext DEF OnOnlineStateTimeout

\* The assertions of a stream that is told of its backoff or its token hold.
LEMMA OnBackoffElapsedInv == ASSUME IInv, OnBackoffElapsed PROVE IInv'
<1> DEFINE t == BackoffElapsed(c.stream)
           y == [c EXCEPT !.stream = t]
<1>1. /\ c' = y /\ c.stream.backoff /\ c.stream.state = "Backoff" /\ c.stream.asked = {}
      /\ c.stream \in StreamType /\ c.stream.ok /\ ~c.stream.idle /\ c \in ClientType
  BY Facts DEF OnBackoffElapsed, StreamOK, IsOpen
<1>2. t = [c.stream EXCEPT !.state = "Starting", !.backoff = FALSE, !.asked = {c.stream.count}]
  <2> DEFINE u == [HardAssert(c.stream, c.stream.state = "Backoff")
                      EXCEPT !.state = "Initial", !.backoff = FALSE]
  <2>1. HardAssert(c.stream, c.stream.state = "Backoff") = c.stream
    BY <1>1 DEF HardAssert, StreamType
  <2>2. u = [c.stream EXCEPT !.state = "Initial", !.backoff = FALSE] /\ u \in StreamType
    BY <1>1, <2>1 DEF StreamType
  <2>3. u.state = "Initial" /\ u.ok /\ u.asked = {} /\ u.count = c.stream.count
    BY <1>1, <2>2 DEF StreamType
  <2>4. t = StartNow(u)
    BY DEF BackoffElapsed
  <2> HIDE DEF u, t
  <2>5. HardAssert(u, u.state = "Initial") = u
    BY <2>2, <2>3 DEF HardAssert, StreamType
  <2>6. t = [u EXCEPT !.state = "Starting", !.asked = {c.stream.count}]
    BY <2>3, <2>4, <2>5 DEF StartNow
  <2> QED  BY <1>1, <2>2, <2>6 DEF StreamType
<1> HIDE DEF t
<1>3. /\ t \in StreamType /\ t.state = "Starting" /\ ~t.backoff /\ t.ok /\ ~t.idle
  BY <1>1, <1>2 DEF StreamType
<1>4. /\ y \in ClientType /\ y.stream = t /\ y.main = c.main /\ y.listens = c.listens
      /\ y.listeners = c.listeners /\ y.view = c.view /\ y.online = c.online
      /\ y.failed = c.failed /\ y.timer = c.timer /\ y.replies = c.replies
      /\ y.served = c.served /\ y.target = c.target
  BY <1>1, <1>3 DEF ClientType
<1> HIDE DEF y
<1>5. Runs(c, y) /\ Targets(y) = Targets(c)
  BY <1>1, <1>4, RunsSame
<1>6. StreamOK(y) /\ IdleOK(y) /\ TimerOK(y)
  BY <1>1, <1>3, <1>4, <1>5, Facts DEF StreamOK, IdleOK, TimerOK, IsStarted
<1>7. WatchOK(y)
  <2>1. ~IsOpen(c.stream) /\ ~IsOpen(y.stream)
    BY <1>1, <1>3, <1>4 DEF IsOpen
  <2>2. ViewOK(y) /\ DeniedOK(y) /\ ClosedOK(y)
    BY <1>1, <1>4, <2>1, Facts DEF WatchOK, ViewOK, DeniedOK, ClosedOK
  <2> QED  BY <2>1, <2>2 DEF WatchOK
<1>8. Good(y)
  BY <1>4, <1>6, <1>7 DEF Good, Sound
<1>9. events' \in 0..MaxEvents
  BY Facts DEF OnBackoffElapsed
<1> QED  BY <1>1, <1>5, <1>8, <1>9, RunsNext DEF OnBackoffElapsed

\* Nothing has been asked or answered on a stream that has just opened.
LEMMA OpenAgrees ==
  ASSUME NEW q, NEW l, NEW b
  PROVE  Agree(<<>>, q, NewTarget, NotServed, l, b)
<1>1. Len(<<>>) = 0 /\ AnswersOf(<<>>, q) = {}
  BY DEF AnswersOf
<1>2. Cardinality(AnswersOf(<<>>, q)) = 0
  BY <1>1, FS_EmptySet
<1> QED  BY <1>1, <1>2 DEF Agree, NewTarget, NotServed

LEMMA OnWatchStreamOpenInv == ASSUME IInv, OnWatchStreamOpen PROVE IInv'
<1> DEFINE t == [ResumeStart(c.stream) EXCEPT !.asked = {}]
           w == [c EXCEPT !.stream = t]
           y == SendAll(w)
<1>1. /\ c' = y /\ c.stream.state = "Starting" /\ ~c.stream.backoff
      /\ c.stream \in StreamType /\ c.stream.ok /\ ~c.stream.idle /\ c \in ClientType
  BY Facts DEF OnWatchStreamOpen, StreamOK, IsOpen
<1>2. /\ t \in StreamType /\ t.state = "Open" /\ ~t.backoff /\ t.ok /\ ~t.idle /\ t.asked = {}
  <2>1. HardAssert(c.stream, c.stream.state = "Starting") = c.stream
    BY <1>1 DEF HardAssert, StreamType
  <2>2. t = [c.stream EXCEPT !.state = "Open", !.asked = {}]
    BY <1>1, <2>1 DEF ResumeStart, StreamType
  <2> HIDE DEF t
  <2> QED  BY <1>1, <2>2 DEF StreamType
<1> HIDE DEF t
<1>3. /\ w \in ClientType /\ w.stream = t /\ w.main = c.main /\ w.listens = c.listens
      /\ w.listeners = c.listeners /\ w.view = c.view /\ w.online = c.online
      /\ w.failed = c.failed /\ w.timer = c.timer /\ w.replies = c.replies
      /\ w.served = c.served /\ w.target = c.target
  BY <1>1, <1>2 DEF ClientType
<1> HIDE DEF w
<1>4. Runs(c, w) /\ Targets(w) = Targets(c)
  BY <1>1, <1>3, RunsSame
<1>5. StreamOK(w) /\ IdleOK(w) /\ TimerOK(w) /\ IsOpen(w.stream)
  BY <1>1, <1>2, <1>3, <1>4, Facts DEF StreamOK, IdleOK, TimerOK, IsStarted, IsOpen
<1>6. w.replies = <<>> /\ \A q \in Queries : w.served[q] = NotServed /\ w.target[q] = NewTarget
  BY <1>1, <1>3, Facts DEF WatchOK, ClosedOK, IsOpen
<1>7. WatchOK(w)
  <2>1. ViewOK(w) /\ DeniedOK(w)
    BY <1>1, <1>3, Facts DEF WatchOK, ViewOK, DeniedOK
  <2>2. ClosedOK(w)
    BY <1>2, <1>3, <1>5 DEF ClosedOK
  <2>3. \A q \in Queries : TargetOK(w, q)
    BY <1>6, OpenAgrees DEF TargetOK
  <2> QED  BY <2>1, <2>2, <2>3 DEF WatchOK
<1>8. Goes(w, y) /\ StreamOK(y) /\ IdleOK(y) /\ WatchOK(y) /\ IsOpen(y.stream)
  BY <1>3, <1>5, <1>7, SendAllKeeps
<1> HIDE DEF y
<1>9. Runs(w, y) /\ TimerOK(y) /\ y \in ClientType
  BY <1>3, <1>5, <1>8, GoesRuns DEF Goes, TimerOK, IsStarted, IsOpen
<1>10. Runs(c, y) /\ Good(y)
  BY <1>1, <1>4, <1>8, <1>9, RunsOn DEF Good, Sound
<1>11. events' \in 0..MaxEvents
  BY Facts DEF OnWatchStreamOpen
<1> QED  BY <1>1, <1>10, <1>11, RunsNext DEF OnWatchStreamOpen
LEMMA OnReplyInv == ASSUME IInv, OnReply PROVE IInv'
<1> DEFINE y == OnWatchStreamChange([c EXCEPT !.replies = Tail(@)], Head(c.replies))
<1>1. c' = y /\ c.replies # <<>> /\ c \in ClientType /\ GetsOK(c, query) /\ Len(query) \in Nat
  BY Facts DEF OnReply
<1>2. /\ Good(y)
      /\ \/ MainGrows(c, y) /\ y.listeners = c.listeners
         \/ \E w \in ClientType : \E q \in Queries :
               MainGrows(c, w) /\ w.listeners = c.listeners /\ Fails(w, y, q)
  BY <1>1, Facts, ReplyKeeps
<1> HIDE DEF y
<1>3. ASSUME NEW w \in ClientType, MainGrows(c, w), w.listeners = c.listeners
      PROVE  GetsOK(w, query) /\ \A g \in 1..Len(query) : Silent(c, g) => Silent(w, g)
  <2>1. Grown(c, w)
    BY <1>3 DEF MainGrows, Grown, Listening
  <2>2. ListenOK(w, query)
    BY <1>1, <1>3 DEF GetsOK, ListenOK
  <2>3. \A g : Listening(w, g) => Listening(c, g)
    BY <1>3 DEF Listening
  <2> QED  BY <1>1, <1>3, <2>1, <2>2, <2>3, GrownKeeps
<1>4. y \in ClientType
  BY <1>2 DEF Good, Sound
<1>5. GetsOK(y, query) /\ \A g \in 1..Len(query) : Silent(c, g) => Silent(y, g)
  <2>1. CASE MainGrows(c, y) /\ y.listeners = c.listeners
    BY <1>3, <1>4, <2>1
  <2>2. ASSUME NEW w \in ClientType, NEW q \in Queries, MainGrows(c, w),
               w.listeners = c.listeners, Fails(w, y, q)
        PROVE  GetsOK(y, query) /\ \A g \in 1..Len(query) : Silent(c, g) => Silent(y, g)
    <3>1. GetsOK(w, query) /\ \A g \in 1..Len(query) : Silent(c, g) => Silent(w, g)
      BY <1>3, <2>2
    <3>2. GetsOK(y, query) /\ \A g : Silent(w, g) => Silent(y, g)
      BY <1>4, <2>2, <3>1, FailsKeeps
    <3> QED  BY <3>1, <3>2
  <2> QED  BY <1>2, <2>1, <2>2
<1>6. events' \in 0..MaxEvents
  BY Facts DEF OnReply
<1> QED  BY <1>1, <1>2, <1>5, <1>6, KeptNext DEF OnReply

\* A new get listens to its query, and has had no event.
LEMMA GetDocumentsInv == ASSUME IInv, GetDocuments PROVE IInv'
<1> DEFINE n == Len(query)
           g == n + 1
<1>1. PICK q \in Queries : query' = Append(query, q) /\ c' = AddQueryListener(c, g, q)
  BY DEF GetDocuments
<1>2. /\ c \in ClientType /\ Good(c) /\ GetsOK(c, query) /\ n \in Nat /\ n < MaxGets
      /\ query \in Seq(Queries) /\ AnswersOK
  BY Facts DEF GetDocuments
<1> DEFINE more == Append(query, q)
<1>3. /\ more \in Seq(Queries) /\ Len(more) = g /\ more[g] = q
      /\ \A i \in 1..n : more[i] = query[i]
  BY <1>2, AppendProperties
<1>4. g \in Nat /\ g \in 1..g /\ g \notin 1..n /\ n <= g /\ \A i \in 1..n : i \in 1..g
  <2> HIDE DEF n
  <2> QED  BY <1>2
<1>5. g \in Gets
  <2>1. MaxGets \in Nat
    BY GetsAssumption
  <2> HIDE DEF n
  <2> QED  BY <1>2, <2>1 DEF Gets
<1> HIDE DEF g, more
<1>6. /\ Good(c') /\ Grown(c, c')
      /\ c'.listeners = [c.listeners EXCEPT ![q] = Append(@, g)]
  BY <1>1, <1>2, <1>5, AddKeeps
<1>7. c.listeners \in [Queries -> Seq(Gets)]
  BY <1>2, Fields
<1> DEFINE s == c.listeners[q]
           a == Append(s, g)
<1>8. /\ s \in Seq(Gets) /\ Len(s) \in Nat /\ Len(a) = Len(s) + 1 /\ a[Len(s) + 1] = g
      /\ \A i \in 1..Len(s) : a[i] = s[i]
  BY <1>5, <1>7, AppendProperties, LenProperties
<1>9. \A i \in 1..Len(a) : i \in 1..Len(s) \/ i = Len(s) + 1
  <2> HIDE DEF s, a
  <2> QED  BY <1>8
<1>10. c'.listeners[q] = a /\ \A p \in Queries : p # q => c'.listeners[p] = c.listeners[p]
  BY <1>6, <1>7
<1>11. Once(s) /\ \A i \in 1..Len(s) : s[i] \in 1..n /\ query[s[i]] = q
  BY <1>2 DEF GetsOK, ListenOK
<1>12. ListenOK(c', more)
  <2>1. Once(a)
    <3> SUFFICES ASSUME NEW i \in 1..Len(a), NEW j \in 1..Len(a), a[i] = a[j] PROVE i = j
      BY DEF Once
    <3> HIDE DEF s, a, n
    <3> QED  BY <1>4, <1>8, <1>9, <1>11 DEF Once
  <2>2. ASSUME NEW i \in 1..Len(a)
        PROVE  a[i] \in 1..g /\ more[a[i]] = q
    <3>1. CASE i \in 1..Len(s)
      BY <1>3, <1>4, <1>8, <1>11, <3>1
    <3>2. CASE i = Len(s) + 1
      BY <1>3, <1>4, <1>8, <3>2
    <3> QED  BY <1>9, <3>1, <3>2
  <2>3. ASSUME NEW p \in Queries, p # q
        PROVE  /\ Once(c.listeners[p])
               /\ \A i \in 1..Len(c.listeners[p]) :
                     c.listeners[p][i] \in 1..g /\ more[c.listeners[p][i]] = p
    BY <1>2, <1>3, <1>4 DEF GetsOK, ListenOK
  <2> HIDE DEF a, s, n
  <2> QED  BY <1>3, <1>10, <2>1, <2>2, <2>3 DEF ListenOK
<1>13. ASSUME NEW k \in 1..n, Listening(c', k)
       PROVE  Listening(c, k)
  <2>0. PICK p \in Queries : \E i \in 1..Len(c'.listeners[p]) : c'.listeners[p][i] = k
    BY <1>13 DEF Listening
  <2>1. PICK i \in 1..Len(c'.listeners[p]) : c'.listeners[p][i] = k
    BY <2>0
  <2>2. CASE p = q
    <3>1. i \in 1..Len(s)
      BY <1>4, <1>8, <1>9, <1>10, <2>1, <2>2
    <3> QED  BY <1>8, <1>10, <2>1, <2>2, <3>1 DEF Listening
  <2>3. CASE p # q
    BY <1>10, <2>1, <2>3 DEF Listening
  <2> QED  BY <2>2, <2>3
<1>14. c' \in ClientType
  BY <1>6 DEF Good, Sound
<1>15. GetsOK(c', more) /\ \A k \in 1..n : Silent(c, k) => Silent(c', k)
  <2> HIDE DEF a, s
  <2> QED  BY <1>2, <1>3, <1>4, <1>6, <1>12, <1>13, <1>14, GrownKeeps
<1>16. query' = more /\ denied' = denied /\ muted' = muted /\ answers' = answers
       /\ removing' = removing /\ events' = events
  BY <1>1 DEF GetDocuments, more
<1>17. GetsOK(c, query)'
  BY <1>15, <1>16 DEF GetsOK, ListenOK, Listening, Once
<1>18. Good(c)'
  BY <1>6, <1>16, GoodNext
<1>19. AnswersOK'
  <2>1. muted' \subseteq 1..Len(query')
    BY <1>2, <1>3, <1>4, <1>16 DEF AnswersOK
  <2>2. ASSUME NEW k \in 1..n, Silent(c, k)
        PROVE  Silent(c, k)'
    <3>1. Silent(c', k)
      BY <1>15, <2>2
    <3> QED  BY <3>1 DEF Silent, Listening
  <2>3. ASSUME NEW k \in Gets
        PROVE  /\ answers'[k] <= 1
               /\ answers'[k] # 0 => k \in 1..Len(query') /\ (k \in muted' \/ Silent(c, k)')
    BY <1>2, <1>3, <1>4, <1>16, <2>2 DEF AnswersOK
  <2> QED  BY <2>1, <2>3 DEF AnswersOK
<1>20. TypeOK'
  BY <1>3, <1>14, <1>16 DEF IInv, TypeOK
<1> QED  BY <1>17, <1>18, <1>19, <1>20 DEF IInv

LEMMA RemoveListenerInv == ASSUME IInv, RemoveListener PROVE IInv'
<1>1. PICK g \in removing : removing' = removing \ {g} /\ c' = RemoveQueryListener(c, g, query[g])
  BY DEF RemoveListener
<1> DEFINE q == query[g]
<1>2. /\ c \in ClientType /\ Good(c) /\ GetsOK(c, query) /\ Len(query) \in Nat
      /\ query \in Seq(Queries) /\ AnswersOK
  BY Facts
<1>3. g \in 1..Len(query) /\ g \in Gets /\ q \in Queries
  <2>1. g \in muted /\ muted \subseteq 1..Len(query) /\ muted \subseteq Gets
    BY <1>2 DEF IInv, TypeOK, AnswersOK
  <2>2. \A i \in 1..Len(query) : query[i] \in Queries
    BY <1>2
  <2> QED  BY <2>1, <2>2
<1> HIDE DEF q
<1>4. Once(c.listeners[q])
  BY <1>2, <1>3 DEF GetsOK, ListenOK
<1>5. Good(c') /\ Grown(c, c') /\ Leaves(c, c', g, q)
  BY <1>1, <1>2, <1>3, <1>4, RemoveKeeps DEF q
<1>6. c' \in ClientType
  BY <1>5 DEF Good, Sound
<1>7. ListenOK(c', query)
  <2>1. Once(c'.listeners[q]) /\ \A i \in 1..Len(c'.listeners[q]) :
           \E j \in 1..Len(c.listeners[q]) : c'.listeners[q][i] = c.listeners[q][j]
    BY <1>4, <1>5 DEF Leaves
  <2>2. \A p \in Queries : p # q => c'.listeners[p] = c.listeners[p]
    BY <1>5 DEF Leaves
  <2>3. \A i \in 1..Len(c'.listeners[q]) :
           c'.listeners[q][i] \in 1..Len(query) /\ query[c'.listeners[q][i]] = q
    <3>1. \A j \in 1..Len(c.listeners[q]) :
             c.listeners[q][j] \in 1..Len(query) /\ query[c.listeners[q][j]] = q
      BY <1>2, <1>3 DEF GetsOK, ListenOK
    <3> QED  BY <2>1, <3>1
  <2> QED  BY <1>2, <2>1, <2>2, <2>3 DEF GetsOK, ListenOK
<1>8. ASSUME NEW k, Listening(c', k)
      PROVE  Listening(c, k)
  BY <1>3, <1>5, <1>8 DEF Listening, Leaves
<1>9. GetsOK(c', query) /\ \A k \in 1..Len(query) : Silent(c, k) => Silent(c', k)
  BY <1>2, <1>5, <1>6, <1>7, <1>8, GrownKeeps
<1>10. /\ query' = query /\ denied' = denied /\ muted' = muted /\ answers' = answers
       /\ removing' \subseteq removing /\ events' = events
  BY <1>1 DEF RemoveListener
<1>11. GetsOK(c, query)'
  BY <1>9, <1>10 DEF GetsOK, ListenOK, Listening, Once
<1>12. Good(c)'
  BY <1>5, <1>10, GoodNext
<1>13. AnswersOK'
  <2>1. ASSUME NEW k \in 1..Len(query), Silent(c, k)
        PROVE  Silent(c, k)'
    <3>1. Silent(c', k)
      BY <1>9, <2>1
    <3> QED  BY <3>1 DEF Silent, Listening
  <2>2. ASSUME NEW k \in Gets
        PROVE  /\ answers'[k] <= 1
               /\ answers'[k] # 0 => k \in 1..Len(query') /\ (k \in muted' \/ Silent(c, k)')
    BY <1>2, <1>10, <2>1 DEF AnswersOK
  <2> QED  BY <1>2, <1>10, <2>2 DEF AnswersOK
<1>14. TypeOK'
  BY <1>6, <1>10 DEF IInv, TypeOK
<1> QED  BY <1>11, <1>12, <1>13, <1>14 DEF IInv
\* A get is called when it was not called before: one that was is muted, or
\* has no event on the queue.
LEMMA OnEventInv == ASSUME IInv, OnEvent PROVE IInv'
<1> DEFINE s == c.main
           e == Head(s)
           r == Tail(s)
           h == e.g
           y == [c EXCEPT !.main = r]
<1>1. /\ c \in ClientType /\ Good(c) /\ GetsOK(c, query) /\ Len(query) \in Nat
      /\ query \in Seq(Queries) /\ AnswersOK /\ c' = y /\ s # <<>> /\ s \in Seq(MainType)
  BY Facts, Fields DEF OnEvent
<1>2. /\ r \in Seq(MainType) /\ e \in MainType /\ s[1] = e /\ Len(s) \in Nat /\ 1 \in 1..Len(s)
      /\ Len(r) = Len(s) - 1 /\ \A i \in 1..Len(r) : r[i] = s[i + 1]
  <2> HIDE DEF s
  <2>1. r \in Seq(MainType) /\ e \in MainType
    BY <1>1, HeadTailProperties
  <2>2. Len(s) \in Nat /\ Len(s) # 0 /\ s[1] = e
    BY <1>1, LenProperties
  <2> QED  BY <1>1, <2>1, <2>2, HeadTailProperties
<1> DEFINE n == Len(s)
<1>3. \A i \in 1..Len(r) : i + 1 \in 1..n /\ i + 1 \in 2..n
  <2> HIDE DEF s, r
  <2> QED  BY <1>2
<1>4. /\ y \in ClientType /\ y.main = r /\ y.stream = c.stream /\ y.listens = c.listens
      /\ y.listeners = c.listeners /\ y.view = c.view /\ y.online = c.online
      /\ y.failed = c.failed /\ y.timer = c.timer /\ y.replies = c.replies
      /\ y.served = c.served /\ y.target = c.target
  <2> HIDE DEF r
  <2> QED  BY <1>1, <1>2 DEF ClientType, MainType
<1>5. h \in 1..Len(query) /\ h \in Gets
  BY <1>1, <1>2 DEF GetsOK, MainType
<1> HIDE DEF y
<1>6. Good(y)
  <2>1. Targets(y) = Targets(c)
    BY <1>4 DEF Targets
  <2>2. StreamOK(y) /\ IdleOK(y) /\ TimerOK(y)
    BY <1>4, <2>1, Facts DEF StreamOK, IdleOK, TimerOK
  <2>3. ViewOK(y) /\ DeniedOK(y) /\ ClosedOK(y)
    BY <1>4, Facts DEF WatchOK, ViewOK, DeniedOK, ClosedOK
  <2>4. \A q \in Queries : TargetOK(c, q) => TargetOK(y, q)
    BY <1>4, <2>1 DEF TargetOK
  <2> QED  BY <1>4, <2>2, <2>3, <2>4, Facts DEF Good, Sound, WatchOK
<1>7. GetsOK(y, query)
  <2>1. ListenOK(y, query)
    BY <1>1, <1>4 DEF GetsOK, ListenOK
  <2>2. ASSUME NEW i \in 1..Len(r)
        PROVE  /\ r[i].g \in 1..Len(query)
               /\ r[i].what = "error" =>
                     /\ ~Listening(y, r[i].g)
                     /\ \A j \in (i + 1)..Len(r) : r[j].g # r[i].g
    <3>1. r[i] = s[i + 1] /\ i + 1 \in 1..n
      BY <1>2, <1>3
    <3>2. /\ s[i + 1].g \in 1..Len(query)
          /\ s[i + 1].what = "error" =>
                /\ ~Listening(c, s[i + 1].g)
                /\ \A j \in ((i + 1) + 1)..n : s[j].g # s[i + 1].g
      BY <1>1, <3>1 DEF GetsOK
    <3>3. \A j \in (i + 1)..Len(r) : j \in 1..Len(r) /\ j + 1 \in ((i + 1) + 1)..n
      <4> HIDE DEF s, r
      <4> QED  BY <1>2
    <3>4. \A j \in (i + 1)..Len(r) : r[j] = s[j + 1]
      BY <1>2, <3>3
    <3>5. Listening(y, r[i].g) => Listening(c, r[i].g)
      BY <1>4 DEF Listening
    <3> HIDE DEF s, r
    <3> QED  BY <3>1, <3>2, <3>3, <3>4, <3>5
  <2> QED  BY <1>4, <2>1, <2>2 DEF GetsOK
<1>8. ASSUME NEW g, Silent(c, g)
      PROVE  Silent(y, g) /\ g # h
  <2>1. \A i \in 1..n : s[i].g # g
    BY <1>8 DEF Silent
  <2>2. \A i \in 1..Len(r) : r[i].g # g
    BY <1>2, <1>3, <2>1
  <2>3. ~Listening(y, g)
    BY <1>4, <1>8 DEF Silent, Listening
  <2> QED  BY <1>2, <1>4, <2>1, <2>2, <2>3 DEF Silent
<1>9. e.what = "error" => Silent(y, h)
  <2> SUFFICES ASSUME e.what = "error" PROVE Silent(y, h)
    OBVIOUS
  <2>1. /\ ~Listening(c, s[1].g)
        /\ \A j \in (1 + 1)..n : s[j].g # s[1].g
    BY <1>1, <1>2 DEF GetsOK
  <2>2. \A i \in 1..Len(r) : r[i].g # h
    BY <1>2, <1>3, <2>1
  <2>3. ~Listening(y, h)
    BY <1>2, <1>4, <2>1 DEF Listening
  <2> QED  BY <1>4, <2>2, <2>3 DEF Silent
<1> HIDE DEF r
<1>10. query' = query /\ denied' = denied /\ events' = events
  BY DEF OnEvent
<1>11. GetsOK(c, query)'
  BY <1>1, <1>7, <1>10 DEF GetsOK, ListenOK, Listening, Once
<1>12. Good(c)'
  BY <1>1, <1>6, <1>10, GoodNext
<1>13. ASSUME NEW g, Silent(y, g)
       PROVE  Silent(c, g)'
  BY <1>1, <1>13 DEF Silent, Listening
<1>14. CASE h \in muted
  <2>1. answers' = answers /\ muted' = muted /\ removing' = removing
    BY <1>14 DEF OnEvent, Delivered
  <2>2. ASSUME NEW g \in Gets
        PROVE  /\ answers'[g] <= 1
               /\ answers'[g] # 0 => g \in 1..Len(query') /\ (g \in muted' \/ Silent(c, g)')
    BY <1>1, <1>8, <1>10, <1>13, <2>1 DEF AnswersOK
  <2>3. AnswersOK'
    BY <1>1, <1>10, <2>1, <2>2 DEF AnswersOK
  <2>4. TypeOK'
    BY <1>1, <1>4, <1>10, <2>1 DEF IInv, TypeOK
  <2> QED  BY <1>11, <1>12, <2>3, <2>4 DEF IInv
<1>15. CASE h \notin muted
  <2>1. answers[h] = 0 /\ answers \in [Gets -> Nat]
    BY <1>1, <1>5, <1>8, <1>15 DEF IInv, TypeOK, AnswersOK
  <2>2. /\ answers' = [answers EXCEPT ![h] = @ + 1]
        /\ IF e.what = "error" THEN UNCHANGED <<muted, removing>>
           ELSE muted' = muted \union {h} /\ removing' = removing \union {h}
    BY <1>15 DEF OnEvent, Delivered
  <2>3. answers' \in [Gets -> Nat] /\ answers'[h] = 1 /\ \A g \in Gets : g # h => answers'[g] = answers[g]
    BY <1>5, <2>1, <2>2
  <2>4. /\ muted' \subseteq muted \union {h} /\ muted \subseteq muted'
        /\ h \in muted' \/ Silent(y, h)
    BY <1>9, <2>2
  <2>5. removing' \subseteq muted'
    BY <2>2 DEF IInv, TypeOK
  <2>6. ASSUME NEW g \in Gets
        PROVE  /\ answers'[g] <= 1
               /\ answers'[g] # 0 => g \in 1..Len(query') /\ (g \in muted' \/ Silent(c, g)')
    <3>1. CASE g = h
      BY <1>5, <1>10, <1>13, <2>3, <2>4, <3>1
    <3>2. CASE g # h
      BY <1>1, <1>8, <1>10, <1>13, <2>3, <2>4, <3>2 DEF AnswersOK
    <3> QED  BY <3>1, <3>2
  <2>7. muted' \subseteq 1..Len(query') /\ muted' \subseteq Gets
    BY <1>1, <1>5, <1>10, <2>4 DEF AnswersOK, IInv, TypeOK
  <2>8. AnswersOK'
    BY <2>6, <2>7 DEF AnswersOK
  <2>9. TypeOK'
    BY <1>1, <1>4, <1>10, <2>3, <2>5, <2>7 DEF IInv, TypeOK
  <2> QED  BY <1>11, <1>12, <2>8, <2>9 DEF IInv
<1> QED  BY <1>14, <1>15

\* What the backend says of its own accord of a listen it serves.
LEMMA NewsKeeps ==
  ASSUME NEW x, Good(x), NEW q \in Queries, x.served[q].listen # 0,
         NEW a \in {"current", "change"}, a = "change" => x.served[q].current,
         NEW w \in ClientType,
         w = [x EXCEPT !.served[q] = IF a = "current" THEN [@ EXCEPT !.current = TRUE] ELSE @]
  PROVE  LET y == Reply(w, <<a, "snapshot">>, q) IN Good(y) /\ Runs(x, y)
<1> DEFINE v == x.served[q]
           u == IF a = "current" THEN [v EXCEPT !.current = TRUE] ELSE v
           kinds == <<a, "snapshot">>
           y == Reply(w, kinds, q)
<1>1. /\ x \in ClientType /\ StreamOK(x) /\ IdleOK(x) /\ WatchOK(x) /\ TimerOK(x)
      /\ x.served \in [Queries -> ServedType] /\ x.replies \in Seq(ReplyType)
      /\ x.target \in [Queries -> TargetType]
  BY Fields DEF Good, Sound, ServedType, ReplyType, Kinds, TargetType
<1>2. v \in ServedType /\ u \in ServedType
  BY <1>1 DEF ServedType
<1>3. kinds \in Seq(Kinds) /\ Len(kinds) = 2 /\ kinds[1] = a /\ kinds[2] = "snapshot"
  <2>1. a \in Kinds /\ "snapshot" \in Kinds
    BY DEF Kinds
  <2> QED  BY <2>1
<1> HIDE DEF kinds
<1>4. IsOpen(x.stream) /\ q \notin denied
  <2>1. x.served[q] # NotServed
    BY DEF NotServed
  <2> QED  BY <1>1, <2>1 DEF WatchOK, ClosedOK, DeniedOK
<1>5. /\ w.served = [x.served EXCEPT ![q] = u] /\ w.stream = x.stream /\ w.main = x.main
      /\ w.listens = x.listens /\ w.listeners = x.listeners /\ w.view = x.view
      /\ w.online = x.online /\ w.failed = x.failed /\ w.timer = x.timer
      /\ w.replies = x.replies /\ w.target = x.target
  BY <1>1 DEF ClientType
<1>6. /\ y = [w EXCEPT !.replies = y.replies] /\ y \in ClientType
      /\ More(w.replies, y.replies, kinds, q, w.listens[q])
  BY <1>3, ReplyIs
<1> HIDE DEF y
<1>7. /\ y.served = [x.served EXCEPT ![q] = u] /\ y.stream = x.stream /\ y.main = x.main
      /\ y.listens = x.listens /\ y.listeners = x.listeners /\ y.view = x.view
      /\ y.online = x.online /\ y.failed = x.failed /\ y.timer = x.timer
      /\ y.target = x.target
  BY <1>5, <1>6 DEF ClientType
<1>8. More(x.replies, y.replies, kinds, q, x.listens[q])
  BY <1>5, <1>6
<1>9. Runs(x, y) /\ Targets(y) = Targets(x)
  BY <1>1, <1>6, <1>7, RunsSame
<1>10. StreamOK(y) /\ IdleOK(y) /\ TimerOK(y)
  BY <1>1, <1>7, <1>9 DEF StreamOK, IdleOK, TimerOK
<1>11. DeniedOK(y)
  <2>1. \A i \in 1..Len(kinds) : MayCome(q, kinds[i])
    BY <1>3, <1>4 DEF MayCome
  <2>2. \A p \in Queries : p \in denied => y.served[p] = NotServed
    BY <1>1, <1>4, <1>7 DEF WatchOK, DeniedOK
  <2> QED  BY <1>1, <1>3, <1>7, <1>8, <2>1, <2>2, RepliesKept DEF WatchOK
<1>12. ViewOK(y) /\ ClosedOK(y)
  BY <1>1, <1>4, <1>7 DEF WatchOK, ViewOK, ClosedOK, IsOpen
<1>13. ASSUME NEW p \in Queries \ denied
       PROVE  TargetOK(y, p)
  <2> DEFINE s == x.replies
             r == y.replies
             t == x.target[p]
             l == x.listens[p]
             b == p \in Targets(x)
  <2>1. Agree(s, p, t, x.served[p], l, b)
    BY <1>1, <1>4 DEF WatchOK, TargetOK
  <2>2. s \in Seq(ReplyType) /\ More(s, r, kinds, q, x.listens[q])
    BY <1>1, <1>8
  <2>3. Agree(r, p, t, y.served[p], l, b)
    <3>1. CASE p = q
      <4> HIDE DEF s, r, t, l, b
      <4>1. Agree(s, q, t, v, l, b) /\ More(s, r, <<a, "snapshot">>, q, l)
        BY <2>1, <2>2, <3>1 DEF kinds, l
      <4>2. Agree(r, q, t, u, l, b)
        BY <1>2, <2>2, <4>1, MoreNews
      <4>3. y.served[p] = u
        BY <1>1, <1>7, <3>1
      <4> QED  BY <3>1, <4>2, <4>3
    <3>2. CASE p # q
      <4>1. y.served[p] = x.served[p]
        BY <1>1, <1>7, <3>2
      <4> HIDE DEF s, r, t, l, b
      <4>2. Agree(r, p, t, x.served[p], l, b)
        BY <1>3, <2>1, <2>2, <3>2, MoreOther
      <4> QED  BY <4>1, <4>2
    <3> QED  BY <3>1, <3>2
  <2> QED  BY <1>7, <1>9, <2>3 DEF TargetOK
<1> QED  BY <1>6, <1>9, <1>10, <1>11, <1>12, <1>13 DEF Good, Sound, WatchOK, y, kinds

LEMMA ServerCurrentInv == ASSUME IInv, ServerCurrent PROVE IInv'
<1>1. PICK q \in Queries :
         /\ c.served[q].listen # 0
         /\ c' = Reply([c EXCEPT !.served[q].current = TRUE], <<"current", "snapshot">>, q)
  BY DEF ServerCurrent
<1> DEFINE v == [c.served[q] EXCEPT !.current = TRUE]
           w == [c EXCEPT !.served[q] = v]
<1>2. c \in ClientType /\ c.served \in [Queries -> [listen : Nat, current : BOOLEAN]]
  BY Facts, Fields
<1>3. v \in [listen : Nat, current : BOOLEAN]
  BY <1>2
<1>4. [c EXCEPT !.served[q].current = TRUE] = w
  BY <1>2 DEF ClientType
<1> HIDE DEF v
<1>5. w \in ClientType
  BY <1>2, <1>3 DEF ClientType
<1> HIDE DEF w
<1>6. w = [c EXCEPT !.served[q] = IF "current" = "current" THEN [@ EXCEPT !.current = TRUE] ELSE @]
  BY <1>2 DEF w, v, ClientType
<1>7. Good(c') /\ Runs(c, c')
  BY <1>1, <1>4, <1>5, <1>6, Facts, NewsKeeps
<1>8. events' \in 0..MaxEvents
  BY Facts DEF ServerCurrent
<1> QED  BY <1>7, <1>8, RunsNext DEF ServerCurrent

LEMMA ServerChangeInv == ASSUME IInv, ServerChange PROVE IInv'
<1>1. PICK q \in Queries : c.served[q].current /\ c' = Reply(c, <<"change", "snapshot">>, q)
  BY DEF ServerChange
<1>2. c \in ClientType /\ c.served \in [Queries -> ServedType]
  BY Facts, Fields DEF ServedType
<1>3. IsOpen(c.stream) /\ q \notin denied
  <2>1. c.served[q] # NotServed
    BY <1>1 DEF NotServed
  <2> QED  BY <2>1, Facts DEF WatchOK, ClosedOK, DeniedOK
<1>4. c.served[q].listen # 0
  BY <1>1, <1>3, Facts DEF WatchOK, TargetOK, Agree
<1>5. c = [c EXCEPT !.served[q] = IF "change" = "current" THEN [@ EXCEPT !.current = TRUE] ELSE @]
  BY <1>2 DEF ClientType
<1>6. Good(c') /\ Runs(c, c')
  BY <1>1, <1>2, <1>4, <1>5, Facts, NewsKeeps
<1>7. events' \in 0..MaxEvents
  BY Facts DEF ServerChange, Event
<1> QED  BY <1>6, <1>7, RunsNext DEF ServerChange
LEMMA StutterInv == ASSUME IInv, UNCHANGED vars PROVE IInv'
<1>1. /\ c' = c /\ denied' = denied /\ query' = query /\ removing' = removing /\ muted' = muted
      /\ answers' = answers /\ events' = events
  BY DEF vars
<1>2. c \in ClientType
  BY Facts
<1>3. Runs(c, c') /\ Good(c')
  BY <1>1, <1>2, Facts, RunsSame
<1>4. events' \in 0..MaxEvents
  BY <1>1, Facts
<1> QED  BY <1>1, <1>3, <1>4, RunsNext DEF KeepOutside

LEMMA NextInv == ASSUME IInv, [Next]_vars PROVE IInv'
BY GetDocumentsInv, OnEventInv, RemoveListenerInv, OnWatchStreamOpenInv, OnBackoffElapsedInv,
   OnIdleTimeoutInv, OnOnlineStateTimeoutInv, OnReplyInv, FailInv, SetNetworkInv,
   OnNetworkChangeInv, ServerCurrentInv, ServerChangeInv, StutterInv DEF Next

LEMMA AlwaysInv == Spec => []IInv
<1>1. Init => IInv
  BY InitInv
<1>2. IInv /\ [Next]_vars => IInv'
  BY NextInv
<1> QED  BY <1>1, <1>2, PTL DEF Spec

\* No assertion of the client fails, whatever the order in which the network,
\* the timers, the backend and the gets change what the handlers find.
THEOREM GetsWellFormed == Spec => []WellFormed
<1>1. IInv => WellFormed
  BY DEF IInv, Good, Sound, StreamOK, WellFormed
<1> QED  BY <1>1, AlwaysInv, PTL

\* The callback of a get is called once: a get that was called is muted, or is
\* no listener any more and has no event waiting for it.
THEOREM GetsAnsweredOnce == Spec => []AnsweredOnce
<1>1. IInv => AnsweredOnce
  BY DEF IInv, AnswersOK, AnsweredOnce
<1> QED  BY <1>1, AlwaysInv, PTL

\* No view is current by what the backend said of an earlier listen: what is on
\* the stream after the last answer to a query's requests is of its latest
\* listen, and what comes before is not taken.
THEOREM CurrentAlwaysOfThisListen == Spec => []CurrentIsOfThisListen
<1>1. IInv => CurrentIsOfThisListen
  BY DEF IInv, Good, Sound, WatchOK, ViewOK, CurrentIsOfThisListen
<1> QED  BY <1>1, AlwaysInv, PTL
=========================
