------------------------- MODULE PathSamplingProofs -------------------------
(***************************************************************************)
(* Proofs about PathSampling, for every metric, every path and every list  *)
(* of distances.                                                           *)
(***************************************************************************)
EXTENDS PathSampling, SequenceTheorems, TLAPS

LEMMA DistType ==
    ASSUME NEW p \in Points, NEW q \in Points
    PROVE  Dist[p][q] \in Nat
BY DistAssumption

LEMMA ValueType ==
    ASSUME NEW r \in Rows
    PROVE  Values[r] \in Nat \ {0}
BY ValuesAssumption, ElementOfSeq DEF Rows

\* Between two points at most a step apart, the distance from the start
\* changes by at most a step.
LEMMA RadiusStep ==
    ASSUME NEW s \in Points, NEW p \in Points, NEW q \in Points,
           Dist[p][q] <= MaxStep
    PROVE  Dist[s][q] <= Dist[s][p] + MaxStep
<1>1. Dist[s][q] <= Dist[s][p] + Dist[p][q]
  BY DistAssumption
<1> QED
  BY <1>1, DistType, ValuesAssumption

-----------------------------------------------------------------------------
(* Type correctness *)

LEMMA TypeInit == Init => TypeOK
<1> SUFFICES ASSUME Init
             PROVE  TypeOK
  OBVIOUS
<1>1. coordinates \in Seq(Points) /\ matched \in Seq(Points)
  BY EmptySeq DEF Init
<1>2. 1 \in Rows
  BY ValuesAssumption DEF Rows
<1>3. searchDistance \in Nat \ {0}
  BY <1>2, ValueType DEF Init
<1>4. /\ row = 1 /\ originalRow = 1 /\ i = 0 /\ distance = 0
      /\ phase = "idle" /\ picker = "closed"
      /\ spinning = FALSE /\ late = FALSE
  BY DEF Init
<1> QED
  BY <1>1, <1>2, <1>3, <1>4 DEF TypeOK

LEMMA LookType ==
    ASSUME TypeOK, Look
    PROVE  TypeOK'
<1>1. coordinates \in Seq(Points) /\ Len(coordinates) \in Nat
      /\ i \in 1..Len(coordinates) /\ i' = i + 1 /\ phase = "sampling"
  BY DEF Look, TypeOK, Idle
<1>2. coordinates[i] \in Points
  BY <1>1, ElementOfSeq
<1>3. matched' \in Seq(Points) /\ distance' \in Nat
  <2>1. CASE Sample
    BY <1>2, <2>1, AppendProperties DEF Sample, NextDistance, TypeOK
  <2>2. CASE Skip
    BY <2>2 DEF Skip, TypeOK
  <2> QED
    BY <2>1, <2>2 DEF Look
<1> QED
  BY <1>1, <1>3 DEF Look, TypeOK, pick

LEMMA SearchType ==
    ASSUME TypeOK, SearchItems \/ SearchCoordinates
    PROVE  TypeOK'
<1>1. coordinates \in Seq(Points) /\ Len(coordinates) \in Nat
  BY DEF TypeOK
<1>2. CASE SearchItems
  <2>1. coordinates[1] \in Points
    BY <1>1, <1>2, ElementOfSeq DEF SearchItems
  <2>2. matched' \in Seq(Points)
    BY <1>2, <2>1 DEF SearchItems
  <2> QED
    BY <1>1, <1>2, <2>2 DEF SearchItems, FirstDistance, TypeOK, pick
<1>3. CASE SearchCoordinates
  <2>1. matched' \in Seq(Points)
    BY <1>3, EmptySeq DEF SearchCoordinates
  <2> QED
    BY <1>3, <2>1 DEF SearchCoordinates, TypeOK, pick
<1> QED
  BY <1>2, <1>3

LEMMA TraceType ==
    ASSUME TypeOK, Trace
    PROVE  TypeOK'
<1>1. coordinates' \in Seq(Points)
  <2>1. CASE Restart
    BY <2>1, EmptySeq DEF Restart
  <2>2. ASSUME NEW p \in Points, Walk(p)
        PROVE  coordinates' \in Seq(Points)
    BY <2>2, AppendProperties DEF Walk, TypeOK
  <2> QED
    BY <2>1, <2>2 DEF Trace
<1>2. phase' = "idle" /\ UNCHANGED <<phase, i, distance, matched, pick>>
  BY DEF Trace, Walk, Restart, Idle, loop
<1> QED
  BY <1>1, <1>2 DEF TypeOK, pick

LEMMA PickingType ==
    ASSUME TypeOK, Picking
    PROVE  TypeOK'
<1>1. searchDistance' \in Nat \ {0}
  BY ValueType
  DEF Picking, TappedDistanceBtn, SpinWheel, TappedSaveBtn, RemovePicker,
      AnimatedOut, DidSelectRow, TypeOK
<1>2. row' \in Rows /\ originalRow' \in Rows
  BY DEF Picking, TappedDistanceBtn, SpinWheel, TappedSaveBtn, RemovePicker,
         AnimatedOut, DidSelectRow, Picked, RowOnClose, TypeOK
<1>3. /\ picker' \in {"closed", "open", "closing"}
      /\ spinning' \in BOOLEAN /\ late' \in BOOLEAN
  BY DEF Picking, TappedDistanceBtn, SpinWheel, TappedSaveBtn, RemovePicker,
         AnimatedOut, DidSelectRow, TypeOK
<1>4. phase = "idle" /\ UNCHANGED <<coordinates, phase, i, distance, matched>>
  BY DEF Picking, TappedDistanceBtn, SpinWheel, TappedSaveBtn, RemovePicker,
         AnimatedOut, DidSelectRow, Idle, loop
<1> QED
  BY <1>1, <1>2, <1>3, <1>4 DEF TypeOK

LEMMA TypeStep == TypeOK /\ [Next]_vars => TypeOK'
<1>1. ASSUME TypeOK, UNCHANGED vars
      PROVE  TypeOK'
  BY <1>1 DEF vars, loop, pick, TypeOK
<1> QED
  BY <1>1, LookType, SearchType, TraceType, PickingType DEF Next, Search

\* The path, the loop's locals and the picker keep their types, and the loop
\* never looks beyond the path.
THEOREM SamplingTypeCorrect == Spec => []TypeOK
BY TypeInit, TypeStep, PTL DEF Spec

-----------------------------------------------------------------------------
(* The picker *)

\* The picker shows the distance that is searched with, unless its wheel
\* stopped after Save or Close (DistancePicker.swift:75-117).
THEOREM PickerAlwaysInStep == Spec => []PickerInStep
<1>1. Init => PickerInStep
  BY DEF Init, PickerInStep
<1>2. TypeOK /\ PickerInStep /\ [Next]_vars => PickerInStep'
  <2> SUFFICES ASSUME TypeOK, PickerInStep, [Next]_vars
               PROVE  PickerInStep'
    OBVIOUS
  <2>1. CASE Trace \/ Search \/ UNCHANGED vars
    BY <2>1
    DEF Trace, Walk, Restart, Search, SearchItems, Look, SearchCoordinates,
        vars, pick, PickerInStep
  <2>2. CASE Picking
    BY <2>2
    DEF Picking, TappedDistanceBtn, SpinWheel, TappedSaveBtn, RemovePicker,
        AnimatedOut, DidSelectRow, RowOnClose, PickerInStep, TypeOK
  <2> QED
    BY <2>1, <2>2 DEF Next
<1> QED
  BY <1>1, <1>2, SamplingTypeCorrect, PTL DEF Spec

-----------------------------------------------------------------------------
(* The samples *)

SampleInv == TypeOK /\ ThresholdKept /\ SamplesSpread

\* Outside the loop there is nothing to keep but the walk.
LEMMA IdleInv ==
    ASSUME TypeOK', phase' = "idle", Steady'
    PROVE  SampleInv'
BY DEF SampleInv, ThresholdKept, SamplesSpread

LEMMA SteadyUnchanged ==
    ASSUME Steady, coordinates' = coordinates
    PROVE  Steady'
BY DEF Steady

LEMMA WalkSteady ==
    ASSUME TypeOK, Steady, NEW p \in Points, Walk(p)
    PROVE  Steady'
<1>1. coordinates \in Seq(Points) /\ coordinates' = Append(coordinates, p)
  BY DEF TypeOK, Walk
<1>2. /\ Len(coordinates) \in Nat /\ Len(coordinates') = Len(coordinates) + 1
      /\ \A j \in 1..Len(coordinates) : coordinates'[j] = coordinates[j]
      /\ coordinates'[Len(coordinates) + 1] = p
  BY <1>1, AppendProperties
<1> SUFFICES ASSUME NEW j \in 1..Len(coordinates)
             PROVE  Dist[coordinates'[j]][coordinates'[j + 1]] <= MaxStep
  BY <1>2 DEF Steady
<1>3. CASE j = Len(coordinates)
  <2>1. coordinates # <<>>
    BY <1>1, <1>2, EmptySeq
  <2> QED
    BY <1>2, <1>3, <2>1 DEF Walk
<1>4. CASE j # Len(coordinates)
  BY <1>2, <1>4 DEF Steady
<1> QED
  BY <1>3, <1>4

LEMMA SampleInvInit == Init => SampleInv
<1>1. Init => Len(coordinates) = 0
  BY EmptySeq DEF Init
<1> QED
  BY <1>1, TypeInit
  DEF Init, SampleInv, ThresholdKept, SamplesSpread, Steady

LEMMA SampleInvTrace ==
    ASSUME SampleInv, Trace
    PROVE  SampleInv'
<1>1. TypeOK'
  BY TraceType DEF SampleInv
<1>2. CASE Restart
  <2>1. Len(coordinates') = 0
    BY <1>2, EmptySeq DEF Restart
  <2> QED
    BY <1>1, <1>2, <2>1, IdleInv DEF Restart, Idle, loop, Steady
<1>3. ASSUME NEW p \in Points, Walk(p)
      PROVE  SampleInv'
  BY <1>1, <1>3, WalkSteady, IdleInv
  DEF Walk, Idle, loop, SampleInv, ThresholdKept
<1> QED
  BY <1>2, <1>3 DEF Trace

LEMMA SampleInvPicking ==
    ASSUME SampleInv, Picking
    PROVE  SampleInv'
<1>1. TypeOK'
  BY PickingType DEF SampleInv
<1>2. phase' = "idle" /\ coordinates' = coordinates
  BY DEF Picking, TappedDistanceBtn, SpinWheel, TappedSaveBtn, RemovePicker,
         AnimatedOut, DidSelectRow, Idle, loop
<1> QED
  BY <1>1, <1>2, IdleInv, SteadyUnchanged DEF SampleInv, ThresholdKept

LEMMA SampleInvSearchItems ==
    ASSUME SampleInv, SearchItems
    PROVE  SampleInv'
<1>1. TypeOK'
  BY SearchType DEF SampleInv
<1>2. UNCHANGED <<coordinates, searchDistance>>
      /\ searchDistance \in Nat \ {0}
      /\ coordinates[1] \in Points
  BY ElementOfSeq DEF SearchItems, pick, SampleInv, TypeOK
<1>3. /\ i' = 2 /\ distance' = searchDistance
      /\ Len(matched') = 1 /\ matched'[1] = coordinates[1]
  BY <1>2 DEF SearchItems, FirstDistance
<1>4. FromStart(coordinates[1]) = 0
  BY <1>2, DistAssumption DEF FromStart
<1>5. Steady'
  BY <1>2, SteadyUnchanged DEF SampleInv, ThresholdKept
<1>6. Passed'
  <2> SUFFICES ASSUME NEW j \in 1..i' - 1
               PROVE  Dist[coordinates[1]][coordinates[j]] < distance'
    BY <1>2 DEF Passed, FromStart
  <2>1. j = 1
    BY <1>3
  <2> QED
    BY <1>2, <1>3, <1>4, <2>1 DEF FromStart
<1>7. Reached'
  <2> SUFFICES ASSUME NEW d \in 0..searchDistance - 1
               PROVE  Near(d, Dist[coordinates[1]][coordinates[1]])
    BY <1>2, <1>3 DEF Reached, FromStart, Near
  <2> QED
    BY <1>2, <1>4 DEF FromStart, Near
<1>8. ThresholdKept'
  BY <1>2, <1>3, <1>5, <1>6, <1>7 DEF ThresholdKept
<1>9. SamplesSpread'
  <2> SUFFICES ASSUME NEW k \in 1..Len(matched')
               PROVE  Dist[coordinates[1]][matched'[k]]
                         >= searchDistance * (k - 1)
    BY <1>2 DEF SamplesSpread, FromStart
  <2>1. k = 1
    BY <1>3
  <2> QED
    BY <1>2, <1>3, <1>4, <2>1 DEF FromStart
<1> QED
  BY <1>1, <1>8, <1>9 DEF SampleInv

\* What the loop knows of the point it looks at.
LEMMA LookFacts ==
    ASSUME SampleInv, Look
    PROVE  /\ UNCHANGED <<coordinates, searchDistance, phase>>
           /\ phase = "sampling" /\ i' = i + 1
           /\ searchDistance \in Nat \ {0} /\ distance \in Nat
           /\ coordinates \in Seq(Points) /\ matched \in Seq(Points)
           /\ i \in 2..Len(coordinates) /\ Len(coordinates) \in Nat
           /\ coordinates[1] \in Points /\ coordinates[i] \in Points
           /\ \A j \in 1..Len(coordinates) : FromStart(coordinates[j]) \in Nat
           /\ \A k \in 1..Len(matched) : FromStart(matched[k]) \in Nat
           /\ MaxStep <= searchDistance =>
                 FromStart(coordinates[i]) < distance + searchDistance
<1>1. /\ UNCHANGED <<coordinates, searchDistance, phase>>
      /\ phase = "sampling" /\ i' = i + 1
      /\ searchDistance \in Nat \ {0} /\ distance \in Nat
      /\ coordinates \in Seq(Points) /\ matched \in Seq(Points)
      /\ i \in 2..Len(coordinates) /\ Len(coordinates) \in Nat
  BY DEF Look, Idle, pick, SampleInv, TypeOK
<1>2. \A j \in 1..Len(coordinates) : coordinates[j] \in Points
  BY <1>1, ElementOfSeq
<1>3. \A k \in 1..Len(matched) : matched[k] \in Points
  BY <1>1, ElementOfSeq
<1>4. /\ i - 1 \in 1..Len(coordinates) /\ i \in 1..Len(coordinates)
      /\ 1 \in 1..Len(coordinates) /\ i - 1 \in 1..Len(coordinates) - 1
      /\ (i - 1) + 1 = i
  BY <1>1
<1>5. coordinates[1] \in Points
  BY <1>2, <1>4
<1>6. \A j \in 1..Len(coordinates) : FromStart(coordinates[j]) \in Nat
  BY <1>2, <1>5, DistType DEF FromStart
<1>7. \A k \in 1..Len(matched) : FromStart(matched[k]) \in Nat
  BY <1>3, <1>5, DistType DEF FromStart
<1>8. ASSUME MaxStep <= searchDistance
      PROVE  FromStart(coordinates[i]) < distance + searchDistance
  <2>1. Passed
    BY <1>1, <1>8 DEF SampleInv, ThresholdKept
  <2>2. FromStart(coordinates[i - 1]) < distance
    BY <1>1, <2>1 DEF Passed
  <2>3. Dist[coordinates[i - 1]][coordinates[i]] <= MaxStep
    BY <1>4 DEF SampleInv, ThresholdKept, Steady
  <2>4. FromStart(coordinates[i]) <= FromStart(coordinates[i - 1]) + MaxStep
    BY <1>2, <1>4, <1>5, <2>3, RadiusStep DEF FromStart
  <2> QED
    <3>1. /\ FromStart(coordinates[i]) \in Nat
          /\ FromStart(coordinates[i - 1]) \in Nat
      BY <1>4, <1>6
    <3> QED
      BY <1>1, <1>8, <2>2, <2>4, <3>1, ValuesAssumption
<1> QED
  BY <1>1, <1>2, <1>4, <1>5, <1>6, <1>7, <1>8

LEMMA SampleInvSkip ==
    ASSUME SampleInv, Look, Skip
    PROVE  SampleInv'
<1>1. TypeOK'
  BY LookType DEF SampleInv
<1>2. /\ UNCHANGED <<coordinates, searchDistance, phase>>
      /\ i' = i + 1 /\ i \in 2..Len(coordinates) /\ Len(coordinates) \in Nat
  BY LookFacts
<1>3. UNCHANGED <<distance, matched>> /\ FromStart(coordinates[i]) < distance
  BY DEF Skip
<1>4. Steady'
  BY <1>2, SteadyUnchanged DEF SampleInv, ThresholdKept
<1>5. Passed => Passed'
  BY <1>2, <1>3 DEF Passed, FromStart
<1>6. Reached => Reached'
  BY <1>2, <1>3 DEF Reached, FromStart, Near
<1>7. ThresholdKept'
  BY <1>2, <1>3, <1>4, <1>5, <1>6 DEF SampleInv, ThresholdKept
<1>8. SamplesSpread'
  BY <1>2, <1>3 DEF SampleInv, SamplesSpread, FromStart
<1> QED
  BY <1>1, <1>7, <1>8 DEF SampleInv

LEMMA SampleInvSample ==
    ASSUME SampleInv, Look, Sample
    PROVE  SampleInv'
<1> DEFINE n == Len(matched)
           far == FromStart(coordinates[i])
<1>1. TypeOK'
  BY LookType DEF SampleInv
<1>2. /\ UNCHANGED <<coordinates, searchDistance, phase>>
      /\ phase = "sampling" /\ i' = i + 1
      /\ searchDistance \in Nat \ {0} /\ distance \in Nat
      /\ i \in 2..Len(coordinates) /\ Len(coordinates) \in Nat
      /\ \A j \in 1..Len(coordinates) : FromStart(coordinates[j]) \in Nat
      /\ \A k \in 1..Len(matched) : FromStart(matched[k]) \in Nat
      /\ MaxStep <= searchDistance => far < distance + searchDistance
  BY LookFacts
<1>3. /\ distance' = distance + searchDistance /\ far >= distance
      /\ far \in Nat
  BY <1>2 DEF Sample, NextDistance
<1>4. /\ n \in Nat /\ Len(matched') = n + 1
      /\ \A k \in 1..n : matched'[k] = matched[k]
      /\ matched'[n + 1] = coordinates[i]
  BY LookFacts, AppendProperties DEF Sample
<1>5. distance = searchDistance * n
  BY <1>2 DEF SampleInv, ThresholdKept
<1>6. \A p : FromStart(p)' = Dist[coordinates[1]][p']
  BY <1>2 DEF FromStart
<1>7. Steady'
  BY <1>2, SteadyUnchanged DEF SampleInv, ThresholdKept
<1>8. distance' = searchDistance' * Len(matched')
  <2>1. searchDistance * (n + 1) = searchDistance * n + searchDistance
    BY <1>2, <1>4
  <2> QED
    BY <1>2, <1>3, <1>4, <1>5, <2>1
<1>9. ASSUME MaxStep <= searchDistance
      PROVE  Passed'
  <2> SUFFICES ASSUME NEW j \in 1..i
               PROVE  FromStart(coordinates[j]) < distance + searchDistance
    <3>1. i' - 1 = i
      BY <1>2
    <3> QED
      BY <1>2, <1>3, <3>1 DEF Passed, FromStart
  <2>1. CASE j = i
    BY <1>2, <1>9, <2>1
  <2>2. CASE j # i
    <3>1. j \in 1..i - 1 /\ j \in 1..Len(coordinates)
      BY <1>2, <2>2
    <3>2. FromStart(coordinates[j]) < distance
      BY <1>2, <1>9, <3>1 DEF SampleInv, ThresholdKept, Passed
    <3> QED
      BY <1>2, <3>1, <3>2
  <2> QED
    BY <2>1, <2>2
<1>10. ASSUME MaxStep <= searchDistance
       PROVE  Reached'
  <2> SUFFICES ASSUME NEW d \in 0..distance + searchDistance - 1
               PROVE  \E k \in 1..n + 1 : Near(d, FromStart(matched'[k]))
    <3>1. distance' - 1 = distance + searchDistance - 1
          /\ 1..Len(matched') = 1..n + 1
      BY <1>2, <1>3, <1>4
    <3>2. UNCHANGED <<coordinates, searchDistance>>
      BY <1>2
    <3> QED
      BY <3>1, <3>2 DEF Reached, FromStart, Near
  <2>1. CASE d < distance
    <3>1. d \in 0..distance - 1
      BY <1>2, <2>1
    <3>2. Reached
      BY <1>2, <1>10 DEF SampleInv, ThresholdKept
    <3>3. PICK k \in 1..Len(matched) : Near(d, FromStart(matched[k]))
      BY <3>1, <3>2 DEF Reached
    <3> QED
      BY <1>4, <3>3
  <2>2. CASE d >= distance
    <3>1. far < distance + searchDistance
      BY <1>2, <1>10
    <3>2. Near(d, far)
      BY <1>2, <1>3, <2>2, <3>1 DEF Near
    <3> QED
      BY <1>4, <3>2
  <2> QED
    BY <1>2, <2>1, <2>2
<1>11. ThresholdKept'
  BY <1>2, <1>7, <1>8, <1>9, <1>10 DEF ThresholdKept
<1>12. SamplesSpread'
  <2> SUFFICES ASSUME NEW k \in 1..n + 1
               PROVE  FromStart(matched'[k]) >= searchDistance * (k - 1)
    BY <1>2, <1>4 DEF SamplesSpread, FromStart
  <2>1. CASE k = n + 1
    <3>1. k - 1 = n
      BY <1>4, <2>1
    <3> QED
      BY <1>3, <1>4, <1>5, <2>1, <3>1
  <2>2. CASE k # n + 1
    BY <1>2, <1>4, <2>2 DEF SampleInv, SamplesSpread
  <2> QED
    BY <2>1, <2>2
<1> QED
  BY <1>1, <1>11, <1>12 DEF SampleInv

LEMMA SampleInvStep == SampleInv /\ [Next]_vars => SampleInv'
<1> SUFFICES ASSUME SampleInv, [Next]_vars
             PROVE  SampleInv'
  OBVIOUS
<1>1. CASE Trace
  BY <1>1, SampleInvTrace
<1>2. CASE SearchItems
  BY <1>2, SampleInvSearchItems
<1>3. CASE Look
  BY <1>3, SampleInvSample, SampleInvSkip DEF Look
<1>4. CASE SearchCoordinates
  <2>1. TypeOK' /\ Steady'
    BY <1>4, SearchType, SteadyUnchanged
    DEF SearchCoordinates, SampleInv, ThresholdKept
  <2> QED
    BY <1>4, <2>1, IdleInv DEF SearchCoordinates
<1>5. CASE Picking
  BY <1>5, SampleInvPicking
<1>6. CASE UNCHANGED vars
  BY <1>6
  DEF vars, loop, pick, SampleInv, TypeOK, ThresholdKept, Steady, Passed,
      Reached, SamplesSpread, FromStart, Near
<1> QED
  BY <1>1, <1>2, <1>3, <1>4, <1>5, <1>6 DEF Next, Search

LEMMA SampleInvAlways == Spec => []SampleInv
BY SampleInvInit, SampleInvStep, PTL DEF Spec

\* The k-th sample lies k - 1 search distances or more from the start, so that
\* the number of requests is bounded by how far the path reaches, never by its
\* number of points (MapController.swift:125-132).
THEOREM SamplesAlwaysSpread == Spec => []SamplesSpread
<1>1. SampleInv => SamplesSpread
  BY DEF SampleInv
<1> QED
  BY <1>1, SampleInvAlways, PTL

\* When no step of the walk is longer than the search distance, every point
\* the loop has passed is about as far from the start as some sample.
THEOREM RadiiAlwaysCovered == Spec => []RadiiCovered
<1>1. SampleInv => RadiiCovered
  <2> SUFFICES ASSUME SampleInv, phase = "sampling", MaxStep <= searchDistance,
                      NEW j \in 1..i - 1
               PROVE  \E k \in 1..Len(matched) :
                         Near(FromStart(coordinates[j]), FromStart(matched[k]))
    BY DEF RadiiCovered
  <2>1. j \in 1..Len(coordinates) /\ 1 \in 1..Len(coordinates)
        /\ coordinates \in Seq(Points) /\ distance \in Nat
    BY DEF SampleInv, TypeOK
  <2>2. FromStart(coordinates[j]) \in Nat
    BY <2>1, ElementOfSeq, DistType DEF FromStart
  <2>3. FromStart(coordinates[j]) < distance /\ Reached
    BY DEF SampleInv, ThresholdKept, Passed
  <2> QED
    BY <2>1, <2>2, <2>3 DEF Reached
<1> QED
  BY <1>1, SampleInvAlways, PTL
=============================================================================
