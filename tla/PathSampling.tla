---------------------------- MODULE PathSampling ----------------------------
(***************************************************************************)
(* Which points of the traced path MapController.searchItems searches, and *)
(* the search distance that DistancePicker sets.                           *)
(*                                                                         *)
(* The loop over the path runs on the main queue in one go; it is taken    *)
(* apart here, one point per step, and no other action runs in between.    *)
(* A point is sampled when it is far enough from the first one, as the     *)
(* crow flies: the threshold grows with every sample.                      *)
(*                                                                         *)
(* Distances are whole numbers of a unit.  A path of one point, for which  *)
(* the loop's range traps, is in TraceSearch.                              *)
(***************************************************************************)
EXTENDS Integers, Sequences

CONSTANTS
    Points,    \* places the user can be at
    Dist,      \* CLLocation.distance(from:), curried
    Values,    \* distanceValues, in rows counted from 1
    MaxStep,   \* bound on the distance between two location updates
    MaxPath    \* bound on the points of the path

ASSUME DistAssumption ==
    /\ Dist \in [Points -> [Points -> Nat]]
    /\ \A p \in Points : Dist[p][p] = 0
    /\ \A p, q \in Points : Dist[p][q] = Dist[q][p]
    /\ \A p, q, r \in Points : Dist[p][r] <= Dist[p][q] + Dist[q][r]

ASSUME ValuesAssumption ==
    /\ Values \in Seq(Nat \ {0}) /\ Len(Values) > 0
    /\ MaxStep \in Nat /\ MaxPath \in Nat

VARIABLES
    coordinates,     \* the traced path
    phase,           \* "idle", or "sampling" inside the loop of searchItems
    i,               \* the index the loop looks at next
    distance,        \* how far from the start the next sample must be
    matched,         \* matchedCoordinates
    searchDistance,
    row,             \* pickedDistanceRow
    originalRow,     \* of the picker shown last
    picker,          \* "closed", "open", or "closing" during animateOut
    spinning,        \* the wheel turns: didSelectRow is still to come
    late             \* the wheel stopped after Save or Close

loop == <<phase, i, distance, matched>>
pick == <<searchDistance, row, originalRow, picker, spinning, late>>
vars == <<coordinates, loop, pick>>

Rows == 1..Len(Values)

TypeOK ==
    /\ coordinates \in Seq(Points)
    /\ phase \in {"idle", "sampling"}
    /\ i \in Nat /\ distance \in Nat
    /\ matched \in Seq(Points)
    /\ searchDistance \in Nat \ {0}
    /\ row \in Rows /\ originalRow \in Rows
    /\ picker \in {"closed", "open", "closing"}
    /\ spinning \in BOOLEAN /\ late \in BOOLEAN
    /\ phase = "sampling" => Len(coordinates) > 1 /\ i \in 2..Len(coordinates) + 1

Idle == phase = "idle"

-----------------------------------------------------------------------------
(* The traced path *)

\* didUpdateLocations while the path is traced.
Walk(p) ==
    /\ Idle /\ Len(coordinates) < MaxPath
    /\ coordinates # <<>> => Dist[coordinates[Len(coordinates)]][p] <= MaxStep
    /\ coordinates' = Append(coordinates, p)
    /\ UNCHANGED <<loop, pick>>

Restart ==
    /\ Idle /\ coordinates # <<>>
    /\ coordinates' = <<>>
    /\ UNCHANGED <<loop, pick>>

-----------------------------------------------------------------------------
(* searchItems.  The picker covers the search panel while it is open.      *)

MutantFirstDistance(d) == d + d
FirstDistance(d) == d

SearchItems ==
    /\ Idle /\ Len(coordinates) > 1 /\ picker # "open"
    /\ phase' = "sampling"
    /\ i' = 2
    /\ distance' = FirstDistance(searchDistance)
    /\ matched' = <<coordinates[1]>>
    /\ UNCHANGED <<coordinates, pick>>

MutantNextDistance(d) == d
NextDistance(d) == d + searchDistance

FromStart(p) == Dist[coordinates[1]][p]

Sample ==
    /\ FromStart(coordinates[i]) >= distance
    /\ distance' = NextDistance(distance)
    /\ matched' = Append(matched, coordinates[i])

Skip ==
    /\ FromStart(coordinates[i]) < distance
    /\ UNCHANGED <<distance, matched>>

Look ==
    /\ ~Idle /\ i <= Len(coordinates)
    /\ Sample \/ Skip
    /\ i' = i + 1
    /\ UNCHANGED <<coordinates, phase, pick>>

\* The samples are handed to the search (allLoc) and the locals are gone.
SearchCoordinates ==
    /\ ~Idle /\ i > Len(coordinates)
    /\ phase' = "idle"
    /\ i' = 0 /\ distance' = 0 /\ matched' = <<>>
    /\ UNCHANGED <<coordinates, pick>>

-----------------------------------------------------------------------------
(* DistancePicker *)

\* A new picker is made; the wheel of the last one no longer reports.
TappedDistanceBtn ==
    /\ Idle /\ picker # "open"
    /\ picker' = "open"
    /\ originalRow' = row
    /\ spinning' = FALSE
    /\ UNCHANGED <<coordinates, loop, searchDistance, row, late>>

SpinWheel ==
    /\ Idle /\ picker = "open"
    /\ spinning' = TRUE
    /\ UNCHANGED <<coordinates, loop, searchDistance, row, originalRow, picker,
                   late>>

MutantPicked(r) == r + 1
Picked(r) == r

DidSelectRow(r) ==
    /\ Idle /\ spinning
    /\ spinning' = FALSE
    /\ row' = Picked(r)
    /\ late' = (late \/ picker # "open")
    /\ UNCHANGED <<coordinates, loop, searchDistance, originalRow, picker>>

TappedSaveBtn ==
    /\ Idle /\ picker = "open"
    /\ picker' = "closing"
    /\ searchDistance' = IF originalRow # row THEN Values[row]
                                             ELSE searchDistance
    /\ UNCHANGED <<coordinates, loop, row, originalRow, spinning, late>>

MutantRowOnClose == row
RowOnClose == originalRow

RemovePicker ==
    /\ Idle /\ picker = "open"
    /\ picker' = "closing"
    /\ row' = RowOnClose
    /\ UNCHANGED <<coordinates, loop, searchDistance, originalRow, spinning,
                   late>>

\* removeFromSuperview: the wheel is gone.
AnimatedOut ==
    /\ Idle /\ picker = "closing"
    /\ picker' = "closed"
    /\ spinning' = FALSE
    /\ UNCHANGED <<coordinates, loop, searchDistance, row, originalRow, late>>

-----------------------------------------------------------------------------

Init ==
    /\ coordinates = <<>>
    /\ phase = "idle" /\ i = 0 /\ distance = 0 /\ matched = <<>>
    /\ searchDistance = Values[1]
    /\ row = 1 /\ originalRow = 1
    /\ picker = "closed" /\ spinning = FALSE /\ late = FALSE

Trace == Restart \/ \E p \in Points : Walk(p)

Search == SearchItems \/ Look \/ SearchCoordinates

Picking ==
    \/ TappedDistanceBtn \/ SpinWheel \/ TappedSaveBtn \/ RemovePicker
    \/ AnimatedOut
    \/ \E r \in Rows : DidSelectRow(r)

Next == Trace \/ Search \/ Picking

Spec == Init /\ [][Next]_vars
-----------------------------------------------------------------------------
Near(a, b) == a - b < searchDistance /\ b - a < searchDistance

\* Sample k lies k - 1 search distances or more from the start: a path sends
\* no more requests than the search distance fits into its farthest reach,
\* plus one, however many points it has.
SamplesSpread ==
    phase = "sampling" =>
       \A k \in 1..Len(matched) :
          FromStart(matched[k]) >= searchDistance * (k - 1)

\* No step of the walk is longer than the search distance: then every point
\* the loop has passed is, in its distance from the start, nearer than one
\* search distance to a sample.
RadiiCovered ==
    phase = "sampling" /\ MaxStep <= searchDistance =>
       \A j \in 1..i - 1 : \E k \in 1..Len(matched) :
          Near(FromStart(coordinates[j]), FromStart(matched[k]))

\* Why: the samples lie one in every search distance from the start to the
\* threshold, and no point the loop has passed lies beyond it, because the walk
\* cannot leap over a whole search distance.
Steady == \A j \in 1..Len(coordinates) - 1 :
             Dist[coordinates[j]][coordinates[j + 1]] <= MaxStep

Passed == \A j \in 1..i - 1 : FromStart(coordinates[j]) < distance

Reached == \A d \in 0..distance - 1 : \E k \in 1..Len(matched) :
              Near(d, FromStart(matched[k]))

ThresholdKept ==
    /\ Steady
    /\ phase = "sampling" => distance = searchDistance * Len(matched)
    /\ phase = "sampling" /\ MaxStep <= searchDistance => Passed /\ Reached

\* The row the picker will show is that of the distance searched with, unless
\* its wheel stopped after Save or Close.
PickerInStep ==
    ~late => searchDistance
                = Values[IF picker = "open" THEN originalRow ELSE row]

=============================================================================
