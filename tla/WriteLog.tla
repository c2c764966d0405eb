------------------------------ MODULE WriteLog ------------------------------
(***************************************************************************)
(* What Firestore's client promises of the writes an app makes: every user *)
(* has a line of writes; the backend commits or refuses a write only when  *)
(* it has decided those before it in the line; a write leaves the line     *)
(* from the front and only once decided, and its caller is told of it      *)
(* once.  OK is only told of a write that is committed; an error may also  *)
(* be told of a committed one, when a write close behind it was refused.   *)
(* No write is lost and none overtakes another, whatever happens to the    *)
(* process, the connection or the signed-in user; a write the backend has  *)
(* decided may be put to it again.                                         *)
(***************************************************************************)
EXTENDS Naturals, Sequences

CONSTANTS Users, Writes

VARIABLES line,       \* [Users -> sequence of writes]
          committed,  \* writes the backend has committed
          refused,    \* writes the backend has refused
          told        \* what callers were told: pairs of a write and a verdict

vars == <<line, committed, refused, told>>

Decided == committed \union refused

Init ==
    /\ line = [u \in Users |-> <<>>]
    /\ committed = {}
    /\ refused = {}
    /\ told = {}

InSomeLine(w) == \E u \in Users : \E i \in DOMAIN line[u] : line[u][i] = w

\* A new write joins the line of its user.
Issue(u) ==
    /\ \E w \in Writes :
          /\ w \notin Decided /\ ~InSomeLine(w)
          /\ line' = [line EXCEPT ![u] = Append(@, w)]
    /\ UNCHANGED <<committed, refused, told>>

\* The backend decides a write behind which no write of the line is left
\* undecided.
Decide(u) ==
    /\ \E i \in DOMAIN line[u] :
          /\ \A j \in 1..(i - 1) : line[u][j] \in Decided
          /\ \/ committed' = committed \union {line[u][i]} /\ refused' = refused
             \/ refused' = refused \union {line[u][i]} /\ committed' = committed
    /\ UNCHANGED <<line, told>>

\* The backend has refused a write of the line, and committed those before it.
Refusing(u) ==
    \E i \in DOMAIN line[u] :
        line[u][i] \in refused /\ \A j \in 1..(i - 1) : line[u][j] \in committed

\* The write at the front leaves the line; its caller, if the process that
\* made it still runs, is told.  A refusal is told to the front, whichever
\* write it is of.
Settle(u) ==
    /\ line[u] # <<>>
    /\ line' = [line EXCEPT ![u] = Tail(@)]
    /\ \/ Head(line[u]) \in committed /\ told' = told \union {<<Head(line[u]), "ok">>}
       \/ Refusing(u) /\ told' = told \union {<<Head(line[u]), "error">>}
       \/ Head(line[u]) \in Decided /\ told' = told
    /\ UNCHANGED <<committed, refused>>

Next == \E u \in Users : Issue(u) \/ Decide(u) \/ Settle(u)

Spec == Init /\ [][Next]_vars

-----------------------------------------------------------------------------
\* A decided write has no undecided one before it in its line: the backend
\* takes each user's writes in the order the app made them.
DecidedInOrder ==
    \A u \in Users : \A i, j \in DOMAIN line[u] :
        i < j /\ line[u][j] \in Decided => line[u][i] \in Decided

\* A caller who was told OK has a committed write, one who was told of an
\* error has a decided one, and the backend has refused one; no caller is told
\* both, and a write whose caller was told is not put to the backend again.
ToldTheTruth ==
    \A w \in Writes :
        /\ <<w, "ok">> \in told => w \in committed /\ <<w, "error">> \notin told
        /\ <<w, "error">> \in told => w \in Decided /\ refused # {}
        /\ <<w, "ok">> \in told \/ <<w, "error">> \in told => ~InSomeLine(w)

\* No step loses a write the backend has not decided.
NothingLost ==
    [][\A w \in Writes : InSomeLine(w) /\ w \notin Decided => InSomeLine(w)']_vars
=============================================================================
