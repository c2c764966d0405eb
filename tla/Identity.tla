------------------------------ MODULE Identity ------------------------------
(***************************************************************************)
(* What sign-up, sign-in, the menu and SavedController promise the rest of *)
(* the app: who is signed in (auth), whom MapController takes for signed   *)
(* in (userId), and whether SavedController is on screen, for whom and     *)
(* pushed from where.  Account implements it and Session builds on it.     *)
(*                                                                         *)
(* MapController reads the signed-in user when it is loaded, when          *)
(* SavedController, pushed by a sign-in, is left, and at a sign-out;       *)
(* between those moments userId may differ from auth.                      *)
(***************************************************************************)
CONSTANTS Users, NoUser

ASSUME UserAssumption == NoUser \notin Users

VARIABLES auth, userId, saved

identity == <<auth, userId, saved>>

SomeUser == Users \cup {NoUser}
NotSaved == [from |-> "none", user |-> NoUser]
SavedFrom == {"signUp", "menu"}

IdentityOK ==
    /\ auth \in SomeUser
    /\ userId \in SomeUser
    /\ saved \in [from : SavedFrom, user : Users] \cup {NotSaved}

OnMap == saved = NotSaved

IdentityInit ==
    /\ auth \in SomeUser
    /\ userId = auth
    /\ saved = NotSaved

\* A sign-in ends while its screen is there: SavedController is pushed.  Such
\* screens are opened while MapController knows nobody.
Arrive(u) ==
    /\ userId = NoUser
    /\ auth' = u
    /\ saved' = [from |-> "signUp", user |-> u]
    /\ UNCHANGED userId

\* An account is created, or a sign-in ends after its screen was left.
SignedInUnseen(u) ==
    /\ auth' = u
    /\ UNCHANGED <<userId, saved>>

\* Saved in the menu, which asks Auth and not userId who is signed in.
PushSaved ==
    /\ OnMap
    /\ auth # NoUser
    /\ saved' = [from |-> "menu", user |-> auth]
    /\ UNCHANGED <<auth, userId>>

\* Whom MapController knows once SavedController is left.
KnownAfter == IF saved.from = "signUp" THEN auth ELSE userId

PopSaved ==
    /\ ~ OnMap
    /\ saved' = NotSaved
    /\ userId' = KnownAfter
    /\ UNCHANGED auth

\* Log Out in the menu; signOut may throw, which is only printed.
LogOut ==
    /\ OnMap
    /\ auth # NoUser
    /\ auth' \in {NoUser, auth}
    /\ userId' = auth'
    /\ UNCHANGED saved

\* The app is started again: Auth keeps its user on the device.
Launch ==
    /\ saved' = NotSaved
    /\ userId' = auth
    /\ UNCHANGED auth

IdentityNext ==
    \/ \E u \in Users : Arrive(u) \/ SignedInUnseen(u)
    \/ PushSaved \/ PopSaved \/ LogOut \/ Launch

IdentitySpec == IdentityInit /\ [][IdentityNext]_identity
=============================================================================
