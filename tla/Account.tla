------------------------------ MODULE Account -------------------------------
(***************************************************************************)
(* Sign-up, sign-in and the profile: SignUpController,                     *)
(* ManualSignUpController, EditProfileController and the menu of           *)
(* MapController over UserDbController, which talks to Firebase Auth and   *)
(* to the collection "users".                                              *)
(*                                                                         *)
(* A sign-up is a chain of four calls, each made by the completion of the  *)
(* one before: checkIfUserExist, createUser, setData, signIn.  A chain is  *)
(* a task; it goes on when its screen has been left, and a form can be     *)
(* submitted again while its chain runs.                                   *)
(*                                                                         *)
(* Abstractions.  A password is the one typed or the "defaultPassword" of  *)
(* media accounts; a mistyped one is a failing signIn.  User names and     *)
(* pictures are left out, and with them updateUsername.  Facebook, which   *)
(* needs no observer, is left out.                                         *)
(***************************************************************************)
EXTENDS Naturals, Sequences, FiniteSets

CONSTANTS
    Users, NoUser,       \* Firebase uids, and ""
    Emails, NoEmail,
    MaxTasks,            \* bound on chains at once
    MaxScreens           \* bound on sign-up screens made between launches

ASSUME AccountAssumption ==
    /\ NoUser \notin Users
    /\ NoEmail \notin Emails
    /\ MaxTasks \in Nat
    /\ MaxScreens \in Nat

VARIABLES
    accounts,    \* Auth: the email and password of each account
    docs,        \* the email in users/<uid>, as the app reads it
    auth,        \* Auth.auth().currentUser
    userId,      \* MapController.userId
    google,      \* whether GIDSignIn has a current user
    stack,       \* what navigationController holds above MapController
    observers,   \* who hears ToggleAuthUINotification
    tasks,       \* chains in flight
    made,        \* sign-up screens made since the launch
    odd          \* what went wrong so far; only properties read it

server == <<accounts, docs>>
vars == <<accounts, docs, auth, userId, google, stack, observers, tasks,
          made, odd>>

Passwords == {"typed", "default"}
NoAccount == [email |-> NoEmail, pwd |-> "typed"]
AccountType == [email : Emails, pwd : Passwords] \cup {NoAccount}
Exists(u) == accounts[u] # NoAccount

(***************************************************************************)
(* Screens and tasks.  A sign-up screen has a number, for a chain and an   *)
(* observer belong to the instance that started them; other screens have   *)
(* the user they were pushed for.                                          *)
(***************************************************************************)
SignKinds == {"signUp", "manualUp", "manualIn"}
UserKinds == {"savedSignUp", "savedMenu", "profile", "mediaProfile"}
Screens == [kind : SignKinds, inst : 1..MaxScreens, user : {NoUser}]
             \cup [kind : UserKinds, inst : {0}, user : Users]
SignScreen(kind) == [kind |-> kind, inst |-> made + 1, user |-> NoUser]
UserScreen(kind, u) == [kind |-> kind, inst |-> 0, user |-> u]

OnMap == stack = <<>>
TopIs(kinds) == stack # <<>> /\ stack[Len(stack)].kind \in kinds
Top == stack[Len(stack)]
InStack(inst) == \E i \in DOMAIN stack : stack[i].inst = inst
Popped == SubSeq(stack, 1, Len(stack) - 1)

Steps == {"check", "create", "doc", "ack", "signIn", "getUser", "email"}
Task == [step : Steps, turn : 1..MaxTasks, inst : 0..MaxScreens,
         email : Emails \cup {NoEmail}, pwd : Passwords, user : Users \cup {NoUser},
         as : Users \cup {NoUser}]

Free == {n \in 1..MaxTasks : \A t \in tasks : t.turn # n}
Turn == CHOOSE n \in Free : \A m \in Free : n <= m
NewTask == [step |-> "check", turn |-> Turn, inst |-> 0, email |-> NoEmail,
            pwd |-> "typed", user |-> NoUser, as |-> NoUser]
Start(t) == Free # {} /\ tasks' = tasks \cup {t}
Goes(t, step) == tasks' = (tasks \ {t}) \cup {[t EXCEPT !.step = step]}
Ends(t) == tasks' = tasks \ {t}

Oddities == {"lost", "failed", "left", "twice", "leaked", "crossed"}

TypeOK ==
    /\ accounts \in [Users -> AccountType]
    /\ docs \in [Users -> Emails \cup {NoEmail}]
    /\ auth \in Users \cup {NoUser}
    /\ userId \in Users \cup {NoUser}
    /\ google \in BOOLEAN
    /\ stack \in Seq(Screens)
    /\ observers \subseteq [inst : 1..MaxScreens, manual : BOOLEAN]
    /\ tasks \subseteq Task
    /\ made \in 0..MaxScreens
    /\ odd \subseteq Oddities

Init ==
    /\ accounts = [u \in Users |-> NoAccount]
    /\ docs = [u \in Users |-> NoEmail]
    /\ auth = NoUser
    /\ userId = NoUser
    /\ google = FALSE
    /\ stack = <<>>
    /\ observers = {}
    /\ tasks = {}
    /\ made = 0
    /\ odd = {}

-----------------------------------------------------------------------------
(***************************************************************************)
(* Screens.  `controller = self` keeps every sign-up screen alive, so      *)
(* deinit never runs and leaving a screen keeps its observer.              *)
(***************************************************************************)
Shows(kind) ==
    /\ made < MaxScreens
    /\ made' = made + 1
    /\ stack' = Append(stack, SignScreen(kind))

Hears(manual) == [inst |-> made + 1, manual |-> manual]

\* The menu offers the sign-up screen to whom Auth does not know, the map's
\* empty view and a place's Save to whom MapController does not know.
OpenSignUp ==
    /\ OnMap
    /\ auth = NoUser \/ userId = NoUser
    /\ Shows("signUp")
    /\ observers' = observers \cup {Hears(FALSE)}
    /\ UNCHANGED <<server, auth, userId, google, tasks, odd>>

\* "Sign in" of the map's empty view.
OpenSignIn ==
    /\ OnMap
    /\ userId = NoUser
    /\ Shows("manualIn")
    /\ observers' = observers \cup {Hears(TRUE)}
    /\ UNCHANGED <<server, auth, userId, google, tasks, odd>>

Unheard(inst) == {o \in observers : o.inst # inst}

TappedSignInOrUp ==
    /\ TopIs({"signUp"})
    /\ \/ /\ Shows("manualUp")
          /\ observers' = Unheard(Top.inst)
       \/ /\ Shows("manualIn")
          /\ observers' = Unheard(Top.inst) \cup {Hears(TRUE)}
    /\ UNCHANGED <<server, auth, userId, google, tasks, odd>>

WaitedFor(inst) == \E t \in tasks : t.inst = inst /\ inst > 0

\* Back or Close.
Leave ==
    /\ TopIs(SignKinds \cup {"profile", "mediaProfile"})
    /\ stack' = Popped
    /\ odd' = odd \cup (IF WaitedFor(Top.inst) THEN {"left"} ELSE {})
    /\ UNCHANGED <<server, auth, userId, google, observers, tasks, made>>

\* Two chains that sign somebody in, or change an account, at once.
Again == IF \E t \in tasks : t.step # "getUser" THEN {"twice"} ELSE {}

TappedSubmit(e) ==
    /\ TopIs({"manualUp", "manualIn"})
    /\ Start([NewTask EXCEPT !.inst = Top.inst, !.email = e,
                !.step = IF Top.kind = "manualUp" THEN "check" ELSE "signIn"])
    /\ odd' = odd \cup Again
    /\ UNCHANGED <<server, auth, userId, google, stack, observers, made>>

ChainOf(o, e, n) ==
    [NewTask EXCEPT !.inst = o.inst, !.email = e, !.pwd = "default", !.turn = n,
                    !.step = IF o.manual THEN "signIn" ELSE "check"]

ScreensHear == \A o \in observers : InStack(o.inst)

\* Google answers every observer, those of screens left before included; it
\* signs its user out instead when it has one.
TappedGoogle(e) ==
    /\ TopIs({"signUp", "manualIn"})
    /\ google' = ~ google
    /\ IF google
       THEN UNCHANGED <<tasks, odd>>
       ELSE /\ Cardinality(observers) <= Cardinality(Free)
            /\ \E turn \in [observers -> Free] :
                 /\ \A o, p \in observers :
                      o.inst < p.inst => turn[o] < turn[p]
                 /\ tasks' = tasks \cup {ChainOf(o, e, turn[o]) : o \in observers}
            /\ odd' = odd \cup (IF observers = {} THEN {} ELSE Again)
                           \cup (IF ScreensHear THEN {} ELSE {"leaked"})
    /\ UNCHANGED <<server, auth, userId, stack, observers, made>>

-----------------------------------------------------------------------------
(***************************************************************************)
(* The chain of a sign-up.                                                 *)
(***************************************************************************)
Fails(t) ==
    /\ t.step \in Steps \ {"doc"}
    /\ Ends(t)
    /\ docs' = IF t.step = "ack" THEN [docs EXCEPT ![t.user] = NoEmail] ELSE docs
    /\ odd' = odd \cup {"failed"} \cup (IF t.step = "ack" THEN {"lost"} ELSE {})
    /\ UNCHANGED <<accounts, auth, userId, google, stack, observers, made>>

\* checkIfUserExist looks for the email among the documents, not in Auth.
Duplicate(e) == \E u \in Users : docs[u] = e

CheckAnswered(t) ==
    /\ t.step = "check"
    /\ Goes(t, IF Duplicate(t.email) THEN "signIn" ELSE "create")
    /\ UNCHANGED <<server, auth, userId, google, stack, observers, made, odd>>

Taken(e) == \E u \in Users : accounts[u].email = e

\* What the completion of createUser does: a block that writes the document.
MutantAfterCreate == "signIn"
AfterCreate == "doc"

\* createUser signs the new user in at once; its reply may be lost.
Created(t, u) ==
    /\ t.step = "create"
    /\ ~ Taken(t.email)
    /\ ~ Exists(u)
    /\ accounts' = [accounts EXCEPT ![u] = [email |-> t.email, pwd |-> t.pwd]]
    /\ \/ /\ auth' = u
          /\ tasks' = (tasks \ {t}) \cup {[t EXCEPT !.step = AfterCreate, !.user = u]}
          /\ UNCHANGED odd
       \/ /\ Ends(t)
          /\ odd' = odd \cup {"lost", "failed"}
          /\ UNCHANGED auth
    /\ UNCHANGED <<docs, userId, google, stack, observers, made>>

\* The block of DispatchQueue.main.async: setData, visible at once.
WriteDoc(t) ==
    /\ t.step = "doc"
    /\ docs' = [docs EXCEPT ![t.user] = t.email]
    /\ Goes(t, "ack")
    /\ UNCHANGED <<accounts, auth, userId, google, stack, observers, made, odd>>

\* What the completion of addNewUser does: login.
MutantAfterDoc == "done"
AfterDoc == "signIn"

DocAcked(t) ==
    /\ t.step = "ack"
    /\ Goes(t, AfterDoc)
    /\ UNCHANGED <<server, auth, userId, google, stack, observers, made, odd>>

\* transitionToController: the push has no effect from a screen that was left.
MutantPushed(inst, u) ==
    IF InStack(inst) THEN Append(stack, UserScreen("savedSignUp", auth)) ELSE stack
Pushed(inst, u) ==
    IF InStack(inst) THEN Append(stack, UserScreen("savedSignUp", u)) ELSE stack

SignedIn(t, u) ==
    /\ t.step = "signIn"
    /\ accounts[u] = [email |-> t.email, pwd |-> t.pwd]
    /\ auth' = u
    /\ Ends(t)
    /\ observers' = Unheard(t.inst)
    /\ stack' = Pushed(t.inst, u)
    /\ UNCHANGED <<server, userId, google, made, odd>>

-----------------------------------------------------------------------------
(***************************************************************************)
(* The menu, SavedController and the profile.                              *)
(***************************************************************************)
OpenSaved ==
    /\ OnMap
    /\ auth # NoUser
    /\ stack' = <<UserScreen("savedMenu", auth)>>
    /\ UNCHANGED <<server, auth, userId, google, observers, tasks, made, odd>>

\* setUpSearchView asks Auth for the user, retrieveLists does not.
MutantKnownAfter == userId
KnownAfter == IF Top.kind = "savedSignUp" THEN auth ELSE userId

\* viewWillDisappear pops to the map.
LeaveSaved ==
    /\ TopIs({"savedSignUp", "savedMenu"})
    /\ stack' = <<>>
    /\ userId' = KnownAfter
    /\ UNCHANGED <<server, auth, google, observers, tasks, made, odd>>

OpenProfile ==
    /\ OnMap
    /\ auth # NoUser
    /\ Start([NewTask EXCEPT !.step = "getUser", !.user = auth])
    /\ UNCHANGED <<server, auth, userId, google, stack, observers, made, odd>>

\* getUser completes only when there is a document.
ProfileAnswered(t) ==
    /\ t.step = "getUser"
    /\ Ends(t)
    /\ stack' = IF docs[t.user] = NoEmail THEN stack
                ELSE Append(stack, UserScreen(
                       IF google THEN "mediaProfile" ELSE "profile", t.user))
    /\ UNCHANGED <<server, auth, userId, google, observers, made, odd>>

\* The profile of one user submitted while another is signed in.
Crossed == IF Top.user # auth THEN {"crossed"} ELSE {}

SubmitProfile(e) ==
    /\ TopIs({"profile"})
    /\ stack' = Popped
    /\ IF auth = NoUser
       THEN UNCHANGED <<tasks, odd>>
       ELSE /\ Start([NewTask EXCEPT !.step = "email", !.email = e,
                        !.user = Top.user, !.as = auth])
            /\ odd' = odd \cup Again \cup Crossed
    /\ UNCHANGED <<server, auth, userId, google, observers, made>>

\* The email the document is given.
MutantDocEmail(t) == docs[t.user]
DocEmail(t) == t.email

\* updateEmail first, then the document, whose write may be refused.
EmailUpdated(t) ==
    /\ t.step = "email"
    /\ Exists(t.as)
    /\ \A u \in Users \ {t.as} : accounts[u].email # t.email
    /\ accounts' = [accounts EXCEPT ![t.as].email = t.email]
    /\ \/ docs' = [docs EXCEPT ![t.user] = DocEmail(t)] /\ UNCHANGED odd
       \/ UNCHANGED docs /\ odd' = odd \cup {"lost"}
    /\ Ends(t)
    /\ UNCHANGED <<auth, userId, google, stack, observers, made>>

LogOut ==
    /\ OnMap
    /\ auth # NoUser
    /\ auth' \in {NoUser, auth}
    /\ userId' = auth'
    /\ google' = FALSE
    /\ UNCHANGED <<server, stack, observers, tasks, made, odd>>

\* The app is killed and started again.
Relaunch ==
    /\ stack' = <<>>
    /\ observers' = {}
    /\ tasks' = {}
    /\ made' = 0
    /\ userId' = auth
    /\ odd' = odd \cup
         (IF tasks = {} THEN {} ELSE {"failed"}) \cup
         (IF \E t \in tasks : t.step \in {"doc", "email"} THEN {"lost"} ELSE {})
    /\ UNCHANGED <<server, auth, google>>

User ==
    \/ OpenSignUp \/ OpenSignIn \/ TappedSignInOrUp \/ Leave
    \/ \E e \in Emails : TappedSubmit(e) \/ TappedGoogle(e) \/ SubmitProfile(e)
    \/ OpenSaved \/ LeaveSaved \/ OpenProfile \/ LogOut

Succeeds(t) ==
    \/ CheckAnswered(t) \/ WriteDoc(t) \/ DocAcked(t)
    \/ ProfileAnswered(t) \/ EmailUpdated(t)
    \/ \E u \in Users : Created(t, u) \/ SignedIn(t, u)

Answer(t) == Succeeds(t) \/ Fails(t)

Next == User \/ (\E t \in tasks : Answer(t)) \/ Relaunch

Spec == Init /\ [][Next]_vars

\* Firebase calls back, with a result or an error, as long as the app lives.
AnswersTurn(n) == \E t \in tasks : t.turn = n /\ Answer(t)
FairSpec == Spec /\ \A n \in 1..MaxTasks : WF_vars(AnswersTurn(n))

-----------------------------------------------------------------------------
(***************************************************************************)
(* Properties.                                                             *)
(***************************************************************************)
\* addNewUser (UserDbController): unless a reply, a block or a write is lost,
\* every account has its document or a block on the main queue that writes it.
EveryAccountHasDoc ==
    "lost" \notin odd =>
        \A u \in Users : Exists(u) =>
            \/ docs[u] # NoEmail
            \/ \E t \in tasks : t.step = "doc" /\ t.user = u

\* checkIfUserExist looks for an email in the documents while createUser,
\* signIn and updateEmail use Auth: the two agree unless a write was lost or
\* the profile of one user was submitted while another was signed in.
DocsAgree ==
    odd \cap {"lost", "crossed"} = {} =>
        \A u \in Users : docs[u] # NoEmail => docs[u] = accounts[u].email

\* MapController.userId is the signed-in user whenever the map is on top and
\* no chain runs, unless a call failed, a sign-up screen was left too soon,
\* two chains ran at once or a screen that was left heard Google.
MapKnowsUser ==
    (OnMap /\ tasks = {} /\ odd \cap {"failed", "left", "twice", "leaked"} = {})
        => userId = auth

\* A form submitted once, whose screen is not left and whose calls succeed,
\* ends on the Saved screen.
SubmitArrives ==
    \A e \in Emails :
        (\E t \in tasks : t.email = e /\ t.step \in {"check", "signIn"})
            ~> (TopIs({"savedSignUp"}) \/ odd # {})

(***************************************************************************)
(* Account keeps the promises of Identity: SavedController is on screen    *)
(* when it is in the stack, for the user it was last pushed for.           *)
(***************************************************************************)
SavedScreens == {i \in DOMAIN stack : stack[i].kind \in {"savedSignUp", "savedMenu"}}
TopSaved == CHOOSE i \in SavedScreens : \A j \in SavedScreens : j <= i
SavedView ==
    IF SavedScreens = {} THEN [from |-> "none", user |-> NoUser]
    ELSE [from |-> IF stack[TopSaved].kind = "savedSignUp" THEN "signUp" ELSE "menu",
          user |-> stack[TopSaved].user]

Promise == INSTANCE Identity WITH saved <- SavedView

\* Every step of the account screens is a step, or a stutter, of Identity,
\* which Session builds on.
KeepsPromise == Promise!IdentitySpec

=============================================================================
