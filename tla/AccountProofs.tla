---------------------------- MODULE AccountProofs -----------------------------
(***************************************************************************)
(* Proofs about Account, for any users, emails, chains and screens, and    *)
(* that it keeps the promises of Identity.                                 *)
(***************************************************************************)
EXTENDS Account, SequenceTheorems, WellFoundedInduction, TLAPS

\* A chain that signs somebody in, told from a read or a change of a profile.
Chain(t) == t.step \notin {"getUser", "email"}

\* What a task carries is what its step needs.
TasksOK ==
    \A t \in tasks :
        /\ t.step # "getUser" => t.email \in Emails
        /\ t.step \in {"doc", "ack", "getUser", "email"} => t.user \in Users
        /\ t.step = "email" => t.as \in Users
        /\ Chain(t) => t.inst > 0

TypeInv == TypeOK /\ TasksOK

\* Documents agree with accounts: a document is written once for an account,
\* before a profile of it can be opened, and a profile changes both.
DocsKept ==
    odd \cap {"lost", "crossed"} = {} =>
        /\ \A u \in Users : docs[u] # NoEmail => docs[u] = accounts[u].email
        /\ \A t \in tasks : t.step = "doc" =>
              docs[t.user] = NoEmail /\ accounts[t.user].email = t.email
        /\ \A s, t \in tasks :
              s.step = "doc" /\ t.step = "doc" /\ s.user = t.user => s = t
        /\ \A t \in tasks : t.step = "email" =>
              t.as = t.user /\ docs[t.user] # NoEmail
        /\ \A i \in 1..Len(stack) :
              stack[i].kind = "profile" => docs[stack[i].user] # NoEmail

\* Sign-up screens stand at the bottom, while MapController knows nobody;
\* SavedController comes alone from the menu, above them after a sign-in, and
\* none of them comes above it.
StackOK ==
    /\ auth = NoUser => userId = NoUser
    /\ \A i \in 1..Len(stack) :
          /\ stack[i].kind = "savedMenu" => i = 1
          /\ stack[i].kind \in SignKinds => userId = NoUser
          /\ stack[i].kind \in SignKinds \cup {"savedSignUp"} => stack[1].kind \in SignKinds
          /\ stack[i].inst <= made
    /\ \A i, j \in 1..Len(stack) : i < j =>
          /\ stack[i].kind = "savedSignUp" => stack[j].kind \notin SignKinds
          /\ stack[i].inst > 0 => stack[i].inst # stack[j].inst

\* Of the screens that hear Google, one at most is in the stack.
ObserversOK ==
    /\ \A o \in observers : o.inst <= made
    /\ \A o, p \in observers : o.inst = p.inst => o = p
    /\ \A o \in observers : \A i, j \in 1..Len(stack) :
          stack[i].inst = o.inst /\ i < j => stack[j].kind \notin SignKinds

Arrived == \E i \in 1..Len(stack) : stack[i].kind = "savedSignUp"

\* Nothing was left, doubled, overheard or failed: one chain at a time, whose
\* screen is there, and which ends in SavedController; until that is left,
\* MapController may not know the user.
UserKept ==
    odd \cap {"failed", "left", "twice", "leaked"} = {} =>
        /\ \A t \in tasks : Chain(t) => InStack(t.inst) /\ ~Arrived
        /\ \A s, t \in tasks : Chain(s) /\ Chain(t) => s = t
        /\ userId = auth \/ Arrived \/ \E t \in tasks : Chain(t)

IInv == TypeInv /\ EveryAccountHasDoc /\ DocsKept /\ StackOK /\ ObserversOK /\ UserKept
-----------------------------------------------------------------------------
(* Screens and tasks.                                                      *)

\* A turn that is free is found.
LEMMA TurnIsFree ==
  ASSUME Free # {}
  PROVE  Turn \in Free /\ Turn \in 1..MaxTasks
<1> DEFINE R == OpToRel(<, Nat)
<1>1. Free \subseteq Nat /\ Free \subseteq 1..MaxTasks
  BY DEF Free
<1>2. IsWellFoundedOn(R, Nat)
  BY NatLessThanWellFounded
<1>3. \E n \in Free : \A m \in Free : ~(<<m, n>> \in R)
  <2> HIDE DEF R
  <2> QED  BY <1>1, <1>2, WFMin
<1>4. PICK n \in Free : \A m \in Free : ~(<<m, n>> \in R)
  BY <1>3
<1>5. \A m \in Free : n <= m
  <2>1. \A m \in Free : ~(m < n)
    BY <1>1, <1>4 DEF OpToRel
  <2> QED  BY <1>1, <2>1
<1>6. Turn \in Free
  BY <1>5 DEF Turn
<1> QED  BY <1>1, <1>6

LEMMA NewTaskType ==
  ASSUME Free # {}
  PROVE  /\ NewTask \in Task
         /\ NewTask.step = "check" /\ NewTask.inst = 0 /\ NewTask.email = NoEmail
         /\ NewTask.pwd = "typed" /\ NewTask.user = NoUser /\ NewTask.as = NoUser
<1>1. Turn \in 1..MaxTasks
  BY TurnIsFree
<1> QED  BY <1>1, AccountAssumption DEF NewTask, Task, Steps, Passwords

LEMMA ScreenType ==
  ASSUME NEW s \in Screens
  PROVE  /\ s.inst \in Nat
         /\ s.kind \in SignKinds => s.inst \in 1..MaxScreens /\ s.user = NoUser
         /\ s.kind \notin SignKinds => s.inst = 0 /\ s.user \in Users /\ s.kind \in UserKinds
BY DEF Screens, SignKinds, UserKinds

LEMMA SignScreenType ==
  ASSUME NEW kind \in SignKinds, made \in 0..MaxScreens, made < MaxScreens
  PROVE  /\ SignScreen(kind) \in Screens /\ SignScreen(kind).kind = kind
         /\ SignScreen(kind).inst = made + 1
BY AccountAssumption DEF SignScreen, Screens

LEMMA UserScreenType ==
  ASSUME NEW kind \in UserKinds, NEW u \in Users
  PROVE  /\ UserScreen(kind, u) \in Screens /\ UserScreen(kind, u).kind = kind
         /\ UserScreen(kind, u).inst = 0 /\ UserScreen(kind, u).user = u
BY DEF UserScreen, Screens

LEMMA StackType ==
  ASSUME TypeOK
  PROVE  /\ stack \in Seq(Screens) /\ Len(stack) \in Nat /\ DOMAIN stack = 1..Len(stack)
         /\ \A i \in 1..Len(stack) : stack[i] \in Screens
<1>1. stack \in Seq(Screens)
  BY DEF TypeOK
<1> QED  BY <1>1, ElementOfSeq

\* The stack with a screen less, and with one more.
LEMMA StackPopped ==
  ASSUME TypeOK, stack # <<>>
  PROVE  /\ Len(stack) \in Nat \ {0} /\ Top = stack[Len(stack)] /\ Top \in Screens
         /\ Popped \in Seq(Screens) /\ Len(Popped) = Len(stack) - 1
         /\ \A i \in 1..Len(Popped) : i \in 1..Len(stack) /\ Popped[i] = stack[i]
<1>1. Len(stack) \in Nat \ {0} /\ Top \in Screens
  BY StackType, EmptySeq DEF Top
<1> DEFINE n == Len(stack) - 1
<1>2. n \in Nat /\ n <= Len(stack)
  BY <1>1
<1>3. \A i \in 1..n : stack[i] \in Screens
  BY <1>1, StackType
<1> HIDE DEF n
<1>4. /\ SubSeq(stack, 1, n) \in Seq(Screens)
      /\ Len(SubSeq(stack, 1, n)) = n
      /\ \A i \in 1..n : SubSeq(stack, 1, n)[i] = stack[i]
  <2>1. /\ SubSeq(stack, 1, n) \in Seq(Screens)
        /\ Len(SubSeq(stack, 1, n)) = IF 1 <= n THEN n - 1 + 1 ELSE 0
        /\ \A i \in 1..(n - 1 + 1) : SubSeq(stack, 1, n)[i] = stack[1 + i - 1]
    BY <1>2, <1>3, SubSeqProperties
  <2> QED  BY <1>2, <2>1
<1>5. Popped = SubSeq(stack, 1, n)
  BY DEF Popped, n
<1>6. \A i \in 1..n : i \in 1..Len(stack)
  BY <1>1, <1>2
<1> QED  BY <1>1, <1>4, <1>5, <1>6 DEF Top, n

LEMMA StackPushed ==
  ASSUME TypeOK, NEW s \in Screens
  PROVE  /\ Append(stack, s) \in Seq(Screens) /\ Len(Append(stack, s)) = Len(stack) + 1
         /\ Append(stack, s)[Len(stack) + 1] = s
         /\ \A i \in 1..Len(stack) : Append(stack, s)[i] = stack[i]
BY StackType, AppendProperties

\* A step of a task leaves the rest of it.
LEMMA TaskGoes ==
  ASSUME NEW t \in Task, NEW step \in Steps
  PROVE  /\ [t EXCEPT !.step = step] \in Task
         /\ [t EXCEPT !.step = step].step = step
         /\ [t EXCEPT !.step = step].inst = t.inst
         /\ [t EXCEPT !.step = step].email = t.email
         /\ [t EXCEPT !.step = step].user = t.user
         /\ [t EXCEPT !.step = step].as = t.as
BY DEF Task

LEMMA TaskType ==
  ASSUME TypeInv, NEW t \in tasks
  PROVE  /\ t \in Task /\ t.step \in Steps /\ t.inst \in Nat /\ t.pwd \in Passwords
         /\ t.step # "getUser" => t.email \in Emails
         /\ t.step \in {"doc", "ack", "getUser", "email"} => t.user \in Users
         /\ t.step = "email" => t.as \in Users
         /\ Chain(t) => t.inst > 0
BY AccountAssumption DEF TypeInv, TypeOK, TasksOK, Task
-----------------------------------------------------------------------------
(* Types: one lemma for each kind of step.                                 *)

\* The parts of the type a step gives a value to.
LEMMA TypeKept ==
  ASSUME TypeInv,
         accounts' \in [Users -> AccountType],
         docs' \in [Users -> Emails \cup {NoEmail}],
         auth' \in Users \cup {NoUser}, userId' \in Users \cup {NoUser},
         google' \in BOOLEAN, stack' \in Seq(Screens),
         observers' \subseteq [inst : 1..MaxScreens, manual : BOOLEAN],
         made' \in 0..MaxScreens, odd' \subseteq Oddities,
         \A t \in tasks' : t \in tasks \/
            /\ t \in Task
            /\ t.step # "getUser" => t.email \in Emails
            /\ t.step \in {"doc", "ack", "getUser", "email"} => t.user \in Users
            /\ t.step = "email" => t.as \in Users
            /\ Chain(t) => t.inst > 0
  PROVE  TypeInv'
<1>1. tasks' \subseteq Task
  BY DEF TypeInv, TypeOK
<1>2. TypeOK'
  BY <1>1 DEF TypeOK
<1>3. TasksOK'
  BY DEF TypeInv, TasksOK, Chain
<1> QED  BY <1>2, <1>3 DEF TypeInv

LEMMA ScreensType ==
  ASSUME TypeInv, OpenSignUp \/ OpenSignIn \/ TappedSignInOrUp
  PROVE  TypeInv'
<1> USE DEF TypeInv
<1>1. UNCHANGED <<accounts, docs, auth, userId, google, tasks, odd>>
  BY DEF OpenSignUp, OpenSignIn, TappedSignInOrUp, server
<1>2. PICK kind \in SignKinds : Shows(kind)
  BY DEF OpenSignUp, OpenSignIn, TappedSignInOrUp, SignKinds
<1>3. made \in 0..MaxScreens /\ made < MaxScreens /\ made' = made + 1
      /\ stack' = Append(stack, SignScreen(kind))
  BY <1>2 DEF Shows, TypeOK
<1>4. made' \in 0..MaxScreens /\ made + 1 \in 1..MaxScreens
  BY <1>3, AccountAssumption
<1>5. stack' \in Seq(Screens)
  BY <1>3, SignScreenType, StackPushed
<1>6. observers' \subseteq observers \cup {Hears(TRUE), Hears(FALSE)}
  BY DEF OpenSignUp, OpenSignIn, TappedSignInOrUp, Unheard
<1>7. Hears(TRUE) \in [inst : 1..MaxScreens, manual : BOOLEAN]
  BY <1>4 DEF Hears
<1>8. Hears(FALSE) \in [inst : 1..MaxScreens, manual : BOOLEAN]
  BY <1>4 DEF Hears
<1>9. observers' \subseteq [inst : 1..MaxScreens, manual : BOOLEAN]
  BY <1>6, <1>7, <1>8 DEF TypeOK
<1> QED  BY <1>1, <1>4, <1>5, <1>9, TypeKept DEF TypeOK

LEMMA LeaveType ==
  ASSUME TypeInv, Leave
  PROVE  TypeInv'
<1>1. /\ UNCHANGED <<accounts, docs, auth, userId, google, observers, tasks, made>>
      /\ stack # <<>> /\ stack' = Popped /\ odd' \subseteq odd \cup {"left"}
  BY DEF Leave, server, TopIs
<1>2. stack' \in Seq(Screens)
  BY <1>1, StackPopped DEF TypeInv
<1>3. odd' \subseteq Oddities
  BY <1>1 DEF TypeInv, TypeOK, Oddities
<1> QED  BY <1>1, <1>2, <1>3, TypeKept DEF TypeInv, TypeOK

LEMMA SubmitType ==
  ASSUME TypeInv, NEW e \in Emails, TappedSubmit(e)
  PROVE  /\ TypeInv'
         /\ \E t \in Task : /\ t.step \in {"check", "signIn"} /\ t.inst = Top.inst
                            /\ tasks' = tasks \cup {t}
<1> DEFINE t == [NewTask EXCEPT !.inst = Top.inst, !.email = e,
                   !.step = IF Top.kind = "manualUp" THEN "check" ELSE "signIn"]
<1>1. /\ UNCHANGED <<accounts, docs, auth, userId, google, stack, observers, made>>
      /\ stack # <<>> /\ Top.kind \in SignKinds
      /\ Free # {} /\ tasks' = tasks \cup {t} /\ odd' \subseteq odd \cup {"twice"}
  BY DEF TappedSubmit, server, TopIs, Start, Again, SignKinds, Top
<1>2. Top.inst \in 1..MaxScreens
  BY <1>1, StackPopped, ScreenType DEF TypeInv
<1>3. t \in Task /\ t.email = e /\ t.inst = Top.inst /\ t.step \in {"check", "signIn"}
  <2> DEFINE step == IF Top.kind = "manualUp" THEN "check" ELSE "signIn"
  <2>1. step \in {"check", "signIn"} /\ step \in Steps
    BY DEF Steps
  <2>2. NewTask \in Task
    BY <1>1, NewTaskType
  <2> HIDE DEF step
  <2>3. Top.inst \in 0..MaxScreens
    BY <1>2
  <2>4. /\ [NewTask EXCEPT !.inst = Top.inst, !.email = e, !.step = step] \in Task
        /\ [NewTask EXCEPT !.inst = Top.inst, !.email = e, !.step = step].email = e
        /\ [NewTask EXCEPT !.inst = Top.inst, !.email = e, !.step = step].inst = Top.inst
        /\ [NewTask EXCEPT !.inst = Top.inst, !.email = e, !.step = step].step = step
    <3>1. PICK nt \in Task : nt = NewTask
      BY <2>2
    <3>2. PICK inst \in 0..MaxScreens : inst = Top.inst
      BY <2>3
    <3>3. PICK st \in Steps : st = step
      BY <2>1
    <3>4. /\ [nt EXCEPT !.inst = inst, !.email = e, !.step = st] \in Task
          /\ [nt EXCEPT !.inst = inst, !.email = e, !.step = st].email = e
          /\ [nt EXCEPT !.inst = inst, !.email = e, !.step = st].inst = inst
          /\ [nt EXCEPT !.inst = inst, !.email = e, !.step = st].step = st
      BY DEF Task
    <3> QED  BY <3>1, <3>2, <3>3, <3>4
  <2> QED  BY <2>1, <2>4 DEF step
<1>4. Chain(t) => t.inst > 0
  BY <1>2, <1>3
<1> HIDE DEF t
<1>5. odd' \subseteq Oddities
  BY <1>1 DEF TypeInv, TypeOK, Oddities
<1>6. \A s \in tasks' : s \in tasks \/ s = t
  BY <1>1
<1>7. \A s \in tasks' : s \in tasks \/
            /\ s \in Task
            /\ s.step # "getUser" => s.email \in Emails
            /\ s.step \in {"doc", "ack", "getUser", "email"} => s.user \in Users
            /\ s.step = "email" => s.as \in Users
            /\ Chain(s) => s.inst > 0
  BY <1>3, <1>4, <1>6
<1>8. TypeInv'
  BY <1>1, <1>5, <1>7, TypeKept DEF TypeInv, TypeOK
<1> QED  BY <1>1, <1>3, <1>8

\* The chains that Google starts: one for each observer.
LEMMA ChainType ==
  ASSUME TypeInv, Free # {}, NEW o \in observers, NEW e \in Emails, NEW n \in 1..MaxTasks
  PROVE  /\ ChainOf(o, e, n) \in Task
         /\ ChainOf(o, e, n).email = e /\ ChainOf(o, e, n).inst = o.inst
         /\ ChainOf(o, e, n).step \in {"check", "signIn"} /\ o.inst \in 1..MaxScreens
<1>1. o.inst \in 1..MaxScreens /\ o.manual \in BOOLEAN
  BY DEF TypeInv, TypeOK
<1>2. NewTask \in Task /\ o.inst \in 0..MaxScreens
  BY <1>1, NewTaskType
<1> DEFINE step == IF o.manual THEN "signIn" ELSE "check"
<1>3. step \in {"check", "signIn"} /\ step \in Steps
  BY DEF Steps
<1>4. ChainOf(o, e, n) = [NewTask EXCEPT !.inst = o.inst, !.email = e, !.pwd = "default",
                                         !.turn = n, !.step = step]
  BY DEF ChainOf
<1> HIDE DEF step
<1>5. "default" \in Passwords
  BY DEF Passwords
<1> QED  BY <1>1, <1>2, <1>3, <1>4, <1>5 DEF Task

LEMMA GoogleType ==
  ASSUME TypeInv, NEW e \in Emails, TappedGoogle(e)
  PROVE  /\ TypeInv'
         /\ \A s \in tasks' : s \in tasks \/
               (s.step \in {"check", "signIn"} /\ \E o \in observers : s.inst = o.inst)
<1>1. /\ UNCHANGED <<accounts, docs, auth, userId, stack, observers, made>>
      /\ google' = ~google
      /\ odd' \subseteq odd \cup {"twice", "leaked"}
  BY DEF TappedGoogle, server, Again
<1>2. \A t \in tasks' : t \in tasks \/
         \E o \in observers : \E n \in 1..MaxTasks : t = ChainOf(o, e, n) /\ n \in Free
  <2>1. CASE google
    BY <2>1 DEF TappedGoogle
  <2>2. CASE ~google
    <3>1. PICK turn \in [observers -> Free] :
             tasks' = tasks \cup {ChainOf(o, e, turn[o]) : o \in observers}
      BY <2>2 DEF TappedGoogle
    <3>2. \A o \in observers : turn[o] \in 1..MaxTasks /\ turn[o] \in Free
      BY DEF Free
    <3> QED  BY <3>1, <3>2
  <2> QED  BY <2>1, <2>2
<1>3. \A t \in tasks' : t \in tasks \/
            /\ t \in Task
            /\ t.step # "getUser" => t.email \in Emails
            /\ t.step \in {"doc", "ack", "getUser", "email"} => t.user \in Users
            /\ t.step = "email" => t.as \in Users
            /\ Chain(t) => t.inst > 0
  <2> SUFFICES ASSUME NEW t \in tasks', t \notin tasks
               PROVE  /\ t \in Task /\ t.email \in Emails /\ t.inst > 0
                      /\ t.step \in {"check", "signIn"}
    OBVIOUS
  <2>1. PICK o \in observers, n \in 1..MaxTasks : t = ChainOf(o, e, n) /\ n \in Free
    BY <1>2
  <2> QED  BY <2>1, ChainType
<1>4. \A s \in tasks' : s \in tasks \/
         (s.step \in {"check", "signIn"} /\ \E o \in observers : s.inst = o.inst)
  <2> SUFFICES ASSUME NEW t \in tasks', t \notin tasks
               PROVE  t.step \in {"check", "signIn"} /\ \E o \in observers : t.inst = o.inst
    OBVIOUS
  <2>1. PICK o \in observers, n \in 1..MaxTasks : t = ChainOf(o, e, n) /\ n \in Free
    BY <1>2
  <2> QED  BY <2>1, ChainType
<1>5. odd' \subseteq Oddities /\ google' \in BOOLEAN
  BY <1>1 DEF TypeInv, TypeOK, Oddities
<1>6. TypeInv'
  BY <1>1, <1>3, <1>5, TypeKept DEF TypeInv, TypeOK
<1> QED  BY <1>4, <1>6
LEMMA SubmitProfileType ==
  ASSUME TypeInv, NEW e \in Emails, SubmitProfile(e)
  PROVE  /\ TypeInv'
         /\ \A s \in tasks' : s \in tasks \/
               (s.step = "email" /\ s.user = Top.user /\ s.as = auth)
<1>1. /\ UNCHANGED <<accounts, docs, auth, userId, google, observers, made>>
      /\ stack # <<>> /\ Top.kind = "profile" /\ stack' = Popped
  BY DEF SubmitProfile, server, TopIs, Top
<1>2. stack' \in Seq(Screens) /\ Top \in Screens
  BY <1>1, StackPopped DEF TypeInv
<1>3. Top.user \in Users
  BY <1>1, <1>2, ScreenType DEF SignKinds
<1>4. CASE auth = NoUser
  <2>1. tasks' = tasks /\ odd' = odd
    BY <1>4 DEF SubmitProfile
  <2> QED  BY <1>1, <1>2, <2>1, TypeKept DEF TypeInv, TypeOK
<1>5. CASE auth # NoUser
  <2> DEFINE t == [NewTask EXCEPT !.step = "email", !.email = e, !.user = Top.user, !.as = auth]
  <2>1. Free # {} /\ tasks' = tasks \cup {t} /\ odd' \subseteq odd \cup {"twice", "crossed"}
    BY <1>5 DEF SubmitProfile, Start, Again, Crossed
  <2>2. t \in Task /\ t.step = "email" /\ t.email = e /\ t.user = Top.user /\ t.as = auth
    <3>1. PICK nt \in Task : nt = NewTask
      BY <2>1, NewTaskType
    <3>2. PICK u \in Users : u = Top.user
      BY <1>3
    <3>3. PICK v \in Users : v = auth
      BY <1>5 DEF TypeInv, TypeOK
    <3> DEFINE s == [nt EXCEPT !.step = "email", !.email = e, !.user = u, !.as = v]
    <3>4. s \in Task /\ s.step = "email" /\ s.email = e /\ s.user = u /\ s.as = v
      BY DEF Task, Steps
    <3> QED  BY <3>1, <3>2, <3>3, <3>4
  <2> HIDE DEF t
  <2>3. \A s \in tasks' : s \in tasks \/ s = t
    BY <2>1
  <2>4. \A s \in tasks' : s \in tasks \/
            /\ s \in Task
            /\ s.step # "getUser" => s.email \in Emails
            /\ s.step \in {"doc", "ack", "getUser", "email"} => s.user \in Users
            /\ s.step = "email" => s.as \in Users
            /\ Chain(s) => s.inst > 0
    BY <1>3, <1>5, <2>2, <2>3 DEF Chain, TypeInv, TypeOK
  <2>5. odd' \subseteq Oddities
    BY <2>1 DEF TypeInv, TypeOK, Oddities
  <2>6. TypeInv'
    BY <1>1, <1>2, <2>4, <2>5, TypeKept DEF TypeInv, TypeOK
  <2> QED  BY <2>2, <2>3, <2>6
<1> QED  BY <1>4, <1>5

LEMMA OpenProfileType ==
  ASSUME TypeInv, OpenProfile
  PROVE  /\ TypeInv'
         /\ \A s \in tasks' : s \in tasks \/ (s.step = "getUser" /\ s.user = auth)
<1> DEFINE t == [NewTask EXCEPT !.step = "getUser", !.user = auth]
<1>1. /\ UNCHANGED <<accounts, docs, auth, userId, google, stack, observers, made, odd>>
      /\ auth # NoUser /\ Free # {} /\ tasks' = tasks \cup {t}
  BY DEF OpenProfile, server, Start
<1>2. t \in Task /\ t.step = "getUser" /\ t.user = auth
  <2>1. PICK nt \in Task : nt = NewTask
    BY <1>1, NewTaskType
  <2>2. PICK u \in Users : u = auth
    BY <1>1 DEF TypeInv, TypeOK
  <2> DEFINE s == [nt EXCEPT !.step = "getUser", !.user = u]
  <2>3. s \in Task /\ s.step = "getUser" /\ s.user = u
    BY DEF Task, Steps
  <2> QED  BY <2>1, <2>2, <2>3
<1> HIDE DEF t
<1>3. \A s \in tasks' : s \in tasks \/ s = t
  BY <1>1
<1>4. \A s \in tasks' : s \in tasks \/
          /\ s \in Task
          /\ s.step # "getUser" => s.email \in Emails
          /\ s.step \in {"doc", "ack", "getUser", "email"} => s.user \in Users
          /\ s.step = "email" => s.as \in Users
          /\ Chain(s) => s.inst > 0
  BY <1>1, <1>2, <1>3 DEF Chain, TypeInv, TypeOK
<1>5. TypeInv'
  BY <1>1, <1>4, TypeKept DEF TypeInv, TypeOK
<1> QED  BY <1>2, <1>3, <1>5

\* Steps of the menu and of SavedController, which leave the tasks alone.
LEMMA MenuType ==
  ASSUME TypeInv, OpenSaved \/ LeaveSaved \/ LogOut
  PROVE  TypeInv'
<1> USE DEF TypeInv
<1>1. UNCHANGED <<accounts, docs, observers, tasks, made, odd>>
  BY DEF OpenSaved, LeaveSaved, LogOut, server
<1>2. auth' \in Users \cup {NoUser} /\ userId' \in Users \cup {NoUser} /\ google' \in BOOLEAN
  <2>1. CASE OpenSaved
    BY <2>1 DEF OpenSaved, TypeOK
  <2>2. CASE LeaveSaved
    BY <2>2 DEF LeaveSaved, KnownAfter, TypeOK
  <2>3. CASE LogOut
    BY <2>3 DEF LogOut, TypeOK
  <2> QED  BY <2>1, <2>2, <2>3
<1>3. stack' \in Seq(Screens)
  <2>1. CASE OpenSaved
    <3>1. auth \in Users /\ stack' = <<UserScreen("savedMenu", auth)>>
      BY <2>1 DEF OpenSaved, TypeOK
    <3>2. UserScreen("savedMenu", auth) \in Screens
      BY <3>1, UserScreenType DEF UserKinds
    <3> QED  BY <3>1, <3>2
  <2>2. CASE LeaveSaved
    BY <2>2, EmptySeq DEF LeaveSaved
  <2>3. CASE LogOut
    BY <2>3 DEF LogOut, TypeOK
  <2> QED  BY <2>1, <2>2, <2>3
<1> QED  BY <1>1, <1>2, <1>3, TypeKept DEF TypeOK

\* What is left when a task ends or goes on.
LEMMA TaskMoved ==
  ASSUME NEW t \in Task, NEW step \in Steps, Goes(t, step)
  PROVE  \E s \in Task :
            /\ s.step = step /\ s.inst = t.inst /\ s.email = t.email /\ s.pwd = t.pwd
            /\ s.user = t.user /\ s.as = t.as
            /\ tasks' = (tasks \ {t}) \cup {s}
<1> DEFINE s == [t EXCEPT !.step = step]
<1>1. s \in Task /\ s.step = step /\ s.inst = t.inst /\ s.email = t.email /\ s.pwd = t.pwd
      /\ s.user = t.user /\ s.as = t.as
  BY DEF Task
<1>2. tasks' = (tasks \ {t}) \cup {s}
  BY DEF Goes
<1> HIDE DEF s
<1> QED  BY <1>1, <1>2
\* A task that goes on carries what its new step needs.
LEMMA GoesType ==
  ASSUME TypeInv, NEW t \in tasks, NEW step \in Steps, Goes(t, step),
         t.step \in {"check", "doc", "ack"}, step \in {"signIn", "create", "ack"},
         step = "ack" => t.step = "doc",
         accounts' = accounts, docs' \in [Users -> Emails \cup {NoEmail}],
         auth' = auth, userId' = userId, google' = google, stack' = stack,
         observers' = observers, made' = made, odd' = odd
  PROVE  TypeInv'
<1>1. /\ t \in Task /\ t.email \in Emails /\ t.inst > 0
      /\ t.step \in {"doc", "ack"} => t.user \in Users
  BY TaskType DEF Chain
<1>2. PICK s \in Task :
         /\ s.step = step /\ s.inst = t.inst /\ s.email = t.email /\ s.user = t.user
         /\ tasks' = (tasks \ {t}) \cup {s}
  BY <1>1, TaskMoved
<1>3. \A r \in tasks' : r \in tasks \/ r = s
  BY <1>2
<1>4. \A r \in tasks' : r \in tasks \/
          /\ r \in Task
          /\ r.step # "getUser" => r.email \in Emails
          /\ r.step \in {"doc", "ack", "getUser", "email"} => r.user \in Users
          /\ r.step = "email" => r.as \in Users
          /\ Chain(r) => r.inst > 0
  BY <1>1, <1>2, <1>3
<1> QED  BY <1>4, TypeKept DEF TypeInv, TypeOK

LEMMA CheckAnsweredType ==
  ASSUME TypeInv, NEW t \in tasks, CheckAnswered(t)
  PROVE  /\ TypeInv'
         /\ \E s \in Task : /\ s.step \in {"signIn", "create"} /\ s.inst = t.inst
                            /\ tasks' = (tasks \ {t}) \cup {s}
<1> DEFINE step == IF Duplicate(t.email) THEN "signIn" ELSE "create"
<1>1. step \in {"signIn", "create"} /\ step \in Steps
  BY DEF Steps
<1>2. /\ t.step = "check" /\ Goes(t, step)
      /\ UNCHANGED <<accounts, docs, auth, userId, google, stack, observers, made, odd>>
  BY DEF CheckAnswered, server
<1> HIDE DEF step
<1>3. docs' \in [Users -> Emails \cup {NoEmail}]
  BY <1>2 DEF TypeInv, TypeOK
<1>4. TypeInv'
  BY <1>1, <1>2, <1>3, GoesType
<1>5. t \in Task
  BY TaskType
<1> QED  BY <1>1, <1>2, <1>4, <1>5, TaskMoved

LEMMA WriteDocType ==
  ASSUME TypeInv, NEW t \in tasks, WriteDoc(t)
  PROVE  /\ TypeInv'
         /\ t.user \in Users /\ t.email \in Emails
         /\ docs' = [docs EXCEPT ![t.user] = t.email]
         /\ \E s \in Task : /\ s.step = "ack" /\ s.inst = t.inst
                            /\ tasks' = (tasks \ {t}) \cup {s}
<1>1. /\ t.step = "doc" /\ Goes(t, "ack") /\ docs' = [docs EXCEPT ![t.user] = t.email]
      /\ UNCHANGED <<accounts, auth, userId, google, stack, observers, made, odd>>
  BY DEF WriteDoc
<1>2. t.user \in Users /\ t.email \in Emails /\ t \in Task
  BY <1>1, TaskType
<1>3. docs' \in [Users -> Emails \cup {NoEmail}]
  BY <1>1, <1>2 DEF TypeInv, TypeOK
<1>4. "ack" \in Steps
  BY DEF Steps
<1>5. TypeInv'
  BY <1>1, <1>3, <1>4, GoesType
<1> QED  BY <1>1, <1>2, <1>4, <1>5, TaskMoved

LEMMA DocAckedType ==
  ASSUME TypeInv, NEW t \in tasks, DocAcked(t)
  PROVE  /\ TypeInv'
         /\ \E s \in Task : /\ s.step = "signIn" /\ s.inst = t.inst
                            /\ tasks' = (tasks \ {t}) \cup {s}
<1>1. /\ t.step = "ack" /\ Goes(t, "signIn")
      /\ UNCHANGED <<accounts, docs, auth, userId, google, stack, observers, made, odd>>
  BY DEF DocAcked, server, AfterDoc
<1>2. docs' \in [Users -> Emails \cup {NoEmail}] /\ t \in Task
  BY <1>1, TaskType DEF TypeInv, TypeOK
<1>3. "signIn" \in Steps
  BY DEF Steps
<1>4. TypeInv'
  BY <1>1, <1>2, <1>3, GoesType
<1> QED  BY <1>1, <1>2, <1>3, <1>4, TaskMoved

\* Tasks that end leave the rest of the type to check.
LEMMA EndsType ==
  ASSUME TypeInv, tasks' \subseteq tasks,
         accounts' \in [Users -> AccountType],
         docs' \in [Users -> Emails \cup {NoEmail}],
         auth' \in Users \cup {NoUser}, userId' \in Users \cup {NoUser},
         google' \in BOOLEAN, stack' \in Seq(Screens),
         observers' \subseteq [inst : 1..MaxScreens, manual : BOOLEAN],
         made' \in 0..MaxScreens, odd' \subseteq Oddities
  PROVE  TypeInv'
<1>1. \A r \in tasks' : r \in tasks
  OBVIOUS
<1>2. \A r \in tasks' : r \in tasks \/
          /\ r \in Task
          /\ r.step # "getUser" => r.email \in Emails
          /\ r.step \in {"doc", "ack", "getUser", "email"} => r.user \in Users
          /\ r.step = "email" => r.as \in Users
          /\ Chain(r) => r.inst > 0
  BY <1>1
<1> QED  BY <1>2, TypeKept

LEMMA ProfileAnsweredType ==
  ASSUME TypeInv, NEW t \in tasks, ProfileAnswered(t)
  PROVE  /\ TypeInv'
         /\ t.user \in Users /\ tasks' = tasks \ {t}
         /\ \/ stack' = stack
            \/ \E kind \in {"profile", "mediaProfile"} :
                  stack' = Append(stack, UserScreen(kind, t.user)) /\ docs[t.user] # NoEmail
<1>1. /\ t.step = "getUser" /\ tasks' = tasks \ {t}
      /\ UNCHANGED <<accounts, docs, auth, userId, google, observers, made, odd>>
  BY DEF ProfileAnswered, Ends, server
<1>2. t.user \in Users
  BY <1>1, TaskType
<1> DEFINE kind == IF google THEN "mediaProfile" ELSE "profile"
<1>3. \/ stack' = stack
      \/ stack' = Append(stack, UserScreen(kind, t.user)) /\ docs[t.user] # NoEmail
  BY DEF ProfileAnswered
<1>4. kind \in {"profile", "mediaProfile"} /\ kind \in UserKinds
  BY DEF UserKinds
<1> HIDE DEF kind
<1>5. stack' \in Seq(Screens)
  <2>1. UserScreen(kind, t.user) \in Screens
    BY <1>2, <1>4, UserScreenType
  <2>2. Append(stack, UserScreen(kind, t.user)) \in Seq(Screens) /\ stack \in Seq(Screens)
    BY <2>1, StackPushed DEF TypeInv, TypeOK
  <2> QED  BY <1>3, <2>2
<1>6. TypeInv'
  BY <1>1, <1>5, EndsType DEF TypeInv, TypeOK
<1> QED  BY <1>1, <1>2, <1>3, <1>4, <1>6

LEMMA EmailUpdatedType ==
  ASSUME TypeInv, NEW t \in tasks, EmailUpdated(t)
  PROVE  /\ TypeInv'
         /\ t.as \in Users /\ t.user \in Users /\ t.email \in Emails
         /\ tasks' = tasks \ {t}
<1>1. /\ t.step = "email" /\ tasks' = tasks \ {t} /\ Exists(t.as)
      /\ accounts' = [accounts EXCEPT ![t.as].email = t.email]
      /\ \/ docs' = [docs EXCEPT ![t.user] = t.email]
         \/ docs' = docs
      /\ odd' \subseteq odd \cup {"lost"}
      /\ UNCHANGED <<auth, userId, google, stack, observers, made>>
  BY DEF EmailUpdated, Ends, DocEmail
<1>2. t.as \in Users /\ t.user \in Users /\ t.email \in Emails
  BY <1>1, TaskType
<1>3. accounts[t.as] \in [email : Emails, pwd : Passwords]
  BY <1>1, <1>2 DEF TypeInv, TypeOK, AccountType, Exists
<1>4. [accounts[t.as] EXCEPT !.email = t.email] \in AccountType
  BY <1>2, <1>3 DEF AccountType
<1>5. accounts' \in [Users -> AccountType]
  BY <1>1, <1>2, <1>4 DEF TypeInv, TypeOK
<1>6. docs' \in [Users -> Emails \cup {NoEmail}]
  BY <1>1, <1>2 DEF TypeInv, TypeOK
<1>7. odd' \subseteq Oddities
  BY <1>1 DEF TypeInv, TypeOK, Oddities
<1>8. TypeInv'
  BY <1>1, <1>5, <1>6, <1>7, EndsType DEF TypeInv, TypeOK
<1> QED  BY <1>1, <1>2, <1>8
LEMMA CreatedType ==
  ASSUME TypeInv, NEW t \in tasks, NEW u \in Users, Created(t, u)
  PROVE  /\ TypeInv'
         /\ t.email \in Emails /\ t.inst > 0
         /\ \/ /\ auth' = u /\ odd' = odd
               /\ \E s \in Task : /\ s.step = "doc" /\ s.user = u /\ s.inst = t.inst
                                  /\ s.email = t.email /\ tasks' = (tasks \ {t}) \cup {s}
            \/ /\ auth' = auth /\ odd' = odd \cup {"lost", "failed"}
               /\ tasks' = tasks \ {t}
<1>1. /\ t.step = "create"
      /\ accounts' = [accounts EXCEPT ![u] = [email |-> t.email, pwd |-> t.pwd]]
      /\ UNCHANGED <<docs, userId, google, stack, observers, made>>
  BY DEF Created
<1>2. t \in Task /\ t.email \in Emails /\ t.pwd \in Passwords /\ t.inst > 0
  BY <1>1, TaskType DEF Chain
<1>3. [email |-> t.email, pwd |-> t.pwd] \in AccountType
  BY <1>2 DEF AccountType
<1>4. accounts' \in [Users -> AccountType]
  BY <1>1, <1>3 DEF TypeInv, TypeOK
<1> DEFINE s == [t EXCEPT !.step = "doc", !.user = u]
<1>5. s \in Task /\ s.step = "doc" /\ s.user = u /\ s.inst = t.inst /\ s.email = t.email
  BY <1>2 DEF Task, Steps
<1>6. \/ auth' = u /\ odd' = odd /\ tasks' = (tasks \ {t}) \cup {s}
      \/ auth' = auth /\ odd' = odd \cup {"lost", "failed"} /\ tasks' = tasks \ {t}
  BY DEF Created, Ends, AfterCreate
<1> HIDE DEF s
<1>7. \A r \in tasks' : r \in tasks \/ r = s
  BY <1>6
<1>8. \A r \in tasks' : r \in tasks \/
          /\ r \in Task
          /\ r.step # "getUser" => r.email \in Emails
          /\ r.step \in {"doc", "ack", "getUser", "email"} => r.user \in Users
          /\ r.step = "email" => r.as \in Users
          /\ Chain(r) => r.inst > 0
  BY <1>2, <1>5, <1>7
<1>9. odd' \subseteq Oddities /\ auth' \in Users \cup {NoUser}
  BY <1>6 DEF TypeInv, TypeOK, Oddities
<1>10. TypeInv'
  BY <1>1, <1>4, <1>8, <1>9, TypeKept DEF TypeInv, TypeOK
<1> QED  BY <1>2, <1>5, <1>6, <1>10

LEMMA SignedInType ==
  ASSUME TypeInv, NEW t \in tasks, NEW u \in Users, SignedIn(t, u)
  PROVE  /\ TypeInv'
         /\ t.step = "signIn" /\ t.email \in Emails /\ t.inst > 0 /\ tasks' = tasks \ {t}
         /\ UserScreen("savedSignUp", u) \in Screens
         /\ UserScreen("savedSignUp", u).kind = "savedSignUp"
         /\ UserScreen("savedSignUp", u).user = u
         /\ UserScreen("savedSignUp", u).inst = 0
         /\ \/ InStack(t.inst) /\ stack' = Append(stack, UserScreen("savedSignUp", u))
            \/ ~InStack(t.inst) /\ stack' = stack
<1>1. /\ t.step = "signIn" /\ tasks' = tasks \ {t} /\ auth' = u
      /\ observers' \subseteq observers
      /\ UNCHANGED <<accounts, docs, userId, google, made, odd>>
  BY DEF SignedIn, Ends, Unheard, server
<1>2. t.email \in Emails /\ t.inst > 0
  BY <1>1, TaskType DEF Chain
<1>3. /\ UserScreen("savedSignUp", u) \in Screens
      /\ UserScreen("savedSignUp", u).kind = "savedSignUp"
      /\ UserScreen("savedSignUp", u).user = u
      /\ UserScreen("savedSignUp", u).inst = 0
  BY UserScreenType DEF UserKinds
<1>4. \/ InStack(t.inst) /\ stack' = Append(stack, UserScreen("savedSignUp", u))
      \/ ~InStack(t.inst) /\ stack' = stack
  BY DEF SignedIn, Pushed
<1>5. stack' \in Seq(Screens)
  BY <1>3, <1>4, StackPushed DEF TypeInv, TypeOK
<1>6. TypeInv'
  BY <1>1, <1>5, EndsType DEF TypeInv, TypeOK
<1> QED  BY <1>1, <1>2, <1>3, <1>4, <1>6

LEMMA FailsType ==
  ASSUME TypeInv, NEW t \in tasks, Fails(t)
  PROVE  TypeInv' /\ (t.step = "ack" => t.user \in Users)
<1>1. /\ tasks' = tasks \ {t}
      /\ docs' = IF t.step = "ack" THEN [docs EXCEPT ![t.user] = NoEmail] ELSE docs
      /\ odd' \subseteq odd \cup {"failed", "lost"}
      /\ UNCHANGED <<accounts, auth, userId, google, stack, observers, made>>
  BY DEF Fails, Ends
<1>2. t.step = "ack" => t.user \in Users
  BY TaskType
<1>3. docs' \in [Users -> Emails \cup {NoEmail}]
  BY <1>1, <1>2 DEF TypeInv, TypeOK
<1>4. odd' \subseteq Oddities
  BY <1>1 DEF TypeInv, TypeOK, Oddities
<1>5. TypeInv'
  BY <1>1, <1>3, <1>4, EndsType DEF TypeInv, TypeOK
<1> QED  BY <1>2, <1>5

LEMMA RelaunchType ==
  ASSUME TypeInv, Relaunch
  PROVE  TypeInv'
<1>1. /\ stack' = <<>> /\ observers' = {} /\ tasks' = {} /\ made' = 0 /\ userId' = auth
      /\ odd' \subseteq odd \cup {"failed", "lost"}
      /\ UNCHANGED <<accounts, docs, auth, google>>
  BY DEF Relaunch, server
<1>2. stack' \in Seq(Screens)
  BY <1>1, EmptySeq
<1>3. odd' \subseteq Oddities /\ made' \in 0..MaxScreens
  BY <1>1, AccountAssumption DEF TypeInv, TypeOK, Oddities
<1>4. observers' \subseteq [inst : 1..MaxScreens, manual : BOOLEAN] /\ tasks' \subseteq tasks
  BY <1>1
<1> QED  BY <1>1, <1>2, <1>3, <1>4, EndsType DEF TypeInv, TypeOK

LEMMA InitType ==
  ASSUME Init
  PROVE  TypeInv
<1>1. stack \in Seq(Screens)
  BY EmptySeq DEF Init
<1>2. accounts \in [Users -> AccountType] /\ docs \in [Users -> Emails \cup {NoEmail}]
  BY DEF Init, AccountType
<1>3. made \in 0..MaxScreens
  BY AccountAssumption DEF Init
<1>4. /\ auth = NoUser /\ userId = NoUser /\ google \in BOOLEAN
      /\ observers = {} /\ tasks = {} /\ odd = {}
  BY DEF Init
<1>5. TypeOK
  BY <1>1, <1>2, <1>3, <1>4 DEF TypeOK
<1>6. TasksOK
  BY <1>4 DEF TasksOK
<1> QED  BY <1>5, <1>6 DEF TypeInv

\* Every step, told apart once for all the proofs below.
LEMMA NextCases ==
  ASSUME Next
  PROVE  \/ OpenSignUp \/ OpenSignIn \/ TappedSignInOrUp \/ Leave
         \/ \E e \in Emails : TappedSubmit(e) \/ TappedGoogle(e) \/ SubmitProfile(e)
         \/ OpenSaved \/ LeaveSaved \/ OpenProfile \/ LogOut
         \/ \E t \in tasks :
               \/ CheckAnswered(t) \/ WriteDoc(t) \/ DocAcked(t)
               \/ ProfileAnswered(t) \/ EmailUpdated(t) \/ Fails(t)
               \/ \E u \in Users : Created(t, u) \/ SignedIn(t, u)
         \/ Relaunch
BY Zenon DEF Next, User, Answer, Succeeds

LEMMA NextType ==
  ASSUME TypeInv, [Next]_vars
  PROVE  TypeInv'
<1>1. CASE UNCHANGED vars
  BY <1>1 DEF vars, server, TypeInv, TypeOK, TasksOK, Chain, AccountType, Task, Steps
<1>2. CASE OpenSignUp \/ OpenSignIn \/ TappedSignInOrUp
  BY <1>2, ScreensType
<1>3. CASE Leave
  BY <1>3, LeaveType
<1>4. ASSUME NEW e \in Emails, TappedSubmit(e)
      PROVE  TypeInv'
  BY <1>4, SubmitType
<1>5. ASSUME NEW e \in Emails, TappedGoogle(e)
      PROVE  TypeInv'
  BY <1>5, GoogleType
<1>6. ASSUME NEW e \in Emails, SubmitProfile(e)
      PROVE  TypeInv'
  BY <1>6, SubmitProfileType
<1>7. CASE OpenSaved \/ LeaveSaved \/ LogOut
  BY <1>7, MenuType
<1>8. CASE OpenProfile
  BY <1>8, OpenProfileType
<1>9. ASSUME NEW t \in tasks,
             \/ CheckAnswered(t) \/ WriteDoc(t) \/ DocAcked(t)
             \/ ProfileAnswered(t) \/ EmailUpdated(t) \/ Fails(t)
             \/ \E u \in Users : Created(t, u) \/ SignedIn(t, u)
      PROVE  TypeInv'
  <2>1. CASE CheckAnswered(t)  BY <2>1, CheckAnsweredType
  <2>2. CASE WriteDoc(t)  BY <2>2, WriteDocType
  <2>3. CASE DocAcked(t)  BY <2>3, DocAckedType
  <2>4. CASE ProfileAnswered(t)  BY <2>4, ProfileAnsweredType
  <2>5. CASE EmailUpdated(t)  BY <2>5, EmailUpdatedType
  <2>6. CASE Fails(t)  BY <2>6, FailsType
  <2>7. CASE \E u \in Users : Created(t, u)  BY <2>7, CreatedType
  <2>8. CASE \E u \in Users : SignedIn(t, u)  BY <2>8, SignedInType
  <2> QED  BY <1>9, <2>1, <2>2, <2>3, <2>4, <2>5, <2>6, <2>7, <2>8
<1>10. CASE Relaunch
  BY <1>10, RelaunchType
<1>11. CASE Next
  BY <1>2, <1>3, <1>4, <1>5, <1>6, <1>7, <1>8, <1>9, <1>10, <1>11, NextCases
<1> QED  BY <1>1, <1>11

\* Every variable of Account keeps its type: no chain, screen or observer is
\* outside the bounds, and no step invents a user or an email.
THEOREM AccountTypeCorrect == Spec => []TypeOK
<1>1. Init => TypeInv
  BY InitType
<1>2. TypeInv /\ [Next]_vars => TypeInv'
  BY NextType
<1>3. TypeInv => TypeOK
  BY DEF TypeInv
<1> QED  BY <1>1, <1>2, <1>3, PTL DEF Spec
-----------------------------------------------------------------------------
(* Documents and accounts.                                                 *)

\* What a step that neither adds an account nor writes a document leaves alone.
LEMMA QuietUser ==
  ASSUME TypeInv,
         \/ OpenSignUp \/ OpenSignIn \/ TappedSignInOrUp \/ Leave
         \/ \E e \in Emails : TappedSubmit(e) \/ TappedGoogle(e)
         \/ OpenSaved \/ LeaveSaved \/ OpenProfile \/ LogOut
  PROVE  /\ accounts' = accounts /\ docs' = docs /\ odd \subseteq odd' /\ tasks \subseteq tasks'
         /\ \A s \in tasks' : s.step \in {"doc", "email"} => s \in tasks
<1>1. CASE \/ OpenSignUp \/ OpenSignIn \/ TappedSignInOrUp \/ Leave
           \/ OpenSaved \/ LeaveSaved \/ LogOut
  <2>1. accounts' = accounts /\ docs' = docs /\ odd \subseteq odd' /\ tasks' = tasks
    BY <1>1 DEF OpenSignUp, OpenSignIn, TappedSignInOrUp, Leave, OpenSaved, LeaveSaved,
                LogOut, server
  <2> QED  BY <2>1
<1>2. ASSUME NEW e \in Emails, TappedSubmit(e)
      PROVE  /\ accounts' = accounts /\ docs' = docs /\ odd \subseteq odd' /\ tasks \subseteq tasks'
             /\ \A s \in tasks' : s.step \in {"doc", "email"} => s \in tasks
  <2>1. accounts' = accounts /\ docs' = docs /\ odd \subseteq odd'
    BY <1>2 DEF TappedSubmit, server
  <2>2. PICK t \in Task : t.step \in {"check", "signIn"} /\ tasks' = tasks \cup {t}
    BY <1>2, SubmitType
  <2> QED  BY <2>1, <2>2
<1>3. ASSUME NEW e \in Emails, TappedGoogle(e)
      PROVE  /\ accounts' = accounts /\ docs' = docs /\ odd \subseteq odd' /\ tasks \subseteq tasks'
             /\ \A s \in tasks' : s.step \in {"doc", "email"} => s \in tasks
  <2>1. accounts' = accounts /\ docs' = docs /\ odd \subseteq odd' /\ tasks \subseteq tasks'
    BY <1>3 DEF TappedGoogle, server
  <2>2. \A s \in tasks' : s \in tasks \/ s.step \in {"check", "signIn"}
    BY <1>3, GoogleType
  <2> QED  BY <2>1, <2>2
<1>4. CASE OpenProfile
  <2>1. accounts' = accounts /\ docs' = docs /\ odd \subseteq odd' /\ tasks \subseteq tasks'
    BY <1>4 DEF OpenProfile, server, Start
  <2>2. \A s \in tasks' : s \in tasks \/ s.step = "getUser"
    BY <1>4, OpenProfileType
  <2> QED  BY <2>1, <2>2
<1> QED  BY <1>1, <1>2, <1>3, <1>4

LEMMA QuietAnswer ==
  ASSUME TypeInv, NEW t \in tasks,
         \/ CheckAnswered(t) \/ DocAcked(t) \/ ProfileAnswered(t)
         \/ \E u \in Users : SignedIn(t, u)
         \/ Fails(t) /\ t.step # "ack"
  PROVE  /\ accounts' = accounts /\ docs' = docs /\ odd \subseteq odd'
         /\ \A s \in tasks : s.step = "doc" => s \in tasks'
         /\ \A s \in tasks' : s.step \in {"doc", "email"} => s \in tasks
<1>1. CASE CheckAnswered(t)
  <2>1. accounts' = accounts /\ docs' = docs /\ odd' = odd /\ t.step = "check"
    BY <1>1 DEF CheckAnswered, server
  <2>2. PICK s \in Task : s.step \in {"signIn", "create"} /\ tasks' = (tasks \ {t}) \cup {s}
    BY <1>1, CheckAnsweredType
  <2> QED  BY <2>1, <2>2
<1>2. CASE DocAcked(t)
  <2>1. accounts' = accounts /\ docs' = docs /\ odd' = odd /\ t.step = "ack"
    BY <1>2 DEF DocAcked, server
  <2>2. PICK s \in Task : s.step = "signIn" /\ tasks' = (tasks \ {t}) \cup {s}
    BY <1>2, DocAckedType
  <2> QED  BY <2>1, <2>2
<1>3. CASE ProfileAnswered(t)
  BY <1>3 DEF ProfileAnswered, server, Ends
<1>4. CASE \E u \in Users : SignedIn(t, u)
  BY <1>4 DEF SignedIn, server, Ends
<1>5. CASE Fails(t) /\ t.step # "ack"
  <2>1. /\ t.step # "doc" /\ tasks' = tasks \ {t} /\ accounts' = accounts /\ docs' = docs
        /\ odd \subseteq odd'
    BY <1>5 DEF Fails, Ends
  <2> QED  BY <2>1
<1> QED  BY <1>1, <1>2, <1>3, <1>4, <1>5

\* Nothing but a doc that is written or lost ends the wait for a document.
LEMMA HasDocKept ==
  ASSUME EveryAccountHasDoc, accounts' = accounts, docs' = docs, odd \subseteq odd',
         \A s \in tasks : s.step = "doc" => s \in tasks'
  PROVE  EveryAccountHasDoc'
BY DEF EveryAccountHasDoc, Exists

LEMMA HasDocNext ==
  ASSUME TypeInv, EveryAccountHasDoc, [Next]_vars
  PROVE  EveryAccountHasDoc'
<1>1. CASE UNCHANGED vars
  BY <1>1, HasDocKept DEF vars, server
<1>2. CASE \/ OpenSignUp \/ OpenSignIn \/ TappedSignInOrUp \/ Leave
           \/ \E e \in Emails : TappedSubmit(e) \/ TappedGoogle(e)
           \/ OpenSaved \/ LeaveSaved \/ OpenProfile \/ LogOut
  <2>1. accounts' = accounts /\ docs' = docs /\ odd \subseteq odd' /\ tasks \subseteq tasks'
    BY <1>2, QuietUser
  <2> QED  BY <2>1, HasDocKept
<1>3. ASSUME NEW e \in Emails, SubmitProfile(e)
      PROVE  EveryAccountHasDoc'
  <2>1. accounts' = accounts /\ docs' = docs /\ odd \subseteq odd' /\ tasks \subseteq tasks'
    BY <1>3 DEF SubmitProfile, server, Start
  <2> QED  BY <2>1, HasDocKept
<1>4. ASSUME NEW t \in tasks,
             \/ CheckAnswered(t) \/ DocAcked(t) \/ ProfileAnswered(t)
             \/ \E u \in Users : SignedIn(t, u)
             \/ Fails(t) /\ t.step # "ack"
      PROVE  EveryAccountHasDoc'
  BY <1>4, QuietAnswer, HasDocKept
<1>5. ASSUME NEW t \in tasks, Fails(t), t.step = "ack"
      PROVE  EveryAccountHasDoc'
  <2>1. "lost" \in odd'
    BY <1>5 DEF Fails
  <2> QED  BY <2>1 DEF EveryAccountHasDoc
<1>6. ASSUME NEW t \in tasks, WriteDoc(t)
      PROVE  EveryAccountHasDoc'
  <2>1. /\ accounts' = accounts /\ odd' = odd
        /\ t.user \in Users /\ t.email \in Emails /\ docs' = [docs EXCEPT ![t.user] = t.email]
    BY <1>6, WriteDocType DEF WriteDoc
  <2>2. \A s \in tasks : s = t \/ s \in tasks'
    BY <1>6, WriteDocType
  <2>3. docs \in [Users -> Emails \cup {NoEmail}] /\ t.email # NoEmail
    BY <2>1, AccountAssumption DEF TypeInv, TypeOK
  <2>4. docs'[t.user] # NoEmail /\ \A u \in Users : docs[u] # NoEmail => docs'[u] # NoEmail
    BY <2>1, <2>3
  <2> QED  BY <2>1, <2>2, <2>4 DEF EveryAccountHasDoc, Exists
<1>7. ASSUME NEW t \in tasks, EmailUpdated(t)
      PROVE  EveryAccountHasDoc'
  <2>1. t.as \in Users /\ t.user \in Users /\ t.email \in Emails /\ tasks' = tasks \ {t}
    BY <1>7, EmailUpdatedType
  <2>2. /\ t.step = "email" /\ Exists(t.as) /\ odd \subseteq odd'
        /\ accounts' = [accounts EXCEPT ![t.as].email = t.email]
        /\ \/ docs' = [docs EXCEPT ![t.user] = t.email]
           \/ docs' = docs
    BY <1>7 DEF EmailUpdated, DocEmail
  <2>3. docs \in [Users -> Emails \cup {NoEmail}] /\ t.email # NoEmail
    BY <2>1, AccountAssumption DEF TypeInv, TypeOK
  <2>4. \A u \in Users : docs[u] # NoEmail => docs'[u] # NoEmail
    BY <2>1, <2>2, <2>3
  <2>5. \A u \in Users : Exists(u)' => Exists(u)
    BY <2>2 DEF Exists, TypeInv, TypeOK
  <2> QED  BY <2>1, <2>2, <2>4, <2>5 DEF EveryAccountHasDoc
<1>8. ASSUME NEW t \in tasks, NEW v \in Users, Created(t, v)
      PROVE  EveryAccountHasDoc'
  <2>1. CASE odd' = odd \cup {"lost", "failed"}
    BY <2>1 DEF EveryAccountHasDoc
  <2>2. CASE odd' = odd /\ \E s \in Task : s.step = "doc" /\ s.user = v /\ tasks' = (tasks \ {t}) \cup {s}
    <3>1. t.step = "create" /\ docs' = docs /\ \A u \in Users : u = v \/ accounts'[u] = accounts[u]
      BY <1>8 DEF Created, TypeInv, TypeOK
    <3>2. PICK s \in Task : s.step = "doc" /\ s.user = v /\ tasks' = (tasks \ {t}) \cup {s}
      BY <2>2
    <3>3. s \in tasks' /\ \A r \in tasks : r.step = "doc" => r \in tasks'
      BY <3>1, <3>2
    <3> QED  BY <2>2, <3>1, <3>2, <3>3 DEF EveryAccountHasDoc, Exists
  <2> QED  BY <1>8, <2>1, <2>2, CreatedType
<1>9. CASE Relaunch
  <2>1. accounts' = accounts /\ docs' = docs /\ odd \subseteq odd'
    BY <1>9 DEF Relaunch, server
  <2>2. CASE \E t \in tasks : t.step = "doc"
    <3>1. "lost" \in odd'
      BY <1>9, <2>2 DEF Relaunch
    <3> QED  BY <3>1 DEF EveryAccountHasDoc
  <2>3. CASE ~\E t \in tasks : t.step = "doc"
    BY <2>1, <2>3, HasDocKept
  <2> QED  BY <2>2, <2>3
<1> QED  BY <1>1, <1>2, <1>3, <1>4, <1>5, <1>6, <1>7, <1>8, <1>9, NextCases

\* addNewUser (UserDbController): unless a reply, a block or a write is lost,
\* every account that Auth has made has its document, or a block on the main
\* queue that writes it, whatever else runs in between.
THEOREM AccountsHaveDocs == Spec => []EveryAccountHasDoc
<1>1. Init => TypeInv /\ EveryAccountHasDoc
  BY InitType DEF Init, EveryAccountHasDoc, Exists
<1>2. (TypeInv /\ EveryAccountHasDoc) /\ [Next]_vars => (TypeInv /\ EveryAccountHasDoc)'
  BY NextType, HasDocNext
<1> QED  BY <1>1, <1>2, PTL DEF Spec
\* Where a screen of the stack comes from.
Stays == \A i \in 1..Len(stack)' : stack'[i].kind = "profile" =>
            \E j \in 1..Len(stack) : stack[j] = stack'[i]

LEMMA PoppedStays ==
  ASSUME TypeOK, stack # <<>>, stack' = Popped
  PROVE  Stays
BY StackPopped DEF Stays

LEMMA PushedStays ==
  ASSUME TypeOK, NEW s \in Screens, s.kind # "profile", stack' = Append(stack, s)
  PROVE  Stays
<1>1. /\ Len(stack)' = Len(stack) + 1 /\ stack'[Len(stack) + 1] = s /\ Len(stack) \in Nat
      /\ \A i \in 1..Len(stack) : stack'[i] = stack[i]
  BY StackPushed, StackType
<1>2. \A i \in 1..Len(stack)' : i \in 1..Len(stack) \/ i = Len(stack) + 1
  BY <1>1
<1> QED  BY <1>1, <1>2 DEF Stays

LEMMA StaysUser ==
  ASSUME TypeInv,
         \/ OpenSignUp \/ OpenSignIn \/ TappedSignInOrUp \/ Leave
         \/ \E e \in Emails : TappedSubmit(e) \/ TappedGoogle(e)
         \/ OpenSaved \/ LeaveSaved \/ OpenProfile \/ LogOut \/ Relaunch
  PROVE  Stays
<1> USE DEF TypeInv
<1>1. CASE OpenSignUp \/ OpenSignIn \/ TappedSignInOrUp
  <2>1. PICK kind \in SignKinds : Shows(kind)
    BY <1>1 DEF OpenSignUp, OpenSignIn, TappedSignInOrUp, SignKinds
  <2>2. /\ SignScreen(kind) \in Screens /\ SignScreen(kind).kind = kind
        /\ stack' = Append(stack, SignScreen(kind))
    BY <2>1, SignScreenType DEF Shows, TypeOK
  <2>3. kind # "profile"
    BY DEF SignKinds
  <2> QED  BY <2>2, <2>3, PushedStays
<1>2. CASE Leave
  BY <1>2, PoppedStays DEF Leave, TopIs
<1>3. CASE \/ \E e \in Emails : TappedSubmit(e) \/ TappedGoogle(e)
           \/ OpenProfile \/ LogOut
  <2>1. stack' = stack
    BY <1>3 DEF TappedSubmit, TappedGoogle, OpenProfile, LogOut
  <2> QED  BY <2>1 DEF Stays
<1>4. CASE OpenSaved
  <2>1. Len(stack)' = 1 /\ stack'[1].kind = "savedMenu"
    BY <1>4 DEF OpenSaved, UserScreen
  <2> QED  BY <2>1 DEF Stays
<1>5. CASE LeaveSaved \/ Relaunch
  <2>1. Len(stack)' = 0
    BY <1>5 DEF LeaveSaved, Relaunch
  <2> QED  BY <2>1 DEF Stays
<1> QED  BY <1>1, <1>2, <1>3, <1>4, <1>5

LEMMA StaysAnswer ==
  ASSUME TypeInv, NEW t \in tasks,
         \/ CheckAnswered(t) \/ DocAcked(t)
         \/ \E u \in Users : SignedIn(t, u)
         \/ Fails(t)
  PROVE  Stays
<1> USE DEF TypeInv
<1>1. CASE CheckAnswered(t) \/ DocAcked(t) \/ Fails(t)
  <2>1. stack' = stack
    BY <1>1 DEF CheckAnswered, DocAcked, Fails
  <2> QED  BY <2>1 DEF Stays
<1>2. ASSUME NEW u \in Users, SignedIn(t, u)
      PROVE  Stays
  <2>1. CASE stack' = stack
    BY <2>1 DEF Stays
  <2>2. CASE stack' = Append(stack, UserScreen("savedSignUp", u))
    <3>1. UserScreen("savedSignUp", u) \in Screens /\ UserScreen("savedSignUp", u).kind # "profile"
      BY <1>2, SignedInType
    <3> QED  BY <2>2, <3>1, PushedStays
  <2> QED  BY <1>2, <2>1, <2>2, SignedInType
<1> QED  BY <1>1, <1>2

LEMMA DocsUndisturbed ==
  ASSUME TypeInv, DocsKept, accounts' = accounts, docs' = docs, odd \subseteq odd',
         \A s \in tasks' : s.step \in {"doc", "email"} => s \in tasks, Stays
  PROVE  DocsKept'
<1> SUFFICES ASSUME odd' \cap {"lost", "crossed"} = {}
             PROVE  DocsKept'
  BY DEF DocsKept
<1>1. odd \cap {"lost", "crossed"} = {}
  OBVIOUS
<1> QED  BY <1>1 DEF DocsKept, Stays

LEMMA DocsKeptNext ==
  ASSUME TypeInv, DocsKept, [Next]_vars
  PROVE  DocsKept'
<1> USE DEF TypeInv
<1>1. CASE UNCHANGED vars
  <2>1. Stays
    BY <1>1 DEF vars, Stays
  <2> QED  BY <1>1, <2>1, DocsUndisturbed DEF vars, server
<1>2. CASE \/ OpenSignUp \/ OpenSignIn \/ TappedSignInOrUp \/ Leave
           \/ \E e \in Emails : TappedSubmit(e) \/ TappedGoogle(e)
           \/ OpenSaved \/ LeaveSaved \/ OpenProfile \/ LogOut
  BY <1>2, QuietUser, StaysUser, DocsUndisturbed
<1>3. ASSUME NEW e \in Emails, SubmitProfile(e)
      PROVE  DocsKept'
  <2>1. /\ accounts' = accounts /\ docs' = docs /\ odd \subseteq odd'
        /\ stack # <<>> /\ Top.kind = "profile" /\ stack' = Popped
    BY <1>3 DEF SubmitProfile, server, TopIs, Top
  <2>2. \A s \in tasks' : s \in tasks \/ (s.step = "email" /\ s.user = Top.user /\ s.as = auth)
    BY <1>3, SubmitProfileType
  <2>3. CASE tasks' = tasks
    BY <2>1, <2>3, PoppedStays, DocsUndisturbed
  <2>4. CASE tasks' # tasks
    <3> SUFFICES ASSUME odd' \cap {"lost", "crossed"} = {}
                 PROVE  DocsKept'
      BY DEF DocsKept
    <3>1. odd \cap {"lost", "crossed"} = {} /\ Top.user = auth
      BY <1>3, <2>4 DEF SubmitProfile, Crossed
    <3>2. docs[Top.user] # NoEmail
      BY <2>1, <3>1, StackPopped DEF DocsKept
    <3>3. Stays
      BY <2>1, PoppedStays
    <3> QED  BY <2>1, <2>2, <3>1, <3>2, <3>3 DEF DocsKept, Stays
  <2> QED  BY <2>3, <2>4
<1>4. ASSUME NEW t \in tasks,
             \/ CheckAnswered(t) \/ DocAcked(t)
             \/ \E u \in Users : SignedIn(t, u)
             \/ Fails(t) /\ t.step # "ack"
      PROVE  DocsKept'
  BY <1>4, QuietAnswer, StaysAnswer, DocsUndisturbed
<1>5. ASSUME NEW t \in tasks, Fails(t), t.step = "ack"
      PROVE  DocsKept'
  <2>1. "lost" \in odd'
    BY <1>5 DEF Fails
  <2> QED  BY <2>1 DEF DocsKept
<1>6. ASSUME NEW t \in tasks, ProfileAnswered(t)
      PROVE  DocsKept'
  <2>1. /\ accounts' = accounts /\ docs' = docs /\ odd \subseteq odd'
        /\ \A s \in tasks' : s.step \in {"doc", "email"} => s \in tasks
    BY <1>6, QuietAnswer
  <2>2. CASE stack' = stack
    <3>1. Stays
      BY <2>2 DEF Stays
    <3> QED  BY <2>1, <3>1, DocsUndisturbed
  <2>3. ASSUME NEW kind \in {"profile", "mediaProfile"}, t.user \in Users,
               stack' = Append(stack, UserScreen(kind, t.user)), docs[t.user] # NoEmail
        PROVE  DocsKept'
    <3>1. kind \in UserKinds
      BY DEF UserKinds
    <3> DEFINE s == UserScreen(kind, t.user)
    <3>2. s \in Screens /\ s.user = t.user
      BY <2>3, <3>1, UserScreenType
    <3> HIDE DEF s
    <3>3. /\ Len(stack)' = Len(stack) + 1 /\ stack'[Len(stack) + 1] = s /\ Len(stack) \in Nat
          /\ \A i \in 1..Len(stack) : stack'[i] = stack[i]
      BY <2>3, <3>2, StackPushed, StackType DEF s
    <3>4. \A i \in 1..Len(stack)' : i \in 1..Len(stack) \/ i = Len(stack) + 1
      BY <3>3
    <3> SUFFICES ASSUME odd' \cap {"lost", "crossed"} = {}
                 PROVE  DocsKept'
      BY DEF DocsKept
    <3>5. odd \cap {"lost", "crossed"} = {}
      BY <2>1
    <3>6. \A i \in 1..Len(stack)' : stack'[i].kind = "profile" => docs[stack'[i].user] # NoEmail
      BY <2>3, <3>2, <3>3, <3>4, <3>5 DEF DocsKept
    <3> QED  BY <2>1, <3>5, <3>6 DEF DocsKept
  <2> QED  BY <1>6, <2>2, <2>3, ProfileAnsweredType
<1>7. ASSUME NEW t \in tasks, WriteDoc(t)
      PROVE  DocsKept'
  <2>1. /\ accounts' = accounts /\ odd' = odd /\ stack' = stack /\ t.step = "doc"
        /\ t.user \in Users /\ t.email \in Emails /\ docs' = [docs EXCEPT ![t.user] = t.email]
    BY <1>7, WriteDocType DEF WriteDoc
  <2>2. PICK s \in Task : s.step = "ack" /\ tasks' = (tasks \ {t}) \cup {s}
    BY <1>7, WriteDocType
  <2>3. docs \in [Users -> Emails \cup {NoEmail}] /\ t.email # NoEmail
    BY <2>1, AccountAssumption DEF TypeOK
  <2> SUFFICES ASSUME odd' \cap {"lost", "crossed"} = {}
               PROVE  DocsKept'
    BY DEF DocsKept
  <2>4. odd \cap {"lost", "crossed"} = {}
    BY <2>1
  <2>5. accounts[t.user].email = t.email
    BY <2>1, <2>4 DEF DocsKept
  <2>6. \A r \in tasks' : r.step \in {"doc", "email"} => r \in tasks /\ r # t
    BY <2>1, <2>2
  <2>7. \A u \in Users : docs'[u] # NoEmail => docs'[u] = accounts'[u].email
    BY <2>1, <2>3, <2>4, <2>5 DEF DocsKept
  <2>8. \A r \in tasks' : r.step = "doc" =>
           docs'[r.user] = NoEmail /\ accounts'[r.user].email = r.email
    <3> SUFFICES ASSUME NEW r \in tasks', r.step = "doc"
                 PROVE  docs'[r.user] = NoEmail /\ accounts'[r.user].email = r.email
      OBVIOUS
    <3>1. r \in tasks /\ r # t
      BY <2>6
    <3>2. r.user # t.user /\ r.user \in Users
      BY <2>1, <2>4, <3>1, TaskType DEF DocsKept
    <3> QED  BY <2>1, <2>3, <2>4, <3>1, <3>2 DEF DocsKept
  <2>9. \A u \in Users : docs[u] # NoEmail => docs'[u] # NoEmail
    BY <2>1, <2>3
  <2>10. \A r \in tasks' : r.step = "email" => r.as = r.user /\ docs'[r.user] # NoEmail
    BY <2>4, <2>6, <2>9, TaskType DEF DocsKept
  <2>11. \A i \in 1..Len(stack)' : stack'[i].kind = "profile" => docs'[stack'[i].user] # NoEmail
    <3> SUFFICES ASSUME NEW i \in 1..Len(stack), stack[i].kind = "profile"
                 PROVE  docs'[stack[i].user] # NoEmail
      BY <2>1
    <3>1. stack[i].user \in Users
      BY StackType, ScreenType DEF SignKinds
    <3> QED  BY <2>4, <2>9, <3>1 DEF DocsKept
  <2> QED  BY <2>4, <2>6, <2>7, <2>8, <2>10, <2>11 DEF DocsKept
<1>8. ASSUME NEW t \in tasks, EmailUpdated(t)
      PROVE  DocsKept'
  <2> SUFFICES ASSUME odd' \cap {"lost", "crossed"} = {}
               PROVE  DocsKept'
    BY DEF DocsKept
  <2>1. /\ t.step = "email" /\ Exists(t.as) /\ odd' = odd /\ stack' = stack
        /\ accounts' = [accounts EXCEPT ![t.as].email = t.email]
        /\ docs' = [docs EXCEPT ![t.user] = t.email]
    BY <1>8 DEF EmailUpdated, DocEmail
  <2>2. t.user \in Users /\ t.email \in Emails /\ tasks' = tasks \ {t}
    BY <1>8, EmailUpdatedType
  <2>3. odd \cap {"lost", "crossed"} = {} /\ t.as = t.user /\ docs[t.user] # NoEmail
    BY <2>1 DEF DocsKept
  <2>4. docs \in [Users -> Emails \cup {NoEmail}] /\ t.email # NoEmail
    BY <2>2, AccountAssumption DEF TypeOK
  <2>5. accounts[t.user] \in [email : Emails, pwd : Passwords] /\ accounts \in [Users -> AccountType]
    BY <2>1, <2>2, <2>3 DEF TypeOK, AccountType, Exists
  <2>6. /\ accounts'[t.user].email = t.email
        /\ \A u \in Users : u # t.user => accounts'[u] = accounts[u]
    BY <2>1, <2>2, <2>3, <2>5
  <2>7. docs'[t.user] = t.email /\ \A u \in Users : u # t.user => docs'[u] = docs[u]
    BY <2>1, <2>2, <2>4
  <2>8. \A u \in Users : docs'[u] # NoEmail => docs'[u] = accounts'[u].email
    BY <2>3, <2>6, <2>7 DEF DocsKept
  <2>9. \A r \in tasks' : r.step = "doc" =>
           docs'[r.user] = NoEmail /\ accounts'[r.user].email = r.email
    <3> SUFFICES ASSUME NEW r \in tasks, r.step = "doc"
                 PROVE  docs'[r.user] = NoEmail /\ accounts'[r.user].email = r.email
      BY <2>2
    <3>1. r.user \in Users /\ docs[r.user] = NoEmail /\ accounts[r.user].email = r.email
      BY <2>3, TaskType DEF DocsKept
    <3>2. r.user # t.user
      BY <2>3, <3>1
    <3> QED  BY <2>6, <2>7, <3>1, <3>2
  <2>10. \A u \in Users : docs[u] # NoEmail => docs'[u] # NoEmail
    BY <2>4, <2>7
  <2>11. \A r \in tasks' : r.step = "email" => r.as = r.user /\ docs'[r.user] # NoEmail
    BY <2>2, <2>3, <2>10, TaskType DEF DocsKept
  <2>12. \A i \in 1..Len(stack)' : stack'[i].kind = "profile" => docs'[stack'[i].user] # NoEmail
    <3> SUFFICES ASSUME NEW i \in 1..Len(stack), stack[i].kind = "profile"
                 PROVE  docs'[stack[i].user] # NoEmail
      BY <2>1
    <3>1. stack[i].user \in Users
      BY StackType, ScreenType DEF SignKinds
    <3> QED  BY <2>3, <2>10, <3>1 DEF DocsKept
  <2> QED  BY <2>2, <2>3, <2>8, <2>9, <2>11, <2>12 DEF DocsKept
<1>9. ASSUME NEW t \in tasks, NEW v \in Users, Created(t, v)
      PROVE  DocsKept'
  <2> SUFFICES ASSUME odd' \cap {"lost", "crossed"} = {}
               PROVE  DocsKept'
    BY DEF DocsKept
  <2>1. /\ ~Exists(v) /\ docs' = docs /\ stack' = stack /\ t.step = "create"
        /\ accounts' = [accounts EXCEPT ![v] = [email |-> t.email, pwd |-> t.pwd]]
    BY <1>9 DEF Created
  <2>2. odd' = odd /\ t.email \in Emails
    BY <1>9, CreatedType
  <2>3. PICK s \in Task : /\ s.step = "doc" /\ s.user = v /\ s.email = t.email
                          /\ tasks' = (tasks \ {t}) \cup {s}
    BY <1>9, CreatedType
  <2>4. odd \cap {"lost", "crossed"} = {} /\ accounts[v].email = NoEmail /\ NoEmail \notin Emails
    BY <2>1, <2>2, AccountAssumption DEF Exists, NoAccount
  <2>5. docs[v] = NoEmail
    BY <2>4 DEF DocsKept
  <2>6. accounts'[v].email = t.email /\ \A u \in Users : u # v => accounts'[u] = accounts[u]
    BY <2>1 DEF TypeOK
  <2>7. \A r \in tasks' : r.step = "doc" => r = s \/ (r \in tasks /\ r.user # v /\ r.user \in Users)
    <3> SUFFICES ASSUME NEW r \in tasks, r.step = "doc"
                 PROVE  r.user # v /\ r.user \in Users
      BY <2>3
    <3>1. r.user \in Users /\ r.email \in Emails /\ accounts[r.user].email = r.email
      BY <2>4, TaskType DEF DocsKept
    <3> QED  BY <2>4, <3>1
  <2>8. \A u \in Users : docs'[u] # NoEmail => docs'[u] = accounts'[u].email
    BY <2>1, <2>4, <2>5, <2>6 DEF DocsKept
  <2>9. \A r \in tasks' : r.step = "doc" =>
           docs'[r.user] = NoEmail /\ accounts'[r.user].email = r.email
    BY <2>1, <2>3, <2>4, <2>5, <2>6, <2>7 DEF DocsKept
  <2>10. \A q, r \in tasks' : q.step = "doc" /\ r.step = "doc" /\ q.user = r.user => q = r
    BY <2>3, <2>4, <2>7 DEF DocsKept
  <2>11. \A r \in tasks' : r.step = "email" => r.as = r.user /\ docs'[r.user] # NoEmail
    BY <2>1, <2>3, <2>4 DEF DocsKept
  <2>12. \A i \in 1..Len(stack)' : stack'[i].kind = "profile" => docs'[stack'[i].user] # NoEmail
    BY <2>1, <2>4 DEF DocsKept
  <2> QED  BY <2>8, <2>9, <2>10, <2>11, <2>12 DEF DocsKept
<1>10. CASE Relaunch
  <2>1. /\ accounts' = accounts /\ docs' = docs /\ odd \subseteq odd'
        /\ \A s \in tasks' : s.step \in {"doc", "email"} => s \in tasks
    BY <1>10 DEF Relaunch, server
  <2> QED  BY <1>10, <2>1, StaysUser, DocsUndisturbed
<1> QED  BY <1>1, <1>2, <1>3, <1>4, <1>5, <1>6, <1>7, <1>8, <1>9, <1>10, NextCases

\* checkIfUserExist (UserDbController) answers from the documents what Auth
\* would answer: the email of a document is the email of its account, unless a
\* write was lost or one user's profile was submitted as another.
THEOREM DocsAlwaysAgree == Spec => []DocsAgree
<1>1. Init => TypeInv /\ DocsKept
  <2> SUFFICES ASSUME Init
               PROVE  DocsKept
    BY InitType
  <2>1. Len(stack) = 0 /\ tasks = {} /\ \A u \in Users : docs[u] = NoEmail
    BY DEF Init
  <2> QED  BY <2>1 DEF DocsKept
<1>2. (TypeInv /\ DocsKept) /\ [Next]_vars => (TypeInv /\ DocsKept)'
  BY NextType, DocsKeptNext
<1>3. DocsKept => DocsAgree
  BY DEF DocsKept, DocsAgree
<1> QED  BY <1>1, <1>2, <1>3, PTL DEF Spec
-----------------------------------------------------------------------------
(* The stack and who hears Google.                                         *)

\* What is in the stack after a push and after a pop.
LEMMA Push ==
  ASSUME TypeOK, NEW s \in Screens, stack' = Append(stack, s)
  PROVE  /\ Len(stack) \in Nat /\ Len(stack)' = Len(stack) + 1
         /\ stack'[Len(stack) + 1] = s
         /\ \A i \in 1..Len(stack) : i \in 1..Len(stack)' /\ stack'[i] = stack[i]
         /\ \A i \in 1..Len(stack)' : i \in 1..Len(stack) \/ i = Len(stack) + 1
<1>1. /\ Len(stack) \in Nat /\ Len(stack)' = Len(stack) + 1
      /\ stack'[Len(stack) + 1] = s
      /\ \A i \in 1..Len(stack) : stack'[i] = stack[i]
  BY StackPushed, StackType
<1> QED  BY <1>1

LEMMA Pop ==
  ASSUME TypeOK, stack # <<>>, stack' = Popped
  PROVE  /\ Len(stack) \in Nat \ {0} /\ Len(stack)' = Len(stack) - 1 /\ Top = stack[Len(stack)]
         /\ \A i \in 1..Len(stack)' : i \in 1..Len(stack) /\ stack'[i] = stack[i]
         /\ \A i \in 1..Len(stack) : i \in 1..Len(stack)' \/ i = Len(stack)
<1>1. /\ Len(stack) \in Nat \ {0} /\ Len(stack)' = Len(stack) - 1 /\ Top = stack[Len(stack)]
      /\ \A i \in 1..Len(stack)' : i \in 1..Len(stack) /\ stack'[i] = stack[i]
  BY StackPopped
<1> QED  BY <1>1

LEMMA InStackIs ==
  ASSUME TypeOK, NEW inst
  PROVE  InStack(inst) <=> \E i \in 1..Len(stack) : stack[i].inst = inst
BY StackType DEF InStack

\* What a screen in the stack is, by its kind and by its number.
LEMMA StackScreen ==
  ASSUME TypeOK, NEW i \in 1..Len(stack)
  PROVE  /\ stack[i].inst \in Nat
         /\ stack[i].kind \in SignKinds <=> stack[i].inst > 0
         /\ stack[i].kind \notin SignKinds => stack[i].inst = 0 /\ stack[i].user \in Users
         /\ stack[i].kind \in SignKinds \cup UserKinds
<1>1. stack[i] \in Screens
  BY StackType
<1> QED  BY <1>1, ScreenType DEF SignKinds, UserKinds

LEMMA StackEmptied ==
  ASSUME stack' = <<>>, auth' = NoUser => userId' = NoUser
  PROVE  StackOK'
<1>1. Len(stack)' = 0
  OBVIOUS
<1> QED  BY <1>1 DEF StackOK

LEMMA StackUnchanged ==
  ASSUME StackOK, stack' = stack, userId' = userId, made' = made,
         auth' = NoUser => userId = NoUser
  PROVE  StackOK'
BY DEF StackOK

LEMMA StackPop ==
  ASSUME TypeOK, StackOK, stack # <<>>, stack' = Popped,
         auth' = auth, userId' = userId, made' = made
  PROVE  StackOK'
<1>1. /\ Len(stack) \in Nat \ {0} /\ Len(stack)' = Len(stack) - 1
      /\ \A i \in 1..Len(stack)' : i \in 1..Len(stack) /\ stack'[i] = stack[i]
  BY Pop
<1>2. Len(stack)' # 0 => 1 \in 1..Len(stack)'
  BY <1>1
<1>3. \A i \in 1..Len(stack)' :
         /\ stack'[i].kind = "savedMenu" => i = 1
         /\ stack'[i].kind \in SignKinds => userId' = NoUser
         /\ stack'[i].inst <= made'
  BY <1>1 DEF StackOK
<1>4. \A i \in 1..Len(stack)' :
         stack'[i].kind \in SignKinds \cup {"savedSignUp"} => stack'[1].kind \in SignKinds
  <2> SUFFICES ASSUME NEW i \in 1..Len(stack)', stack'[i].kind \in SignKinds \cup {"savedSignUp"}
               PROVE  stack'[1].kind \in SignKinds
    OBVIOUS
  <2>1. 1 \in 1..Len(stack)'
    BY <1>1
  <2>2. stack'[1] = stack[1] /\ stack[i].kind \in SignKinds \cup {"savedSignUp"} /\ i \in 1..Len(stack)
    BY <1>1, <2>1
  <2> QED  BY <2>2 DEF StackOK
<1>5. \A i, j \in 1..Len(stack)' : i < j =>
         /\ stack'[i].kind = "savedSignUp" => stack'[j].kind \notin SignKinds
         /\ stack'[i].inst > 0 => stack'[i].inst # stack'[j].inst
  BY <1>1 DEF StackOK
<1>6. auth' = NoUser => userId' = NoUser
  BY DEF StackOK
<1> QED  BY <1>3, <1>4, <1>5, <1>6 DEF StackOK

\* A screen that may be pushed: a sign-up screen with a new number, above
\* sign-up screens or the map, or another screen above what it needs.
LEMMA StackPush ==
  ASSUME TypeOK, StackOK, NEW s \in Screens, stack' = Append(stack, s),
         userId' = userId, auth' = NoUser => userId = NoUser, made' >= made, made' \in Nat,
         s.kind # "savedMenu", s.inst <= made',
         s.kind \in SignKinds => /\ userId = NoUser /\ s.inst > made
                                 /\ \A i \in 1..Len(stack) : stack[i].kind # "savedSignUp",
         s.kind \in SignKinds \cup {"savedSignUp"} =>
            \/ stack # <<>> /\ stack[1].kind \in SignKinds
            \/ stack = <<>> /\ s.kind \in SignKinds
  PROVE  StackOK'
<1> DEFINE n == Len(stack)
<1>1. /\ n \in Nat /\ Len(stack)' = n + 1 /\ stack'[n + 1] = s
      /\ \A i \in 1..n : stack'[i] = stack[i]
      /\ \A i \in 1..Len(stack)' : i \in 1..n \/ i = n + 1
  BY Push
<1>2. made \in Nat /\ s.inst \in Nat /\ (s.kind \in SignKinds <=> s.inst > 0)
  BY ScreenType, AccountAssumption DEF TypeOK, SignKinds
<1>3. stack # <<>> <=> n # 0
  BY StackType, EmptySeq DEF TypeOK
<1>4. \A i \in 1..n : stack[i].inst \in Nat /\ stack[i].inst <= made
  BY StackScreen DEF StackOK
<1>5. \A i \in 1..n :
         /\ stack[i].kind = "savedMenu" => i = 1
         /\ stack[i].kind \in SignKinds => userId = NoUser
         /\ stack[i].kind \in SignKinds \cup {"savedSignUp"} => stack[1].kind \in SignKinds
  BY DEF StackOK
<1>6. \A i, j \in 1..n : i < j =>
          /\ stack[i].kind = "savedSignUp" => stack[j].kind \notin SignKinds
          /\ stack[i].inst > 0 => stack[i].inst # stack[j].inst
  BY DEF StackOK
<1>7. s.kind \in SignKinds => \A i \in 1..n : stack[i].kind # "savedSignUp"
  OBVIOUS
<1> HIDE DEF n
<1>8. \A i \in 1..Len(stack)' :
         /\ stack'[i].kind = "savedMenu" => i = 1
         /\ stack'[i].kind \in SignKinds => userId' = NoUser
         /\ stack'[i].inst <= made'
  <2> SUFFICES ASSUME NEW i \in 1..Len(stack)'
               PROVE  /\ stack'[i].kind = "savedMenu" => i = 1
                      /\ stack'[i].kind \in SignKinds => userId' = NoUser
                      /\ stack'[i].inst <= made'
    OBVIOUS
  <2>1. CASE i \in 1..n
    <3>1. stack'[i] = stack[i] /\ stack[i].inst \in Nat /\ stack[i].inst <= made
      BY <1>1, <1>4, <2>1
    <3>2. stack[i].inst <= made'
      BY <1>2, <3>1
    <3> QED  BY <1>5, <2>1, <3>1, <3>2
  <2>2. CASE i = n + 1
    BY <1>1, <2>2
  <2> QED  BY <1>1, <2>1, <2>2
<1>9. \A i \in 1..Len(stack)' :
         stack'[i].kind \in SignKinds \cup {"savedSignUp"} => stack'[1].kind \in SignKinds
  <2> SUFFICES ASSUME NEW i \in 1..Len(stack)', stack'[i].kind \in SignKinds \cup {"savedSignUp"}
               PROVE  stack'[1].kind \in SignKinds
    OBVIOUS
  <2>1. CASE n = 0
    <3>1. stack'[1] = s /\ i = 1
      BY <1>1, <2>1
    <3> QED  BY <1>3, <2>1, <3>1
  <2>2. CASE n # 0
    <3>1. 1 \in 1..n
      BY <1>1, <2>2
    <3>2. stack'[1] = stack[1]
      BY <1>1, <3>1
    <3> QED  BY <1>1, <1>3, <1>5, <2>2, <3>2
  <2> QED  BY <2>1, <2>2
<1>10. \A i, j \in 1..Len(stack)' : i < j =>
         /\ stack'[i].kind = "savedSignUp" => stack'[j].kind \notin SignKinds
         /\ stack'[i].inst > 0 => stack'[i].inst # stack'[j].inst
  <2> SUFFICES ASSUME NEW i \in 1..Len(stack)', NEW j \in 1..Len(stack)', i < j
               PROVE  /\ stack'[i].kind = "savedSignUp" => stack'[j].kind \notin SignKinds
                      /\ stack'[i].inst > 0 => stack'[i].inst # stack'[j].inst
    OBVIOUS
  <2>1. i \in 1..n /\ stack'[i] = stack[i] /\ stack[i].inst \in Nat /\ stack[i].inst <= made
    BY <1>1, <1>4
  <2>2. CASE j \in 1..n
    BY <1>1, <1>6, <2>1, <2>2
  <2>3. CASE j = n + 1
    <3>1. stack'[j] = s
      BY <1>1, <2>3
    <3>2. s.kind \in SignKinds => stack[i].inst # s.inst /\ stack[i].kind # "savedSignUp"
      BY <1>2, <1>7, <2>1
    <3>3. s.kind \notin SignKinds => s.inst = 0
      BY <1>2
    <3> QED  BY <2>1, <3>1, <3>2, <3>3
  <2> QED  BY <1>1, <2>2, <2>3
<1>11. auth' = NoUser => userId' = NoUser
  OBVIOUS
<1> QED  BY <1>8, <1>9, <1>10, <1>11 DEF StackOK
\* A sign-up screen is on top of sign-up screens only.
LEMMA SignOnTop ==
  ASSUME TypeOK, StackOK, stack # <<>>, Top.kind \in SignKinds
  PROVE  /\ userId = NoUser /\ stack[1].kind \in SignKinds
         /\ \A i \in 1..Len(stack) : stack[i].kind # "savedSignUp"
         /\ ~Arrived
<1>1. Len(stack) \in Nat \ {0} /\ Top = stack[Len(stack)]
  BY StackPopped
<1> DEFINE n == Len(stack)
<1>2. n \in 1..n /\ stack[n].kind \in SignKinds
  BY <1>1
<1>3. userId = NoUser /\ stack[1].kind \in SignKinds
  BY <1>2 DEF StackOK
<1>4. ASSUME NEW i \in 1..n, stack[i].kind = "savedSignUp"
      PROVE  FALSE
  <2>1. CASE i < n
    BY <1>2, <1>4, <2>1 DEF StackOK
  <2>2. CASE i = n
    BY <1>2, <1>4, <2>2 DEF SignKinds
  <2> QED  BY <1>1, <2>1, <2>2
<1> QED  BY <1>3, <1>4 DEF Arrived

LEMMA OnMapIs ==
  ASSUME OnMap
  PROVE  stack = <<>> /\ Len(stack) = 0 /\ ~Arrived
BY DEF OnMap, Arrived

\* Each sign-up screen that is shown, and what it is shown above.
LEMMA ShownIs ==
  ASSUME TypeInv, StackOK, OpenSignUp \/ OpenSignIn \/ TappedSignInOrUp
  PROVE  \E s \in Screens :
            /\ s.kind \in SignKinds /\ s.inst = made + 1 /\ stack' = Append(stack, s)
            /\ made \in Nat /\ made' = made + 1 /\ userId = NoUser
            /\ \A i \in 1..Len(stack) : stack[i].kind # "savedSignUp"
            /\ (stack = <<>> \/ (stack # <<>> /\ Top.kind = "signUp" /\ stack[1].kind \in SignKinds))
            /\ UNCHANGED <<auth, userId, google, tasks, odd>>
<1> USE DEF TypeInv
<1>1. PICK kind \in SignKinds : Shows(kind)
  BY DEF OpenSignUp, OpenSignIn, TappedSignInOrUp, SignKinds
<1> DEFINE s == SignScreen(kind)
<1>2. /\ s \in Screens /\ s.kind = kind /\ s.inst = made + 1
      /\ stack' = Append(stack, s) /\ made' = made + 1 /\ made \in Nat
  BY <1>1, SignScreenType DEF Shows, TypeOK
<1> HIDE DEF s
<1>3. UNCHANGED <<auth, userId, google, tasks, odd>>
  BY DEF OpenSignUp, OpenSignIn, TappedSignInOrUp
<1>4. CASE OpenSignUp \/ OpenSignIn
  <2>1. OnMap /\ userId = NoUser
    BY <1>4 DEF OpenSignUp, OpenSignIn, StackOK
  <2> QED  BY <1>2, <1>3, <2>1, OnMapIs
<1>5. CASE TappedSignInOrUp
  <2>1. stack # <<>> /\ Top.kind = "signUp" /\ Top.kind \in SignKinds
    BY <1>5 DEF TappedSignInOrUp, TopIs, Top, SignKinds
  <2> QED  BY <1>2, <1>3, <2>1, SignOnTop
<1> QED  BY <1>4, <1>5

LEMMA StackNext ==
  ASSUME TypeInv, StackOK, [Next]_vars
  PROVE  StackOK'
<1> USE DEF TypeInv
<1>1. CASE UNCHANGED vars
  BY <1>1, StackUnchanged DEF vars, StackOK
<1>2. CASE OpenSignUp \/ OpenSignIn \/ TappedSignInOrUp
  <2>1. PICK s \in Screens :
            /\ s.kind \in SignKinds /\ s.inst = made + 1 /\ stack' = Append(stack, s)
            /\ made \in Nat /\ made' = made + 1 /\ userId = NoUser
            /\ \A i \in 1..Len(stack) : stack[i].kind # "savedSignUp"
            /\ (stack = <<>> \/ (stack # <<>> /\ Top.kind = "signUp" /\ stack[1].kind \in SignKinds))
            /\ UNCHANGED <<auth, userId, google, tasks, odd>>
    BY <1>2, ShownIs
  <2>2. made' >= made /\ made' \in Nat /\ s.inst <= made' /\ s.inst > made
    BY <2>1
  <2>3. s.kind # "savedMenu"
    BY <2>1 DEF SignKinds
  <2> QED  BY <2>1, <2>2, <2>3, StackPush
<1>3. CASE Leave \/ \E e \in Emails : SubmitProfile(e)
  <2>1. stack # <<>> /\ stack' = Popped /\ auth' = auth /\ userId' = userId /\ made' = made
    BY <1>3 DEF Leave, SubmitProfile, TopIs
  <2> QED  BY <2>1, StackPop
<1>4. CASE \/ \E e \in Emails : TappedSubmit(e) \/ TappedGoogle(e)
           \/ OpenProfile
  <2>1. stack' = stack /\ auth' = auth /\ userId' = userId /\ made' = made
    BY <1>4 DEF TappedSubmit, TappedGoogle, OpenProfile
  <2> QED  BY <2>1, StackUnchanged DEF StackOK
<1>5. CASE OpenSaved
  <2> DEFINE s == UserScreen("savedMenu", auth)
  <2>1. Len(stack)' = 1 /\ stack'[1] = s /\ s.kind = "savedMenu" /\ s.inst = 0
    BY <1>5 DEF OpenSaved, UserScreen
  <2>2. auth' = auth /\ userId' = userId /\ made' = made /\ made >= 0
    BY <1>5 DEF OpenSaved, TypeOK
  <2>3. \A i \in 1..Len(stack)' : i = 1
    BY <2>1
  <2>4. "savedMenu" \notin SignKinds \cup {"savedSignUp"}
    BY DEF SignKinds
  <2> HIDE DEF s
  <2>5. \A i, j \in 1..Len(stack)' : ~(i < j)
    BY <2>1
  <2> QED  BY <2>1, <2>2, <2>3, <2>4, <2>5 DEF StackOK
<1>6. CASE LeaveSaved
  <2>1. stack' = <<>> /\ auth' = auth /\ (userId' = auth \/ userId' = userId)
    BY <1>6 DEF LeaveSaved, KnownAfter
  <2> QED  BY <2>1, StackEmptied DEF StackOK
<1>7. CASE LogOut
  <2>1. stack' = <<>> /\ userId' = auth'
    BY <1>7, OnMapIs DEF LogOut
  <2> QED  BY <2>1, StackEmptied
<1>8. CASE Relaunch
  <2>1. stack' = <<>> /\ userId' = auth'
    BY <1>8 DEF Relaunch
  <2> QED  BY <2>1, StackEmptied
<1>9. ASSUME NEW t \in tasks, CheckAnswered(t) \/ WriteDoc(t) \/ DocAcked(t) \/ EmailUpdated(t) \/ Fails(t)
      PROVE  StackOK'
  <2>1. stack' = stack /\ auth' = auth /\ userId' = userId /\ made' = made
    BY <1>9 DEF CheckAnswered, WriteDoc, DocAcked, EmailUpdated, Fails
  <2> QED  BY <2>1, StackUnchanged DEF StackOK
<1>10. ASSUME NEW t \in tasks, NEW u \in Users, Created(t, u)
       PROVE  StackOK'
  <2>1. stack' = stack /\ (auth' = u \/ auth' = auth) /\ userId' = userId /\ made' = made
    BY <1>10 DEF Created
  <2> QED  BY <2>1, AccountAssumption, StackUnchanged DEF StackOK
<1>11. ASSUME NEW t \in tasks, NEW u \in Users, SignedIn(t, u)
       PROVE  StackOK'
  <2>1. auth' = u /\ userId' = userId /\ made' = made /\ auth' # NoUser
    BY <1>11, AccountAssumption DEF SignedIn
  <2>2. CASE stack' = stack
    BY <2>1, <2>2, StackUnchanged
  <2>3. CASE InStack(t.inst) /\ stack' = Append(stack, UserScreen("savedSignUp", u))
    <3> DEFINE s == UserScreen("savedSignUp", u)
    <3>1. s \in Screens /\ s.kind = "savedSignUp" /\ s.inst = 0 /\ t.inst > 0
      BY <1>11, SignedInType
    <3>2. PICK i \in 1..Len(stack) : stack[i].inst = t.inst
      BY <2>3, InStackIs
    <3>3. stack # <<>> /\ stack[1].kind \in SignKinds
      BY <3>1, <3>2, StackScreen DEF StackOK
    <3>4. made' >= made /\ made' \in Nat /\ s.inst <= made'
      BY <2>1, <3>1, AccountAssumption DEF TypeOK
    <3> HIDE DEF s
    <3>5. s.kind \notin SignKinds /\ s.kind # "savedMenu"
      BY <3>1 DEF SignKinds
    <3>6. stack' = Append(stack, s)
      BY <2>3 DEF s
    <3> QED  BY <2>1, <3>1, <3>3, <3>4, <3>5, <3>6, StackPush
  <2> QED  BY <1>11, <2>2, <2>3, SignedInType
<1>12. ASSUME NEW t \in tasks, ProfileAnswered(t)
       PROVE  StackOK'
  <2>1. auth' = auth /\ userId' = userId /\ made' = made
    BY <1>12 DEF ProfileAnswered
  <2>2. CASE stack' = stack
    BY <2>1, <2>2, StackUnchanged DEF StackOK
  <2>3. ASSUME NEW kind \in {"profile", "mediaProfile"}, t.user \in Users,
               stack' = Append(stack, UserScreen(kind, t.user))
        PROVE  StackOK'
    <3> DEFINE s == UserScreen(kind, t.user)
    <3>1. s \in Screens /\ s.kind = kind /\ s.inst = 0
      BY <2>3, UserScreenType DEF UserKinds
    <3>2. made' >= made /\ made' \in Nat /\ s.inst <= made'
      BY <2>1, <3>1, AccountAssumption DEF TypeOK
    <3>3. auth' = NoUser => userId = NoUser
      BY <2>1 DEF StackOK
    <3> HIDE DEF s
    <3>4. s.kind \notin SignKinds \cup {"savedSignUp"} /\ s.kind # "savedMenu"
      BY <3>1 DEF SignKinds
    <3>5. stack' = Append(stack, s)
      BY <2>3 DEF s
    <3> QED  BY <2>1, <3>1, <3>2, <3>3, <3>4, <3>5, StackPush
  <2> QED  BY <1>12, <2>2, <2>3, ProfileAnsweredType
<1> QED  BY <1>1, <1>2, <1>3, <1>4, <1>5, <1>6, <1>7, <1>8, <1>9, <1>10, <1>11, <1>12, NextCases
\* No screen hears that did not before, and none is shown that could.
LEMMA ObserversFewer ==
  ASSUME TypeInv, ObserversOK, observers' \subseteq observers, made' = made,
         \A i \in 1..Len(stack)' :
            \/ i \in 1..Len(stack) /\ stack'[i] = stack[i]
            \/ stack'[i].inst = 0 /\ stack'[i].kind \notin SignKinds
  PROVE  ObserversOK'
<1>1. \A o \in observers' : o \in observers /\ o.inst > 0
  BY DEF TypeInv, TypeOK
<1>2. \A o \in observers' : \A i, j \in 1..Len(stack)' :
          stack'[i].inst = o.inst /\ i < j => stack'[j].kind \notin SignKinds
  <2> SUFFICES ASSUME NEW o \in observers', NEW i \in 1..Len(stack)', NEW j \in 1..Len(stack)',
                      stack'[i].inst = o.inst, i < j, stack'[j].kind \in SignKinds
               PROVE  FALSE
    OBVIOUS
  <2>1. j \in 1..Len(stack) /\ stack[j].kind \in SignKinds
    OBVIOUS
  <2>2. i \in 1..Len(stack) /\ stack[i].inst = o.inst
    BY <1>1
  <2> QED  BY <1>1, <2>1, <2>2 DEF ObserversOK
<1> QED  BY <1>1, <1>2 DEF ObserversOK

\* The observers of a sign-up screen that is shown on top.
LEMMA ShownObservers ==
  ASSUME TypeInv, StackOK, ObserversOK, OpenSignUp \/ OpenSignIn \/ TappedSignInOrUp
  PROVE  ObserversOK'
<1>1. PICK s \in Screens :
            /\ s.kind \in SignKinds /\ s.inst = made + 1 /\ stack' = Append(stack, s)
            /\ made \in Nat /\ made' = made + 1
            /\ (stack = <<>> \/ (stack # <<>> /\ Top.kind = "signUp"))
  BY ShownIs
<1> DEFINE n == Len(stack)
<1>2. /\ n \in Nat /\ Len(stack)' = n + 1 /\ stack'[n + 1] = s
      /\ \A i \in 1..n : stack'[i] = stack[i]
      /\ \A i \in 1..Len(stack)' : i \in 1..n \/ i = n + 1
  BY <1>1, Push DEF TypeInv
<1>3. \A o \in observers' :
         \/ o.inst = made + 1
         \/ o \in observers /\ (stack = <<>> \/ o.inst # Top.inst)
  <2>1. CASE OpenSignUp \/ OpenSignIn
    BY <2>1, OnMapIs DEF OpenSignUp, OpenSignIn, Hears
  <2>2. CASE TappedSignInOrUp
    BY <2>2 DEF TappedSignInOrUp, Hears, Unheard
  <2> QED  BY <2>1, <2>2
<1>4. \A o, p \in observers' : o.inst = made + 1 /\ p.inst = made + 1 => o = p
  <2>1. \A o \in observers : o.inst <= made /\ o.inst \in Nat
    BY DEF ObserversOK, TypeInv, TypeOK
  <2>2. \A o \in observers : o.inst # made + 1
    BY <1>1, <2>1
  <2>3. CASE OpenSignUp
    BY <2>2, <2>3 DEF OpenSignUp
  <2>4. CASE OpenSignIn
    BY <2>2, <2>4 DEF OpenSignIn
  <2>5. CASE TappedSignInOrUp
    BY <2>2, <2>5 DEF TappedSignInOrUp, Unheard
  <2> QED  BY <2>3, <2>4, <2>5
<1>5. \A o \in observers : o.inst \in Nat /\ o.inst <= made
  BY DEF ObserversOK, TypeInv, TypeOK
<1>6. \A i \in 1..n : stack[i].inst \in Nat /\ stack[i].inst <= made
  BY StackScreen DEF StackOK, TypeInv
<1>7. stack # <<>> => n \in 1..n /\ Top = stack[n] /\ stack[n].kind \in SignKinds
  BY <1>1, StackPopped DEF TypeInv, SignKinds
<1>8. stack = <<>> => n = 0
  OBVIOUS
<1> HIDE DEF n
<1>9. \A o \in observers' : o.inst <= made'
  BY <1>1, <1>3, <1>5
<1>10. \A o, p \in observers' : o.inst = p.inst => o = p
  <2> SUFFICES ASSUME NEW o \in observers', NEW p \in observers', o.inst = p.inst
               PROVE  o = p
    OBVIOUS
  <2>1. CASE o.inst = made + 1
    BY <1>4, <2>1
  <2>2. CASE o.inst # made + 1
    BY <1>3, <2>2 DEF ObserversOK
  <2> QED  BY <2>1, <2>2
<1>11. \A o \in observers' : \A i, j \in 1..Len(stack)' :
          stack'[i].inst = o.inst /\ i < j => stack'[j].kind \notin SignKinds
  <2> SUFFICES ASSUME NEW o \in observers', NEW i \in 1..Len(stack)', NEW j \in 1..Len(stack)',
                      stack'[i].inst = o.inst, i < j
               PROVE  stack'[j].kind \notin SignKinds
    OBVIOUS
  <2>1. i \in 1..n /\ stack'[i] = stack[i]
    BY <1>2
  <2>2. o \in observers
    BY <1>1, <1>3, <1>6, <2>1
  <2>3. stack # <<>> /\ o.inst # Top.inst
    <3>1. stack # <<>>
      BY <1>8, <2>1
    <3>2. o.inst # made + 1
      BY <1>1, <1>5, <2>2
    <3> QED  BY <1>3, <3>1, <3>2
  <2>4. i # n
    BY <1>7, <2>1, <2>3
  <2>5. i < n
    BY <1>2, <2>1, <2>4
  <2> QED  BY <1>7, <2>1, <2>2, <2>3, <2>5 DEF ObserversOK, n
<1> QED  BY <1>9, <1>10, <1>11 DEF ObserversOK

LEMMA ObserversNext ==
  ASSUME TypeInv, StackOK, ObserversOK, [Next]_vars
  PROVE  ObserversOK'
<1> DEFINE Seen == \A i \in 1..Len(stack)' :
                      \/ i \in 1..Len(stack) /\ stack'[i] = stack[i]
                      \/ stack'[i].inst = 0 /\ stack'[i].kind \notin SignKinds
<1>1. CASE UNCHANGED vars
  BY <1>1, ObserversFewer DEF vars
<1>2. CASE OpenSignUp \/ OpenSignIn \/ TappedSignInOrUp
  BY <1>2, ShownObservers
<1>3. CASE Leave \/ \E e \in Emails : SubmitProfile(e)
  <2>1. stack # <<>> /\ stack' = Popped /\ observers' = observers /\ made' = made
    BY <1>3 DEF Leave, SubmitProfile, TopIs
  <2>2. Seen
    BY <2>1, Pop DEF TypeInv
  <2> QED  BY <2>1, <2>2, ObserversFewer
<1>4. CASE \/ \E e \in Emails : TappedSubmit(e) \/ TappedGoogle(e)
           \/ OpenProfile
  <2>1. stack' = stack /\ observers' = observers /\ made' = made
    BY <1>4 DEF TappedSubmit, TappedGoogle, OpenProfile
  <2> QED  BY <2>1, ObserversFewer
<1>5. CASE OpenSaved
  <2>1. /\ Len(stack)' = 1 /\ stack'[1].kind = "savedMenu" /\ stack'[1].inst = 0
        /\ observers' = observers /\ made' = made
    BY <1>5 DEF OpenSaved, UserScreen
  <2>2. Seen
    BY <2>1 DEF SignKinds
  <2> QED  BY <2>1, <2>2, ObserversFewer
<1>6. CASE LeaveSaved \/ LogOut
  <2>1. Len(stack)' = 0 /\ observers' = observers /\ made' = made
    BY <1>6, OnMapIs DEF LeaveSaved, LogOut
  <2> QED  BY <2>1, ObserversFewer
<1>7. CASE Relaunch
  BY <1>7 DEF Relaunch, ObserversOK
<1>8. ASSUME NEW t \in tasks, \/ CheckAnswered(t) \/ WriteDoc(t) \/ DocAcked(t)
                              \/ EmailUpdated(t) \/ Fails(t) \/ \E u \in Users : Created(t, u)
      PROVE  ObserversOK'
  <2>1. stack' = stack /\ observers' = observers /\ made' = made
    BY <1>8 DEF CheckAnswered, WriteDoc, DocAcked, EmailUpdated, Fails, Created
  <2> QED  BY <2>1, ObserversFewer
<1>9. ASSUME NEW t \in tasks, NEW u \in Users, SignedIn(t, u)
      PROVE  ObserversOK'
  <2>1. observers' \subseteq observers /\ made' = made
    BY <1>9 DEF SignedIn, Unheard
  <2> DEFINE s == UserScreen("savedSignUp", u)
  <2>2. s \in Screens /\ s.kind = "savedSignUp" /\ s.inst = 0
    BY <1>9, SignedInType
  <2>3. CASE stack' = stack
    BY <2>1, <2>3, ObserversFewer
  <2>4. CASE stack' = Append(stack, s)
    <3> HIDE DEF s
    <3>1. Seen
      BY <2>2, <2>4, Push DEF TypeInv, SignKinds
    <3> QED  BY <2>1, <3>1, ObserversFewer
  <2> QED  BY <1>9, <2>3, <2>4, SignedInType
<1>10. ASSUME NEW t \in tasks, ProfileAnswered(t)
       PROVE  ObserversOK'
  <2>1. observers' = observers /\ made' = made
    BY <1>10 DEF ProfileAnswered
  <2>2. CASE stack' = stack
    BY <2>1, <2>2, ObserversFewer
  <2>3. ASSUME NEW kind \in {"profile", "mediaProfile"}, t.user \in Users,
               stack' = Append(stack, UserScreen(kind, t.user))
        PROVE  ObserversOK'
    <3> DEFINE s == UserScreen(kind, t.user)
    <3>1. s \in Screens /\ s.kind = kind /\ s.inst = 0
      BY <2>3, UserScreenType DEF UserKinds
    <3>2. stack' = Append(stack, s)
      BY <2>3
    <3> HIDE DEF s
    <3>3. Seen
      BY <3>1, <3>2, Push DEF TypeInv, SignKinds
    <3> QED  BY <2>1, <3>3, ObserversFewer
  <2> QED  BY <1>10, <2>2, <2>3, ProfileAnsweredType
<1> QED  BY <1>1, <1>2, <1>3, <1>4, <1>5, <1>6, <1>7, <1>8, <1>9, <1>10, NextCases
-----------------------------------------------------------------------------
(* MapController knows the user.                                           *)

LEMMA PushSeen ==
  ASSUME TypeOK, TypeOK', NEW s \in Screens, stack' = Append(stack, s)
  PROVE  /\ \A inst : InStack(inst) => InStack(inst)'
         /\ s.kind # "savedSignUp" => (Arrived' <=> Arrived)
         /\ s.kind = "savedSignUp" => Arrived'
<1>1. /\ Len(stack) \in Nat /\ Len(stack)' = Len(stack) + 1
      /\ stack'[Len(stack) + 1] = s
      /\ \A i \in 1..Len(stack) : i \in 1..Len(stack)' /\ stack'[i] = stack[i]
      /\ \A i \in 1..Len(stack)' : i \in 1..Len(stack) \/ i = Len(stack) + 1
  BY Push
<1>2. \A inst : InStack(inst) => InStack(inst)'
  <2>1. DOMAIN stack = 1..Len(stack) /\ DOMAIN stack' = 1..Len(stack)'
    BY DEF TypeOK
  <2> QED  BY <1>1, <2>1 DEF InStack
<1>3. Len(stack) + 1 \in 1..Len(stack)'
  BY <1>1
<1> QED  BY <1>1, <1>2, <1>3 DEF Arrived

LEMMA PopSeen ==
  ASSUME TypeOK, TypeOK', stack # <<>>, stack' = Popped, Top.kind # "savedSignUp"
  PROVE  /\ \A inst : InStack(inst) /\ inst # Top.inst => InStack(inst)'
         /\ Arrived' <=> Arrived
<1>1. /\ Top = stack[Len(stack)]
      /\ \A i \in 1..Len(stack)' : i \in 1..Len(stack) /\ stack'[i] = stack[i]
      /\ \A i \in 1..Len(stack) : i \in 1..Len(stack)' \/ i = Len(stack)
  BY Pop
<1>2. \A inst : InStack(inst) /\ inst # Top.inst => InStack(inst)'
  <2>1. DOMAIN stack = 1..Len(stack) /\ DOMAIN stack' = 1..Len(stack)'
    BY DEF TypeOK
  <2> QED  BY <1>1, <2>1 DEF InStack
<1> QED  BY <1>1, <1>2 DEF Arrived

\* With the map on screen no chain runs, unless something went wrong.
LEMMA NoChainOnMap ==
  ASSUME TypeInv, UserKept, odd \cap {"failed", "left", "twice", "leaked"} = {},
         \A i \in 1..Len(stack) : stack[i].inst = 0
  PROVE  \A t \in tasks : ~Chain(t)
<1> SUFFICES ASSUME NEW t \in tasks, Chain(t)
             PROVE  FALSE
  OBVIOUS
<1>1. InStack(t.inst) /\ t.inst > 0
  BY TaskType DEF UserKept
<1>2. PICK i \in 1..Len(stack) : stack[i].inst = t.inst
  BY <1>1, InStackIs DEF TypeInv
<1> QED  BY <1>1, <1>2

\* A step that leaves the chains and their screens alone.
LEMMA UserUndisturbed ==
  ASSUME UserKept, odd \subseteq odd',
         \A t \in tasks' : Chain(t) => t \in tasks,
         \A t \in tasks : Chain(t) => t \in tasks',
         \A t \in tasks : Chain(t) /\ InStack(t.inst) => InStack(t.inst)' \/ "left" \in odd',
         Arrived' <=> Arrived, auth' = auth, userId' = userId
  PROVE  UserKept'
<1> SUFFICES ASSUME odd' \cap {"failed", "left", "twice", "leaked"} = {}
             PROVE  UserKept'
  BY DEF UserKept
<1>1. odd \cap {"failed", "left", "twice", "leaked"} = {} /\ "left" \notin odd'
  OBVIOUS
<1>2. \A t \in tasks' : Chain(t) => InStack(t.inst)' /\ ~Arrived'
  BY <1>1 DEF UserKept
<1>3. \A s, t \in tasks' : Chain(s) /\ Chain(t) => s = t
  BY <1>1 DEF UserKept
<1>4. userId' = auth' \/ Arrived' \/ \E t \in tasks' : Chain(t)
  BY <1>1 DEF UserKept
<1> QED  BY <1>2, <1>3, <1>4 DEF UserKept

\* A chain that goes on, or that is the first, with its screen in the stack.
LEMMA UserChained ==
  ASSUME odd' = odd, stack' = stack, NEW s \in Task, Chain(s),
         odd \cap {"failed", "left", "twice", "leaked"} = {} =>
            /\ InStack(s.inst) /\ ~Arrived /\ s \in tasks'
            /\ \A r \in tasks' : Chain(r) => r = s
  PROVE  UserKept'
<1> SUFFICES ASSUME odd' \cap {"failed", "left", "twice", "leaked"} = {}
             PROVE  UserKept'
  BY DEF UserKept
<1>1. /\ InStack(s.inst) /\ ~Arrived /\ s \in tasks'
      /\ \A r \in tasks' : Chain(r) => r = s
  OBVIOUS
<1>2. InStack(s.inst)' /\ ~Arrived'
  BY <1>1 DEF InStack, Arrived
<1>3. \A t \in tasks' : Chain(t) => InStack(t.inst)' /\ ~Arrived'
  BY <1>1, <1>2
<1> QED  BY <1>1, <1>3 DEF UserKept

LEMMA UserGoesOn ==
  ASSUME UserKept, NEW t \in tasks, NEW s \in Task, Chain(t), Chain(s), s.inst = t.inst,
         tasks' = (tasks \ {t}) \cup {s}, odd' = odd, stack' = stack
  PROVE  UserKept'
<1>1. odd \cap {"failed", "left", "twice", "leaked"} = {} =>
            /\ InStack(s.inst) /\ ~Arrived /\ s \in tasks'
            /\ \A r \in tasks' : Chain(r) => r = s
  BY DEF UserKept
<1> QED  BY <1>1, UserChained

\* One screen of the stack, at most, hears Google.
LEMMA OneHears ==
  ASSUME TypeInv, ObserversOK, ScreensHear
  PROVE  \A o, p \in observers : o = p
<1> SUFFICES ASSUME NEW o \in observers, NEW p \in observers
             PROVE  o = p
  OBVIOUS
<1>1. o.inst > 0 /\ p.inst > 0
  BY DEF TypeInv, TypeOK
<1>2. PICK i \in 1..Len(stack) : stack[i].inst = o.inst
  BY InStackIs DEF ScreensHear, TypeInv
<1>3. PICK j \in 1..Len(stack) : stack[j].inst = p.inst
  BY InStackIs DEF ScreensHear, TypeInv
<1>4. stack[i].kind \in SignKinds /\ stack[j].kind \in SignKinds
  BY <1>1, <1>2, <1>3, StackScreen DEF TypeInv
<1>5. ~(i < j) /\ ~(j < i)
  BY <1>2, <1>3, <1>4 DEF ObserversOK
<1>6. i = j
  BY <1>5
<1> QED  BY <1>2, <1>3, <1>6 DEF ObserversOK
LEMMA UserScreens ==
  ASSUME TypeInv, TypeInv', StackOK, UserKept,
         OpenSignUp \/ OpenSignIn \/ TappedSignInOrUp \/ Leave \/ OpenSaved \/ LeaveSaved
  PROVE  UserKept'
<1> USE DEF TypeInv
<1>1. CASE OpenSignUp \/ OpenSignIn \/ TappedSignInOrUp
  <2>1. PICK s \in Screens : /\ s.kind \in SignKinds /\ stack' = Append(stack, s)
                             /\ UNCHANGED <<auth, userId, google, tasks, odd>>
    BY <1>1, ShownIs
  <2>2. s.kind # "savedSignUp"
    BY <2>1 DEF SignKinds
  <2>3. \A t \in tasks : InStack(t.inst) => InStack(t.inst)'
    BY <2>1, PushSeen
  <2>4. Arrived' <=> Arrived
    BY <2>1, <2>2, PushSeen
  <2> QED  BY <2>1, <2>3, <2>4, UserUndisturbed
<1>2. CASE Leave
  <2>1. /\ stack # <<>> /\ stack' = Popped /\ Top.kind # "savedSignUp"
        /\ tasks' = tasks /\ auth' = auth /\ userId' = userId /\ odd \subseteq odd'
        /\ WaitedFor(Top.inst) => "left" \in odd'
    BY <1>2 DEF Leave, TopIs, Top, SignKinds
  <2>2. \A t \in tasks : Chain(t) /\ InStack(t.inst) => InStack(t.inst)' \/ "left" \in odd'
    <3> SUFFICES ASSUME NEW t \in tasks, Chain(t), InStack(t.inst)
                 PROVE  InStack(t.inst)' \/ "left" \in odd'
      OBVIOUS
    <3>1. CASE t.inst = Top.inst
      BY <2>1, <3>1, TaskType DEF WaitedFor
    <3>2. CASE t.inst # Top.inst
      BY <2>1, <3>2, PopSeen
    <3> QED  BY <3>1, <3>2
  <2>3. Arrived' <=> Arrived
    BY <2>1, PopSeen
  <2> QED  BY <2>1, <2>2, <2>3, UserUndisturbed
<1>3. CASE OpenSaved
  <2> SUFFICES ASSUME odd' \cap {"failed", "left", "twice", "leaked"} = {}
               PROVE  UserKept'
    BY DEF UserKept
  <2>1. /\ stack = <<>> /\ Len(stack) = 0 /\ ~Arrived
        /\ UNCHANGED <<auth, userId, tasks, odd>>
    BY <1>3, OnMapIs DEF OpenSaved
  <2>2. \A t \in tasks : ~Chain(t)
    BY <2>1, NoChainOnMap
  <2>3. userId = auth
    BY <2>1, <2>2 DEF UserKept
  <2> QED  BY <2>1, <2>2, <2>3 DEF UserKept
<1>4. CASE LeaveSaved
  <2> SUFFICES ASSUME odd' \cap {"failed", "left", "twice", "leaked"} = {}
               PROVE  UserKept'
    BY DEF UserKept
  <2>1. /\ stack # <<>> /\ Top.kind \in {"savedSignUp", "savedMenu"}
        /\ UNCHANGED <<auth, tasks, odd>> /\ userId' = KnownAfter
    BY <1>4 DEF LeaveSaved, TopIs, Top
  <2>2. Len(stack) \in 1..Len(stack) /\ Top = stack[Len(stack)]
    BY <2>1, StackPopped
  <2>3. CASE Top.kind = "savedSignUp"
    <3>1. Arrived /\ userId' = auth
      BY <2>1, <2>2, <2>3 DEF Arrived, KnownAfter
    <3>2. \A t \in tasks : ~Chain(t)
      BY <2>1, <3>1 DEF UserKept
    <3> QED  BY <2>1, <3>1, <3>2 DEF UserKept
  <2>4. CASE Top.kind = "savedMenu"
    <3>1. Len(stack) = 1 /\ userId' = userId
      BY <2>1, <2>2, <2>4 DEF StackOK, KnownAfter
    <3>2. \A i \in 1..Len(stack) : i = 1 /\ stack[i].kind = "savedMenu"
      BY <2>2, <2>4, <3>1
    <3>3. ~Arrived
      BY <3>2 DEF Arrived
    <3>4. \A i \in 1..Len(stack) : stack[i].inst = 0
      BY <3>2, StackScreen DEF SignKinds
    <3>5. \A t \in tasks : ~Chain(t)
      BY <2>1, <3>4, NoChainOnMap
    <3>6. userId = auth
      BY <2>1, <3>3, <3>5 DEF UserKept
    <3> QED  BY <2>1, <3>1, <3>5, <3>6 DEF UserKept
  <2> QED  BY <2>1, <2>3, <2>4
<1> QED  BY <1>1, <1>2, <1>3, <1>4

LEMMA UserSubmits ==
  ASSUME TypeInv, StackOK, ObserversOK, UserKept, NEW e \in Emails,
         TappedSubmit(e) \/ TappedGoogle(e)
  PROVE  UserKept'
<1> USE DEF TypeInv
<1> SUFFICES ASSUME odd' \cap {"failed", "left", "twice", "leaked"} = {}
             PROVE  UserKept'
  BY DEF UserKept
<1>1. stack # <<>> /\ Top.kind \in SignKinds
  BY DEF TappedSubmit, TappedGoogle, TopIs, Top, SignKinds
<1>2. ~Arrived
  BY <1>1, SignOnTop
<1>3. stack' = stack /\ auth' = auth /\ userId' = userId /\ odd \subseteq odd'
  BY DEF TappedSubmit, TappedGoogle
<1>4. odd \cap {"failed", "left", "twice", "leaked"} = {}
  BY <1>3
<1>5. CASE tasks' = tasks /\ odd' = odd
  <2>1. \A t \in tasks : InStack(t.inst) => InStack(t.inst)'
    BY <1>3 DEF InStack
  <2>2. Arrived' <=> Arrived
    BY <1>3 DEF Arrived
  <2> QED  BY <1>3, <1>5, <2>1, <2>2, UserUndisturbed
<1>6. CASE TappedSubmit(e)
  <2>1. odd' = odd \cup Again
    BY <1>6 DEF TappedSubmit
  <2>2. Again = {} /\ odd' = odd
    BY <2>1 DEF Again
  <2>3. \A t \in tasks : ~Chain(t)
    BY <2>2 DEF Again, Chain
  <2>4. PICK s \in Task : /\ s.step \in {"check", "signIn"} /\ s.inst = Top.inst
                          /\ tasks' = tasks \cup {s}
    BY <1>6, SubmitType
  <2>5. InStack(s.inst)
    BY <1>1, <2>4, StackPopped, StackType DEF InStack
  <2>6. Chain(s) /\ s \in tasks' /\ \A r \in tasks' : Chain(r) => r = s
    BY <2>3, <2>4 DEF Chain
  <2> QED  BY <1>2, <1>3, <2>2, <2>5, <2>6, UserChained
<1>7. CASE TappedGoogle(e) /\ ~(tasks' = tasks /\ odd' = odd)
  <2>1. ~google
    BY <1>7 DEF TappedGoogle
  <2>2. PICK turn \in [observers -> Free] :
           tasks' = tasks \cup {ChainOf(o, e, turn[o]) : o \in observers}
    BY <1>7, <2>1 DEF TappedGoogle
  <2>3. odd' = odd \cup (IF observers = {} THEN {} ELSE Again)
                   \cup (IF ScreensHear THEN {} ELSE {"leaked"})
    BY <1>7, <2>1 DEF TappedGoogle
  <2>4. ScreensHear
    BY <2>3
  <2>5. observers # {}
    <3> SUFFICES ASSUME observers = {}
                 PROVE  FALSE
      OBVIOUS
    <3>1. tasks' = tasks
      BY <2>2
    <3>2. odd' = odd
      BY <2>3, <2>4
    <3> QED  BY <1>7, <3>1, <3>2
  <2>6. PICK o \in observers : \A p \in observers : p = o
    BY <2>4, <2>5, OneHears
  <2>7. Again = {} /\ odd' = odd
    BY <2>3, <2>4, <2>5 DEF Again
  <2>8. \A t \in tasks : ~Chain(t)
    BY <2>7 DEF Again, Chain
  <2>9. turn[o] \in Free /\ turn[o] \in 1..MaxTasks
    BY <2>6 DEF Free
  <2> DEFINE s == ChainOf(o, e, turn[o])
  <2>10. tasks' = tasks \cup {s}
    BY <2>2, <2>6
  <2>11. s \in Task /\ s.inst = o.inst /\ s.step \in {"check", "signIn"}
    BY <2>6, <2>9, ChainType
  <2> HIDE DEF s
  <2>12. InStack(s.inst)
    BY <2>4, <2>6, <2>11 DEF ScreensHear
  <2>13. Chain(s) /\ s \in tasks' /\ \A r \in tasks' : Chain(r) => r = s
    BY <2>8, <2>10, <2>11 DEF Chain
  <2> QED  BY <1>2, <1>3, <2>7, <2>11, <2>12, <2>13, UserChained
<1> QED  BY <1>5, <1>6, <1>7

LEMMA UserAnswered ==
  ASSUME TypeInv, TypeInv', UserKept, NEW t \in tasks,
         \/ CheckAnswered(t) \/ WriteDoc(t) \/ DocAcked(t)
         \/ ProfileAnswered(t) \/ EmailUpdated(t) \/ Fails(t)
         \/ \E u \in Users : Created(t, u) \/ SignedIn(t, u)
  PROVE  UserKept'
<1> USE DEF TypeInv
<1>1. CASE CheckAnswered(t)
  <2>1. Chain(t) /\ odd' = odd /\ stack' = stack
    BY <1>1 DEF CheckAnswered, Chain
  <2>2. PICK s \in Task : /\ s.step \in {"signIn", "create"} /\ s.inst = t.inst
                          /\ tasks' = (tasks \ {t}) \cup {s}
    BY <1>1, CheckAnsweredType
  <2>3. Chain(s)
    BY <2>2 DEF Chain
  <2> QED  BY <2>1, <2>2, <2>3, UserGoesOn
<1>2. CASE WriteDoc(t)
  <2>1. Chain(t) /\ odd' = odd /\ stack' = stack
    BY <1>2 DEF WriteDoc, Chain
  <2>2. PICK s \in Task : /\ s.step = "ack" /\ s.inst = t.inst
                          /\ tasks' = (tasks \ {t}) \cup {s}
    BY <1>2, WriteDocType
  <2>3. Chain(s)
    BY <2>2 DEF Chain
  <2> QED  BY <2>1, <2>2, <2>3, UserGoesOn
<1>3. CASE DocAcked(t)
  <2>1. Chain(t) /\ odd' = odd /\ stack' = stack
    BY <1>3 DEF DocAcked, Chain
  <2>2. PICK s \in Task : /\ s.step = "signIn" /\ s.inst = t.inst
                          /\ tasks' = (tasks \ {t}) \cup {s}
    BY <1>3, DocAckedType
  <2>3. Chain(s)
    BY <2>2 DEF Chain
  <2> QED  BY <2>1, <2>2, <2>3, UserGoesOn
<1>4. CASE ProfileAnswered(t)
  <2>1. ~Chain(t) /\ odd' = odd /\ auth' = auth /\ userId' = userId /\ tasks' = tasks \ {t}
    BY <1>4 DEF ProfileAnswered, Chain, Ends
  <2>2. CASE stack' = stack
    <3>1. \A r \in tasks : InStack(r.inst) => InStack(r.inst)'
      BY <2>2 DEF InStack
    <3>2. Arrived' <=> Arrived
      BY <2>2 DEF Arrived
    <3> QED  BY <2>1, <3>1, <3>2, UserUndisturbed
  <2>3. ASSUME NEW kind \in {"profile", "mediaProfile"}, t.user \in Users,
               stack' = Append(stack, UserScreen(kind, t.user))
        PROVE  UserKept'
    <3> DEFINE s == UserScreen(kind, t.user)
    <3>1. s \in Screens /\ s.kind # "savedSignUp"
      BY <2>3, UserScreenType DEF UserKinds
    <3>2. stack' = Append(stack, s)
      BY <2>3
    <3> HIDE DEF s
    <3>3. \A r \in tasks : InStack(r.inst) => InStack(r.inst)'
      BY <3>1, <3>2, PushSeen
    <3>4. Arrived' <=> Arrived
      BY <3>1, <3>2, PushSeen
    <3> QED  BY <2>1, <3>3, <3>4, UserUndisturbed
  <2> QED  BY <1>4, <2>2, <2>3, ProfileAnsweredType
<1>5. CASE EmailUpdated(t)
  <2>1. /\ ~Chain(t) /\ odd \subseteq odd' /\ auth' = auth /\ userId' = userId
        /\ tasks' = tasks \ {t} /\ stack' = stack
    BY <1>5 DEF EmailUpdated, Chain, Ends
  <2>2. \A r \in tasks : InStack(r.inst) => InStack(r.inst)'
    BY <2>1 DEF InStack
  <2>3. Arrived' <=> Arrived
    BY <2>1 DEF Arrived
  <2> QED  BY <2>1, <2>2, <2>3, UserUndisturbed
<1>6. CASE Fails(t)
  BY <1>6 DEF Fails, UserKept
<1>7. ASSUME NEW u \in Users, Created(t, u)
      PROVE  UserKept'
  <2>1. CASE odd' = odd \cup {"lost", "failed"}
    BY <2>1 DEF UserKept
  <2>2. CASE odd' = odd /\ \E s \in Task : /\ s.step = "doc" /\ s.inst = t.inst
                                           /\ tasks' = (tasks \ {t}) \cup {s}
    <3>1. PICK s \in Task : /\ s.step = "doc" /\ s.inst = t.inst
                            /\ tasks' = (tasks \ {t}) \cup {s}
      BY <2>2
    <3>2. Chain(t) /\ Chain(s) /\ stack' = stack
      BY <1>7, <3>1 DEF Created, Chain
    <3> QED  BY <2>2, <3>1, <3>2, UserGoesOn
  <2> QED  BY <1>7, <2>1, <2>2, CreatedType
<1>8. ASSUME NEW u \in Users, SignedIn(t, u)
      PROVE  UserKept'
  <2> SUFFICES ASSUME odd' \cap {"failed", "left", "twice", "leaked"} = {}
               PROVE  UserKept'
    BY DEF UserKept
  <2>1. odd' = odd /\ Chain(t) /\ tasks' = tasks \ {t}
    BY <1>8 DEF SignedIn, Ends, Chain
  <2>2. InStack(t.inst) /\ \A r \in tasks' : ~Chain(r)
    BY <2>1 DEF UserKept
  <2>3. /\ UserScreen("savedSignUp", u) \in Screens
        /\ UserScreen("savedSignUp", u).kind = "savedSignUp"
        /\ stack' = Append(stack, UserScreen("savedSignUp", u))
    BY <1>8, <2>2, SignedInType
  <2>4. Arrived'
    BY <2>3, PushSeen
  <2> QED  BY <2>2, <2>4 DEF UserKept
<1> QED  BY <1>1, <1>2, <1>3, <1>4, <1>5, <1>6, <1>7, <1>8

LEMMA UserNext ==
  ASSUME TypeInv, TypeInv', StackOK, ObserversOK, UserKept, [Next]_vars
  PROVE  UserKept'
<1>1. CASE UNCHANGED vars
  <2>1. UNCHANGED <<auth, userId, stack, tasks, odd>>
    BY <1>1 DEF vars
  <2>2. (\A t \in tasks : InStack(t.inst) => InStack(t.inst)') /\ (Arrived' <=> Arrived)
    BY <2>1 DEF InStack, Arrived
  <2> QED  BY <2>1, <2>2, UserUndisturbed
<1>2. CASE OpenSignUp \/ OpenSignIn \/ TappedSignInOrUp \/ Leave \/ OpenSaved \/ LeaveSaved
  BY <1>2, UserScreens
<1>3. ASSUME NEW e \in Emails, TappedSubmit(e) \/ TappedGoogle(e)
      PROVE  UserKept'
  BY <1>3, UserSubmits
<1>4. ASSUME NEW e \in Emails, SubmitProfile(e)
      PROVE  UserKept'
  <2>1. /\ stack # <<>> /\ stack' = Popped /\ Top.kind = "profile"
        /\ auth' = auth /\ userId' = userId /\ odd \subseteq odd' /\ tasks \subseteq tasks'
    BY <1>4 DEF SubmitProfile, TopIs, Top, Start
  <2>2. \A s \in tasks' : Chain(s) => s \in tasks
    BY <1>4, SubmitProfileType DEF Chain
  <2>3. Top.inst = 0
    BY <2>1, StackPopped, ScreenType DEF TypeInv, SignKinds
  <2>4. \A t \in tasks : Chain(t) /\ InStack(t.inst) => InStack(t.inst)'
    BY <2>1, <2>3, TaskType, PopSeen DEF TypeInv
  <2>5. Arrived' <=> Arrived
    BY <2>1, PopSeen DEF TypeInv
  <2> QED  BY <2>1, <2>2, <2>4, <2>5, UserUndisturbed
<1>5. CASE OpenProfile
  <2>1. UNCHANGED <<auth, userId, stack, odd>> /\ tasks \subseteq tasks'
    BY <1>5 DEF OpenProfile, Start
  <2>2. \A s \in tasks' : Chain(s) => s \in tasks
    BY <1>5, OpenProfileType DEF Chain
  <2>3. (\A t \in tasks : InStack(t.inst) => InStack(t.inst)') /\ (Arrived' <=> Arrived)
    BY <2>1 DEF InStack, Arrived
  <2> QED  BY <2>1, <2>2, <2>3, UserUndisturbed
<1>6. CASE LogOut
  <2> SUFFICES ASSUME odd' \cap {"failed", "left", "twice", "leaked"} = {}
               PROVE  UserKept'
    BY DEF UserKept
  <2>1. Len(stack) = 0 /\ userId' = auth' /\ UNCHANGED <<stack, tasks, odd>>
    BY <1>6, OnMapIs DEF LogOut
  <2>2. \A t \in tasks' : ~Chain(t)
    BY <2>1, NoChainOnMap
  <2> QED  BY <2>1, <2>2 DEF UserKept
<1>7. ASSUME NEW t \in tasks,
             \/ CheckAnswered(t) \/ WriteDoc(t) \/ DocAcked(t)
             \/ ProfileAnswered(t) \/ EmailUpdated(t) \/ Fails(t)
             \/ \E u \in Users : Created(t, u) \/ SignedIn(t, u)
      PROVE  UserKept'
  BY <1>7, UserAnswered
<1>8. CASE Relaunch
  BY <1>8 DEF Relaunch, UserKept
<1> QED  BY <1>1, <1>2, <1>3, <1>4, <1>5, <1>6, <1>7, <1>8, NextCases

LEMMA AccountInit ==
  ASSUME Init
  PROVE  IInv
<1>1. /\ stack = <<>> /\ Len(stack) = 0 /\ tasks = {} /\ observers = {}
      /\ auth = NoUser /\ userId = NoUser
      /\ \A u \in Users : docs[u] = NoEmail /\ ~Exists(u)
  BY DEF Init, Exists
<1>2. EveryAccountHasDoc /\ DocsKept
  BY <1>1 DEF EveryAccountHasDoc, DocsKept
<1>3. StackOK /\ ObserversOK /\ UserKept
  BY <1>1 DEF StackOK, ObserversOK, UserKept
<1> QED  BY <1>2, <1>3, InitType DEF IInv

LEMMA AccountInductive ==
  ASSUME IInv, [Next]_vars
  PROVE  IInv'
<1>1. TypeInv'
  BY NextType DEF IInv
<1> QED  BY <1>1, HasDocNext, DocsKeptNext, StackNext, ObserversNext, UserNext DEF IInv

\* MapController.userId is the user Auth knows whenever the map is on top and
\* no chain runs: each way of signing somebody in ends in SavedController, and
\* leaving that tells MapController, unless something went wrong on the way.
THEOREM MapAlwaysKnowsUser == Spec => []MapKnowsUser
<1>1. Init => IInv
  BY AccountInit
<1>2. IInv /\ [Next]_vars => IInv'
  BY AccountInductive
<1>3. IInv => MapKnowsUser
  BY OnMapIs DEF IInv, UserKept, MapKnowsUser
<1> QED  BY <1>1, <1>2, <1>3, PTL DEF Spec
-----------------------------------------------------------------------------
(* Account keeps the promises of Identity.                                 *)

SavedKinds == {"savedSignUp", "savedMenu"}

LEMMA SavedScreensAre ==
  ASSUME TypeOK
  PROVE  /\ SavedScreens = {i \in 1..Len(stack) : stack[i].kind \in SavedKinds}
         /\ SavedScreens \subseteq Nat
BY StackType DEF SavedScreens, SavedKinds

\* The last of the saved screens is the one that shows.
LEMMA TopSavedIs ==
  ASSUME TypeOK, NEW n \in SavedScreens, \A j \in SavedScreens : j <= n
  PROVE  /\ TopSaved = n
         /\ SavedView = [from |-> IF stack[n].kind = "savedSignUp" THEN "signUp" ELSE "menu",
                         user |-> stack[n].user]
<1>1. SavedScreens \subseteq Nat
  BY SavedScreensAre
<1>2. TopSaved \in SavedScreens /\ \A j \in SavedScreens : j <= TopSaved
  BY DEF TopSaved
<1>3. n <= TopSaved /\ TopSaved <= n /\ n \in Nat /\ TopSaved \in Nat
  BY <1>1, <1>2
<1>4. TopSaved = n
  BY <1>3
<1>5. SavedScreens # {}
  OBVIOUS
<1> QED  BY <1>4, <1>5 DEF SavedView

LEMMA LastSaved ==
  ASSUME TypeOK, SavedScreens # {}
  PROVE  \E n \in SavedScreens : \A j \in SavedScreens : j <= n
<1> DEFINE R == OpToRel(<, Nat)
           n == Len(stack)
           S == {k \in Nat : \E i \in SavedScreens : k = n - i}
<1>1. n \in Nat /\ \A i \in SavedScreens : i \in Nat /\ i <= n
  BY StackType, SavedScreensAre
<1> HIDE DEF n
<1>2. \A i \in SavedScreens : n - i \in S
  BY <1>1
<1>3. S \subseteq Nat /\ S # {}
  BY <1>2
<1>4. IsWellFoundedOn(R, Nat)
  BY NatLessThanWellFounded
<1>5. PICK k \in S : \A m \in S : ~(<<m, k>> \in R)
  <2> HIDE DEF R, S
  <2> QED  BY <1>3, <1>4, WFMin
<1>6. \A m \in S : ~(m < k)
  BY <1>3, <1>5 DEF OpToRel
<1>7. PICK i \in SavedScreens : k = n - i
  OBVIOUS
<1>8. \A j \in SavedScreens : ~(n - j < n - i)
  BY <1>2, <1>6, <1>7
<1>9. \A j \in SavedScreens : j <= i
  BY <1>1, <1>8
<1> QED  BY <1>9

LEMMA NoneSaved ==
  ASSUME Len(stack) = 0, TypeOK
  PROVE  SavedScreens = {} /\ SavedView = Promise!NotSaved
BY SavedScreensAre DEF SavedView, Promise!NotSaved

LEMMA ViewKept ==
  ASSUME TypeOK, SavedScreens' = SavedScreens, \A i \in SavedScreens : stack'[i] = stack[i]
  PROVE  SavedView' = SavedView
<1> DEFINE T(S) == CHOOSE i \in S : \A j \in S : j <= i
<1>1. TopSaved = T(SavedScreens) /\ TopSaved' = T(SavedScreens')
  BY DEF TopSaved
<1> HIDE DEF T
<1>2. TopSaved' = TopSaved
  BY <1>1
<1>3. CASE SavedScreens = {}
  BY <1>3 DEF SavedView
<1>4. CASE SavedScreens # {}
  <2>1. stack'[TopSaved'] = stack[TopSaved]
    <3>1. TopSaved \in SavedScreens
      BY <1>4, LastSaved DEF TopSaved
    <3> QED  BY <1>2, <3>1
  <2> QED  BY <1>2, <1>4, <2>1 DEF SavedView
<1> QED  BY <1>3, <1>4
\* A screen other than SavedController comes or goes, or none does.
LEMMA ViewSame ==
  ASSUME TypeOK, TypeOK', stack' = stack
  PROVE  SavedView' = SavedView
<1>1. SavedScreens' = SavedScreens
  BY DEF SavedScreens
<1> QED  BY <1>1, ViewKept

LEMMA ViewPopped ==
  ASSUME TypeOK, TypeOK', stack # <<>>, stack' = Popped, Top.kind \notin SavedKinds
  PROVE  SavedView' = SavedView
<1>1. /\ Top = stack[Len(stack)]
      /\ \A i \in 1..Len(stack)' : i \in 1..Len(stack) /\ stack'[i] = stack[i]
      /\ \A i \in 1..Len(stack) : i \in 1..Len(stack)' \/ i = Len(stack)
  BY Pop
<1>2. SavedScreens = {i \in 1..Len(stack) : stack[i].kind \in SavedKinds}
  BY SavedScreensAre
<1>3. SavedScreens' = {i \in 1..Len(stack)' : stack'[i].kind \in SavedKinds}
  BY DEF SavedScreens, SavedKinds, TypeOK
<1>4. SavedScreens' = SavedScreens
  BY <1>1, <1>2, <1>3
<1>5. \A i \in SavedScreens : stack'[i] = stack[i]
  BY <1>1, <1>3, <1>4
<1> QED  BY <1>4, <1>5, ViewKept

LEMMA ViewPushed ==
  ASSUME TypeOK, TypeOK', NEW s \in Screens, s.kind \notin SavedKinds, stack' = Append(stack, s)
  PROVE  SavedView' = SavedView
<1>1. /\ stack'[Len(stack) + 1] = s
      /\ \A i \in 1..Len(stack) : i \in 1..Len(stack)' /\ stack'[i] = stack[i]
      /\ \A i \in 1..Len(stack)' : i \in 1..Len(stack) \/ i = Len(stack) + 1
  BY Push
<1>2. SavedScreens = {i \in 1..Len(stack) : stack[i].kind \in SavedKinds}
  BY SavedScreensAre
<1>3. SavedScreens' = {i \in 1..Len(stack)' : stack'[i].kind \in SavedKinds}
  BY DEF SavedScreens, SavedKinds, TypeOK
<1>4. SavedScreens' = SavedScreens
  BY <1>1, <1>2, <1>3
<1>5. \A i \in SavedScreens : stack'[i] = stack[i]
  BY <1>1, <1>2
<1> QED  BY <1>4, <1>5, ViewKept

\* SavedController on top is the one that shows.
LEMMA ViewTop ==
  ASSUME TypeOK, stack # <<>>, Top.kind \in SavedKinds
  PROVE  SavedView = [from |-> IF Top.kind = "savedSignUp" THEN "signUp" ELSE "menu",
                      user |-> Top.user]
<1> DEFINE n == Len(stack)
<1>1. n \in 1..n /\ Top = stack[n]
  BY StackPopped
<1>2. SavedScreens = {i \in 1..n : stack[i].kind \in SavedKinds}
  BY SavedScreensAre
<1> HIDE DEF n
<1>3. n \in SavedScreens /\ \A j \in SavedScreens : j <= n
  BY <1>1, <1>2
<1> QED  BY <1>1, <1>3, TopSavedIs

\* The same after a step.
LEMMA ViewNext ==
  ASSUME TypeOK'
  PROVE  /\ Len(stack)' = 0 => SavedView' = Promise!NotSaved
         /\ stack' # <<>> /\ Top'.kind \in SavedKinds =>
               SavedView' = [from |-> IF Top'.kind = "savedSignUp" THEN "signUp" ELSE "menu",
                             user |-> Top'.user]
<1>1. (Len(stack) = 0 /\ TypeOK => SavedView = Promise!NotSaved)'
  BY NoneSaved, PTL
<1>2. (TypeOK /\ stack # <<>> /\ Top.kind \in SavedKinds =>
         SavedView = [from |-> IF Top.kind = "savedSignUp" THEN "signUp" ELSE "menu",
                      user |-> Top.user])'
  BY ViewTop, PTL
<1> QED  BY <1>1, <1>2 DEF Promise!NotSaved

LEMMA KeepsInit ==
  ASSUME Init
  PROVE  Promise!IdentityInit
<1>1. Len(stack) = 0 /\ TypeOK /\ auth = NoUser /\ userId = NoUser
  BY InitType DEF Init, TypeInv
<1> QED  BY <1>1, NoneSaved DEF Promise!IdentityInit, Promise!SomeUser

\* Each step of the screens, the chains and the menu as one of Identity.
LEMMA KeepsNext ==
  ASSUME IInv, IInv', [Next]_vars
  PROVE  [Promise!IdentityNext]_(Promise!identity)
<1> USE DEF TypeInv
<1>1. TypeInv /\ TypeInv' /\ StackOK
  BY DEF IInv
<1>2. SUFFICES ASSUME ~(auth' = auth /\ userId' = userId /\ SavedView' = SavedView)
               PROVE  Promise!IdentityNext
  BY DEF Promise!identity
<1>3. CASE UNCHANGED vars
  BY <1>1, <1>2, <1>3, ViewSame DEF vars
<1>4. CASE OpenSignUp \/ OpenSignIn \/ TappedSignInOrUp
  <2>1. PICK s \in Screens : /\ s.kind \in SignKinds /\ stack' = Append(stack, s)
                             /\ UNCHANGED <<auth, userId, google, tasks, odd>>
    BY <1>1, <1>4, ShownIs
  <2>2. s.kind \notin SavedKinds
    BY <2>1 DEF SignKinds, SavedKinds
  <2> QED  BY <1>1, <1>2, <2>1, <2>2, ViewPushed
<1>5. CASE Leave \/ \E e \in Emails : SubmitProfile(e)
  <2>1. /\ stack # <<>> /\ stack' = Popped /\ Top.kind \notin SavedKinds
        /\ auth' = auth /\ userId' = userId
    BY <1>5 DEF Leave, SubmitProfile, TopIs, Top, SignKinds, SavedKinds
  <2> QED  BY <1>1, <1>2, <2>1, ViewPopped
<1>6. CASE \/ \E e \in Emails : TappedSubmit(e) \/ TappedGoogle(e)
           \/ OpenProfile
  <2>1. stack' = stack /\ auth' = auth /\ userId' = userId
    BY <1>6 DEF TappedSubmit, TappedGoogle, OpenProfile
  <2> QED  BY <1>1, <1>2, <2>1, ViewSame
<1>7. CASE OpenSaved
  <2>1. /\ Len(stack) = 0 /\ auth # NoUser /\ auth' = auth /\ userId' = userId
        /\ stack' = <<UserScreen("savedMenu", auth)>>
    BY <1>7, OnMapIs DEF OpenSaved
  <2>2. SavedView = Promise!NotSaved
    BY <1>1, <2>1, NoneSaved
  <2>3. /\ Len(stack)' = 1 /\ stack'[1].kind = "savedMenu" /\ stack'[1].user = auth
        /\ stack' # <<>> /\ Top' = stack'[1]
    BY <2>1 DEF UserScreen, Top
  <2>4. Top'.kind = "savedMenu" /\ Top'.user = auth /\ Top'.kind \in SavedKinds
    BY <2>3 DEF SavedKinds
  <2>5. SavedView' = [from |-> IF Top'.kind = "savedSignUp" THEN "signUp" ELSE "menu",
                      user |-> Top'.user]
    BY <1>1, <2>3, <2>4, ViewNext
  <2>6. SavedView' = [from |-> "menu", user |-> auth]
    BY <2>4, <2>5
  <2>7. Promise!PushSaved
    BY <2>1, <2>2, <2>6 DEF Promise!PushSaved, Promise!OnMap
  <2> QED  BY <2>7 DEF Promise!IdentityNext
<1>8. CASE LeaveSaved
  <2>1. /\ stack # <<>> /\ Top.kind \in SavedKinds /\ auth' = auth
        /\ userId' = KnownAfter /\ Len(stack)' = 0
    BY <1>8 DEF LeaveSaved, TopIs, Top, SavedKinds
  <2>2. SavedView = [from |-> IF Top.kind = "savedSignUp" THEN "signUp" ELSE "menu",
                     user |-> Top.user]
    BY <1>1, <2>1, ViewTop
  <2>3. SavedView # Promise!NotSaved /\ (SavedView.from = "signUp" <=> Top.kind = "savedSignUp")
    BY <2>1, <2>2 DEF Promise!NotSaved, SavedKinds
  <2>4. SavedView' = Promise!NotSaved
    BY <1>1, <2>1, ViewNext
  <2>5. Promise!PopSaved
    BY <2>1, <2>3, <2>4 DEF Promise!PopSaved, Promise!OnMap, Promise!KnownAfter, KnownAfter
  <2> QED  BY <2>5 DEF Promise!IdentityNext
<1>9. CASE LogOut
  <2>1. /\ Len(stack) = 0 /\ auth # NoUser /\ auth' \in {NoUser, auth} /\ userId' = auth'
        /\ stack' = stack
    BY <1>9, OnMapIs DEF LogOut
  <2>2. SavedView = Promise!NotSaved /\ SavedView' = SavedView
    BY <1>1, <2>1, NoneSaved, ViewSame
  <2>3. Promise!LogOut
    BY <2>1, <2>2 DEF Promise!LogOut, Promise!OnMap
  <2> QED  BY <2>3 DEF Promise!IdentityNext
<1>10. CASE Relaunch
  <2>1. Len(stack)' = 0 /\ auth' = auth /\ userId' = auth
    BY <1>10 DEF Relaunch
  <2>2. SavedView' = Promise!NotSaved
    BY <1>1, <2>1, ViewNext
  <2>3. Promise!Launch
    BY <2>1, <2>2 DEF Promise!Launch
  <2> QED  BY <2>3 DEF Promise!IdentityNext
<1>11. ASSUME NEW t \in tasks, CheckAnswered(t) \/ WriteDoc(t) \/ DocAcked(t) \/ EmailUpdated(t) \/ Fails(t)
       PROVE  Promise!IdentityNext
  <2>1. stack' = stack /\ auth' = auth /\ userId' = userId
    BY <1>11 DEF CheckAnswered, WriteDoc, DocAcked, EmailUpdated, Fails
  <2> QED  BY <1>1, <1>2, <2>1, ViewSame
<1>12. ASSUME NEW t \in tasks, NEW u \in Users, Created(t, u)
       PROVE  Promise!IdentityNext
  <2>1. stack' = stack /\ (auth' = u \/ auth' = auth) /\ userId' = userId
    BY <1>12 DEF Created
  <2>2. SavedView' = SavedView
    BY <1>1, <2>1, ViewSame
  <2>3. Promise!SignedInUnseen(u)
    BY <1>2, <2>1, <2>2 DEF Promise!SignedInUnseen
  <2> QED  BY <2>3 DEF Promise!IdentityNext
<1>13. ASSUME NEW t \in tasks, NEW u \in Users, SignedIn(t, u)
       PROVE  Promise!IdentityNext
  <2>1. auth' = u /\ userId' = userId /\ t.inst > 0
    BY <1>1, <1>13, SignedInType DEF SignedIn
  <2>2. CASE stack' = stack
    <3>1. SavedView' = SavedView
      BY <1>1, <2>2, ViewSame
    <3>2. Promise!SignedInUnseen(u)
      BY <2>1, <3>1 DEF Promise!SignedInUnseen
    <3> QED  BY <3>2 DEF Promise!IdentityNext
  <2>3. CASE InStack(t.inst) /\ stack' = Append(stack, UserScreen("savedSignUp", u))
    <3> DEFINE s == UserScreen("savedSignUp", u)
    <3>1. s \in Screens /\ s.kind = "savedSignUp" /\ s.user = u
      BY <1>1, <1>13, SignedInType
    <3> HIDE DEF s
    <3>2. stack' = Append(stack, s)
      BY <2>3 DEF s
    <3>3. PICK i \in 1..Len(stack) : stack[i].inst = t.inst
      BY <1>1, <2>3, InStackIs
    <3>4. userId = NoUser
      BY <1>1, <2>1, <3>3, StackScreen DEF StackOK
    <3>5. Len(stack)' = Len(stack) + 1 /\ stack'[Len(stack) + 1] = s /\ stack' # <<>>
      BY <1>1, <3>1, <3>2, Push, StackPushed, AppendProperties DEF TypeOK
    <3>6. Top' = s
      BY <3>5 DEF Top
    <3>7. Top'.kind \in SavedKinds
      BY <3>1, <3>6 DEF SavedKinds
    <3>8. SavedView' = [from |-> IF Top'.kind = "savedSignUp" THEN "signUp" ELSE "menu",
                        user |-> Top'.user]
      BY <1>1, <3>5, <3>7, ViewNext
    <3>9. SavedView' = [from |-> "signUp", user |-> u]
      BY <3>1, <3>6, <3>8
    <3>10. Promise!Arrive(u)
      BY <2>1, <3>4, <3>9 DEF Promise!Arrive
    <3> QED  BY <3>10 DEF Promise!IdentityNext
  <2> QED  BY <1>1, <1>13, <2>2, <2>3, SignedInType
<1>14. ASSUME NEW t \in tasks, ProfileAnswered(t)
       PROVE  Promise!IdentityNext
  <2>1. auth' = auth /\ userId' = userId
    BY <1>14 DEF ProfileAnswered
  <2>2. CASE stack' = stack
    BY <1>1, <1>2, <2>1, <2>2, ViewSame
  <2>3. ASSUME NEW kind \in {"profile", "mediaProfile"}, t.user \in Users,
               stack' = Append(stack, UserScreen(kind, t.user))
        PROVE  Promise!IdentityNext
    <3> DEFINE s == UserScreen(kind, t.user)
    <3>1. s \in Screens /\ s.kind \notin SavedKinds
      BY <2>3, UserScreenType DEF UserKinds, SavedKinds
    <3>2. stack' = Append(stack, s)
      BY <2>3
    <3> HIDE DEF s
    <3> QED  BY <1>1, <1>2, <2>1, <3>1, <3>2, ViewPushed
  <2> QED  BY <1>1, <1>14, <2>2, <2>3, ProfileAnsweredType
<1> QED  BY <1>3, <1>4, <1>5, <1>6, <1>7, <1>8, <1>9, <1>10, <1>11, <1>12, <1>13, <1>14, NextCases

\* Account implements Identity: every step of the sign-up screens, of their
\* chains and of the menu is a step that Session expects of them, or changes
\* nothing that Session sees.
THEOREM AccountKeepsPromise == Spec => KeepsPromise
<1>1. Init => IInv /\ Promise!IdentityInit
  BY AccountInit, KeepsInit
<1>2. IInv /\ [Next]_vars => IInv'
  BY AccountInductive
<1>3. IInv /\ IInv' /\ [Next]_vars => [Promise!IdentityNext]_(Promise!identity)
  BY KeepsNext
<1> QED  BY <1>1, <1>2, <1>3, PTL DEF Spec, KeepsPromise, Promise!IdentitySpec
=============================================================================
