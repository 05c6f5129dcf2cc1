------------------------ MODULE InspectorFormsProofs ------------------------
(***************************************************************************)
(* Proofs about InspectorForms, for every set of players, of writes and of *)
(* tokens and every bound on the forms clients may still answer.           *)
(*                                                                         *)
(* The inductive invariant is TypeOK /\ LockHasForm: a callback removes    *)
(* the form of a lock only when it has released that lock before, and a    *)
(* lock is only set to the token of the form sent in the same step.        *)
(***************************************************************************)
EXTENDS InspectorForms, TLAPS

\* The tables of pages are about pages, and only "Confirm" writes.
LEMMA OutcomesOfPages ==
    ASSUME NEW page \in Pages
    PROVE  /\ \A o \in Choices(page) \cup {Closing(page)} :
                 /\ o.run \in Writes \cup {Nothing, Read}
                 /\ o.show \subseteq Pages
                 /\ o.run \in Writes => /\ page.name \in Confirmations
                                        /\ o.run = page.write
<1> DEFINE n == page.name
<1> USE FormsAssumption
<1>1. /\ n \in Names
      /\ n \in Confirmations => page.write \in Writes
      /\ n \notin Confirmations => page.write = NoWrite
  BY DEF Pages, Names, Parent, Confirmations
<1>2. Buttons[n] \subseteq Names \ Confirmations
  BY <1>1 DEF Buttons, Names, Parent, Confirmations
<1>3. \A m \in DOMAIN Reads : Reads[m] \in Names \ Confirmations
  BY DEF Reads, Names, Parent, Confirmations
<1>4. \A m \in DOMAIN Review : Review[m] \in Confirmations
  BY DEF Review, Confirmations
<1>5. \A m \in Names \ {"main"} : Parent[m] \in Names \ Confirmations
  BY DEF Names, Parent, Confirmations
<1>6. Confirmations \subseteq Names \ {"main"}
  BY DEF Names, Parent, Confirmations
<1>7. \A m \in Names \ Confirmations : Page(m) \in Pages
  BY DEF Page, Pages
<1>8. \A m \in Confirmations, w \in Writes : [name |-> m, write |-> w] \in Pages
  BY DEF Pages
<1>9. \A o \in Choices(page) :
         /\ o.run \in Writes \cup {Nothing, Read}
         /\ o.show \subseteq Pages
         /\ o.run \in Writes => n \in Confirmations /\ o.run = page.write
  <2> SUFFICES ASSUME NEW o \in Choices(page)
               PROVE  /\ o.run \in Writes \cup {Nothing, Read}
                      /\ o.show \subseteq Pages
                      /\ o.run \in Writes => n \in Confirmations /\ o.run = page.write
    OBVIOUS
  <2>1. CASE o \in Invalid(page)
    BY <2>1 DEF Invalid, Outcome
  <2>2. CASE \E b \in Buttons[n] : o = Outcome(Nothing, Page(b))
    BY <2>2, <1>2, <1>7 DEF Outcome
  <2>3. CASE \E m \in {n} \cap DOMAIN Reads : o = Outcome(Read, Page(Reads[m]))
    BY <2>3, <1>3, <1>7 DEF Outcome
  <2>4. CASE \E m \in {n} \cap DOMAIN Review, w \in Writes :
                o = Outcome(Nothing, [name |-> Review[m], write |-> w])
    BY <2>4, <1>4, <1>8 DEF Outcome
  <2>5. CASE \E m \in {n} \cap Confirmations, c \in {page.write, Nothing} :
                o = Outcome(c, Page(Parent[m]))
    BY <2>5, <1>1, <1>5, <1>6, <1>7 DEF Outcome
  <2>6. CASE o = Leave
    BY <2>6 DEF Leave
  <2> QED
    BY <2>1, <2>2, <2>3, <2>4, <2>5, <2>6 DEF Choices
<1>10. /\ Closing(page).run \in Writes \cup {Nothing, Read}
       /\ Closing(page).show \subseteq Pages
       /\ Closing(page).run \notin Writes
  <2>1. CASE n = "main"
    BY <2>1 DEF Closing, Leave
  <2>2. CASE n # "main"
    BY <2>2, <1>1, <1>5, <1>7 DEF Closing, Outcome
  <2> QED
    BY <2>1, <2>2
<1> QED
  BY <1>9, <1>10

LEMMA InitIsTyped == Init => TypeOK
BY FormsAssumption DEF Init, TypeOK

\* What showing a page does to locks and forms.
LEMMA Showing ==
    ASSUME TypeOK, NEW p \in Players, NEW page \in Pages,
           NEW open \in SUBSET forms, Show(p, page, open)
    PROVE  /\ \A q \in Players \ {p} : locks'[q] = locks[q]
           /\ locks' \in [Players -> Tokens \cup {NoToken}]
           /\ forms' \in SUBSET FormRecords
           /\ open \subseteq forms'
           /\ \A f, g \in forms' : f.token = g.token => f = g
           /\ locks'[p] # NoToken =>
                 /\ \E f \in forms' : f.player = p /\ f.token = locks'[p]
                 /\ locks'[p] # locks[p]
<1>1. \A t \in FreshTokens :
         /\ Form(p, t, page) \in FormRecords
         /\ Form(p, t, page).token = t
         /\ Form(p, t, page).player = p
         /\ \A f \in forms : f.token # t
         /\ t # locks[p]
         /\ t \in Tokens
  BY DEF FreshTokens, Form, FormRecords
<1>2. \A t \in FreshTokens :
         /\ open \cup {Form(p, t, page)} \in SUBSET FormRecords
         /\ \A f, g \in open \cup {Form(p, t, page)} : f.token = g.token => f = g
  BY <1>1 DEF TypeOK
<1>3. CASE SendLocked(p, page, open)
  <2>1. PICK t \in FreshTokens :
           /\ locks' = [locks EXCEPT ![p] = t]
           /\ forms' = open \cup {Form(p, t, page)}
    BY <1>3 DEF SendLocked
  <2> QED
    BY <2>1, <1>1, <1>2, FormsAssumption DEF TypeOK
<1>4. CASE SendFails(p, page, open)
  <2>1. locks' = [locks EXCEPT ![p] = NoToken]
    BY <1>4 DEF SendFails, Unlocked
  <2>2. CASE forms' = open
    BY <2>1, <2>2 DEF TypeOK
  <2>3. CASE \E t \in FreshTokens : forms' = open \cup {Form(p, t, page)}
    BY <2>1, <2>3, <1>2 DEF TypeOK
  <2> QED
    BY <1>4, <2>2, <2>3 DEF SendFails
<1> QED
  BY <1>3, <1>4 DEF Show

\* An answer to a form: the lock is released, or passes to the next page.
LEMMA Proceeding ==
    ASSUME TypeOK, LockHasForm, NEW f \in forms, NEW o, Proceed(f, o),
           o \in Choices(f.page) \cup {Closing(f.page)}
    PROVE  /\ TypeOK' /\ LockHasForm'
           /\ \A p \in Players : dispatched'[p] \in Writes =>
                 /\ p \in allowed \ dead
                 /\ Confirming(p, dispatched'[p])
                 /\ locks'[p] # locks[p]
<1> DEFINE p == f.player
<1>1. f \in FormRecords /\ p \in Players /\ f.page \in Pages /\ f.token \in Tokens
  BY DEF TypeOK, FormRecords
<1>2. /\ o.run \in Writes \cup {Nothing, Read}
      /\ o.show \subseteq Pages
      /\ o.run \in Writes => f.page.name \in Confirmations /\ o.run = f.page.write
  BY <1>1, OutcomesOfPages
<1>3. /\ locks[p] = f.token
      /\ dead' = dead /\ allowed' = allowed
  BY DEF Proceed, Holds
<1>4. PICK open \in Answered(f) :
         \/ NoFurther(f, o, open)
         \/ /\ p \in allowed \ dead
            /\ \E page \in o.show : Show(p, page, open)
            /\ dispatched' = [[q \in Players |-> Nothing] EXCEPT ![p] = o.run]
  BY DEF Proceed
<1>5. open \in SUBSET forms /\ forms \ {f} \subseteq open
  BY <1>4 DEF Answered
<1>6. \/ dispatched' = [q \in Players |-> Nothing]
      \/ /\ p \in allowed \ dead
         /\ dispatched' = [[q \in Players |-> Nothing] EXCEPT ![p] = o.run]
  BY <1>4 DEF NoFurther, Quiet
<1>7. /\ \A q \in Players \ {p} : locks'[q] = locks[q]
      /\ locks' \in [Players -> Tokens \cup {NoToken}]
      /\ forms' \in SUBSET FormRecords
      /\ open \subseteq forms'
      /\ \A g, h \in forms' : g.token = h.token => g = h
      /\ locks'[p] # NoToken =>
            /\ \E g \in forms' : g.player = p /\ g.token = locks'[p]
            /\ locks'[p] # locks[p]
  <2>1. CASE NoFurther(f, o, open)
    BY <2>1, <1>1, <1>5 DEF NoFurther, Unlocked, TypeOK
  <2>2. CASE \E page \in o.show : Show(p, page, open)
    BY <2>2, <1>1, <1>2, <1>5, Showing
  <2> QED
    BY <1>4, <2>1, <2>2
<1>8. locks'[p] # locks[p]
  BY <1>1, <1>3, <1>7, FormsAssumption
<1>9. dispatched' \in [Players -> Writes \cup {Nothing, Read}]
  BY <1>1, <1>2, <1>6
<1>10. TypeOK'
  BY <1>3, <1>7, <1>9 DEF TypeOK
<1>11. LockHasForm'
  <2> SUFFICES ASSUME NEW q \in Players, locks'[q] # NoToken
               PROVE  \E g \in forms' : g.player = q /\ g.token = locks'[q]
    BY DEF LockHasForm
  <2>1. CASE q = p
    BY <2>1, <1>7
  <2>2. CASE q # p
    <3>1. PICK g \in forms : g.player = q /\ g.token = locks[q]
      BY <2>2, <1>7 DEF LockHasForm
    <3>2. g \in forms'
      BY <3>1, <2>2, <1>5, <1>7
    <3> QED
      BY <3>1, <3>2, <2>2, <1>7
  <2> QED
    BY <2>1, <2>2
<1>12. ASSUME NEW q \in Players, dispatched'[q] \in Writes
       PROVE  /\ q \in allowed \ dead
              /\ Confirming(q, dispatched'[q])
              /\ locks'[q] # locks[q]
  <2>1. q = p /\ dispatched'[q] = o.run /\ p \in allowed \ dead
    BY <1>6, <1>12, FormsAssumption
  <2>2. Confirming(p, o.run)
    BY <2>1, <1>2, <1>3, <1>12 DEF Confirming
  <2> QED
    BY <2>1, <2>2, <1>8
<1> QED
  BY <1>10, <1>11, <1>12

\* Every other step keeps the invariant and dispatches nothing.
LEMMA OtherSteps ==
    ASSUME TypeOK, LockHasForm,
           \/ \E p \in Players :
                 \/ Command(p) \/ CommandWhileDead(p)
                 \/ Dies(p) \/ DeathEvent(p) \/ Respawns(p)
                 \/ Quit(p) \/ PermissionChanges(p)
           \/ \E f \in forms : Ignored(f)
           \/ Reload
    PROVE  TypeOK' /\ LockHasForm' /\ Quiet
<1> USE FormsAssumption DEF TypeOK, LockHasForm, Quiet, Unlocked
<1>1. ASSUME NEW p \in Players, Command(p)
      PROVE  TypeOK' /\ LockHasForm' /\ Quiet
  <2>1. Page("main") \in Pages
    BY DEF Page, Pages, Names, Confirmations, Parent
  <2>2. Show(p, Page("main"), forms) /\ Quiet /\ dead' = dead /\ allowed' = allowed
    BY <1>1 DEF Command
  <2>3. /\ \A q \in Players \ {p} : locks'[q] = locks[q]
        /\ locks' \in [Players -> Tokens \cup {NoToken}]
        /\ forms' \in SUBSET FormRecords
        /\ forms \subseteq forms'
        /\ \A f, g \in forms' : f.token = g.token => f = g
        /\ locks'[p] # NoToken =>
              \E f \in forms' : f.player = p /\ f.token = locks'[p]
    BY <2>1, <2>2, Showing
  <2> QED
    BY <2>2, <2>3
<1>2. ASSUME NEW p \in Players, CommandWhileDead(p)
      PROVE  TypeOK' /\ LockHasForm' /\ Quiet
  BY <1>2 DEF CommandWhileDead
<1>3. ASSUME NEW p \in Players, Dies(p)
      PROVE  TypeOK' /\ LockHasForm' /\ Quiet
  BY <1>3 DEF Dies
<1>4. ASSUME NEW p \in Players, DeathEvent(p)
      PROVE  TypeOK' /\ LockHasForm' /\ Quiet
  BY <1>4 DEF DeathEvent
<1>5. ASSUME NEW p \in Players, Respawns(p)
      PROVE  TypeOK' /\ LockHasForm' /\ Quiet
  BY <1>5 DEF Respawns
<1>6. ASSUME NEW p \in Players, Quit(p)
      PROVE  TypeOK' /\ LockHasForm' /\ Quiet
  <2>1. /\ locks' = [locks EXCEPT ![p] = NoToken]
        /\ forms' \subseteq forms
        /\ \A f \in forms : f.player # p => f \in forms'
        /\ Quiet /\ dead' = dead /\ allowed' = allowed
    BY <1>6 DEF Quit, OfPlayer
  <2> QED
    BY <2>1
<1>7. ASSUME NEW p \in Players, PermissionChanges(p)
      PROVE  TypeOK' /\ LockHasForm' /\ Quiet
  BY <1>7 DEF PermissionChanges
<1>8. ASSUME NEW f \in forms, Ignored(f)
      PROVE  TypeOK' /\ LockHasForm' /\ Quiet
  BY <1>8 DEF Ignored, Holds
<1>9. CASE Reload
  BY <1>9 DEF Reload
<1> QED
  BY <1>1, <1>2, <1>3, <1>4, <1>5, <1>6, <1>7, <1>8, <1>9

LEMMA Inductive ==
    ASSUME TypeOK, LockHasForm, [Next]_vars
    PROVE  TypeOK' /\ LockHasForm'
<1>1. CASE \E f \in forms : Answer(f)
  BY <1>1, Proceeding DEF Answer, Submit, Close
<1>2. CASE vars' = vars
  BY <1>2 DEF vars, TypeOK, LockHasForm
<1> QED
  BY <1>1, <1>2, OtherSteps DEF Next

\* The types of the plugin's state, and that no two forms share a token.
THEOREM FormsTypeCorrect == Spec => []TypeOK
<1>1. Init => TypeOK /\ LockHasForm
  BY InitIsTyped, FormsAssumption DEF Init, LockHasForm
<1> QED
  BY <1>1, Inductive, PTL DEF Spec

(***************************************************************************)
(* A lock is never retained without a form that can still release it:      *)
(* neither callbacks, deaths, reconnects, reloads nor failed sends of any  *)
(* number of players can bring that about.                                 *)
(***************************************************************************)
THEOREM LocksHaveForms == Spec => []LockHasForm
<1>1. Init => TypeOK /\ LockHasForm
  BY InitIsTyped, FormsAssumption DEF Init, LockHasForm
<1> QED
  BY <1>1, Inductive, PTL DEF Spec

(***************************************************************************)
(* No write without its confirmation, and none repeated: for any number of *)
(* players and of forms left over on their clients.                        *)
(***************************************************************************)
THEOREM WritesAreConfirmed == Spec => ConfirmedWritesOnly
<1>1. ASSUME TypeOK, LockHasForm, [Next]_vars
      PROVE  [\A p \in Players : dispatched'[p] \in Writes =>
                 /\ p \in allowed \ dead
                 /\ Confirming(p, dispatched'[p])
                 /\ locks'[p] # locks[p]]_vars
  <2>1. CASE \E f \in forms : Answer(f)
    BY <1>1, <2>1, Proceeding DEF Answer, Submit, Close
  <2>2. CASE vars' = vars
    BY <2>2
  <2>3. CASE Quiet
    BY <2>3, FormsAssumption DEF Quiet
  <2> QED
    BY <1>1, <2>1, <2>2, <2>3, OtherSteps DEF Next
<1> QED
  BY <1>1, FormsTypeCorrect, LocksHaveForms, PTL DEF Spec, ConfirmedWritesOnly
=============================================================================
