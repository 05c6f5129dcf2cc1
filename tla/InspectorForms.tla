--------------------------- MODULE InspectorForms ---------------------------
(***************************************************************************)
(* The forms of the inspector plugin.  A player walks through menu pages;  *)
(* each page is a form sent to the client, whose callbacks carry a token.  *)
(* active_forms maps a player to the token of the one form that may act;   *)
(* a callback that does not hold it is ignored.  Callbacks come whenever   *)
(* the client answers: late, again, after a death, a quit or a reload.     *)
(*                                                                         *)
(* Pages whose forms differ only in the controls they show are one page    *)
(* here (with and without coordinates, start and stop of an audit).        *)
(***************************************************************************)
EXTENDS Naturals, FiniteSets

CONSTANTS
    Players,      \* senders, by _sender_key
    Writes,       \* the arguments of commands that write live data
    Tokens,       \* uuid4 values
    NoToken,      \* the player holds no form lock
    NoWrite,      \* a page that asks for no write to be confirmed
    Nothing,      \* no command was dispatched
    Read,         \* a command that only reads: locate, inspect, audit, help
    MaxForms      \* bound: forms of a player whose callbacks may still come

ASSUME FormsAssumption ==
    /\ NoToken \notin Tokens
    /\ NoWrite \notin Writes
    /\ {Nothing, Read} \cap Writes = {}
    /\ MaxForms \in Nat

VARIABLES
    locks,        \* active_forms, [Players -> Tokens \cup {NoToken}]
    forms,        \* the forms clients may still answer
    dead,         \* players that are dead
    allowed,      \* players with the permission bd.admin
    dispatched    \* what the last step dispatched, for each player

vars == <<locks, forms, dead, allowed, dispatched>>

-----------------------------------------------------------------------------
(***************************************************************************)
(* The pages and what an answer to each of them leads to: a command to     *)
(* dispatch, if any, and the page shown afterwards.                        *)
(***************************************************************************)
Parent == [locate       |-> "main",
           inspect      |-> "main",
           inspect_at   |-> "inspect",
           inventory    |-> "main",
           item_add     |-> "inventory",
           item_remove  |-> "inventory",
           confirm_item |-> "inventory",
           audit        |-> "main",
           audit_at     |-> "audit",
           state        |-> "main",
           state_set    |-> "state",
           confirm_set  |-> "state"]

Names == {"main"} \cup DOMAIN Parent

\* The buttons that lead to another page.
Buttons == [n \in Names |->
    CASE n = "main"      -> {"locate", "inspect", "inventory", "audit", "state"}
      [] n = "inspect"   -> {"inspect_at", "main"}
      [] n = "inventory" -> {"item_add", "item_remove", "main"}
      [] n = "audit"     -> {"audit_at", "main"}
      [] n = "state"     -> {"state_set", "main"}
      [] OTHER           -> {}]

\* Commands that read, by the page they are given on, and the page after it.
Reads == [main       |-> "main",
          locate     |-> "main",
          inspect    |-> "inspect",
          inspect_at |-> "inspect",
          audit      |-> "audit",
          audit_at   |-> "audit"]

\* The page on which values entered for a write are to be confirmed.
Review == [item_add    |-> "confirm_item",
           item_remove |-> "confirm_item",
           state_set   |-> "confirm_set"]

Confirmations == {"confirm_item", "confirm_set"}

Pages == [name : Names \ Confirmations, write : {NoWrite}]
            \cup [name : Confirmations, write : Writes]

Page(name) == [name |-> name, write |-> NoWrite]

Outcome(command, page) == [run |-> command, show |-> {page}]

Leave == [run |-> Nothing, show |-> {}]

\* An answer that is not valid shows the page again.
Invalid(page) == {Outcome(Nothing, page)}

Choices(page) ==
    LET n == page.name
    IN  Invalid(page)
        \cup {Outcome(Nothing, Page(b)) : b \in Buttons[n]}
        \cup {Outcome(Read, Page(Reads[m])) : m \in {n} \cap DOMAIN Reads}
        \cup {Outcome(Nothing, [name |-> Review[m], write |-> w]) :
                 m \in {n} \cap DOMAIN Review, w \in Writes}
        \cup {Outcome(c, Page(Parent[m])) :
                 m \in {n} \cap Confirmations, c \in {page.write, Nothing}}
        \cup (IF n = "main" THEN {Leave} ELSE {})

\* Closing a page goes back to its parent, if it has one.
Closing(page) ==
    IF page.name = "main" THEN Leave ELSE Outcome(Nothing, Page(Parent[page.name]))

-----------------------------------------------------------------------------
Init ==
    /\ locks = [p \in Players |-> NoToken]
    /\ forms = {}
    /\ dead = {}
    /\ allowed \in SUBSET Players
    /\ dispatched = [p \in Players |-> Nothing]

Unlocked(p) == [locks EXCEPT ![p] = NoToken]

Quiet == dispatched' = [p \in Players |-> Nothing]

OfPlayer(p, open) == {f \in open : f.player = p}

\* Mutant: a token may come back while a form still carries it.
FreshTokensUnlocked == Tokens \ {locks[p] : p \in Players}

\* uuid4: a token no lock and no form carries.
FreshTokens ==
    Tokens \ ({locks[p] : p \in Players} \cup {f.token : f \in forms})

Form(p, t, page) == [player |-> p, token |-> t, page |-> page]

\* Mutant: the lock of a form that could not be sent is kept.
SendFailsLocked(p, page, open) ==
    \E t \in FreshTokens :
       /\ locks' = [locks EXCEPT ![p] = t]
       /\ forms' = open

(***************************************************************************)
(* _send_locked_form fails: the permission cannot be verified, or building *)
(* or sending the form raises, before or after the client has it.          *)
(***************************************************************************)
SendFails(p, page, open) ==
    /\ locks' = Unlocked(p)
    /\ \/ forms' = open
       \/ \E t \in FreshTokens :
             /\ Cardinality(OfPlayer(p, open)) < MaxForms
             /\ forms' = open \cup {Form(p, t, page)}

SendLocked(p, page, open) ==
    \E t \in FreshTokens :
       /\ Cardinality(OfPlayer(p, open)) < MaxForms
       /\ locks' = [locks EXCEPT ![p] = t]
       /\ forms' = open \cup {Form(p, t, page)}

\* _send_locked_form for a player without a lock, "open" being the forms
\* clients may still answer at that time.
Show(p, page, open) == SendLocked(p, page, open) \/ SendFails(p, page, open)

\* /bd in the chat: refused while a form is open.
Command(p) ==
    /\ p \in allowed \ dead
    /\ locks[p] = NoToken
    /\ Show(p, Page("main"), forms)
    /\ Quiet
    /\ UNCHANGED <<dead, allowed>>

\* A dead player is refused a form, and loses the lock.
CommandWhileDead(p) ==
    /\ p \in allowed \cap dead
    /\ locks' = Unlocked(p)
    /\ Quiet
    /\ UNCHANGED <<forms, dead, allowed>>

\* Mutant: the lock is taken from whichever form holds it.
HoldsAny(f) == locks[f.player] # NoToken

Holds(f) == locks[f.player] = f.token

\* An answered form is gone, or its callbacks can be called once more.
Answered(f) == {forms \ {f}, forms}

\* A callback that does not hold the lock does nothing.
Ignored(f) ==
    /\ ~Holds(f)
    /\ forms' = forms \ {f}
    /\ Quiet
    /\ UNCHANGED <<locks, dead, allowed>>

\* Released, but the player may not act, or the action raises before or
\* after the command was dispatched.
NoFurther(f, outcome, open) ==
    /\ locks' = Unlocked(f.player)
    /\ forms' = open
    /\ \/ Quiet
       \/ /\ f.player \in allowed \ dead
          /\ dispatched' = [[p \in Players |-> Nothing]
                               EXCEPT ![f.player] = outcome.run]

\* _run_form_action and _close_form: release, check, act.
Proceed(f, outcome) ==
    /\ Holds(f)
    /\ \E open \in Answered(f) :
          \/ NoFurther(f, outcome, open)
          \/ /\ f.player \in allowed \ dead
             /\ \E page \in outcome.show : Show(f.player, page, open)
             /\ dispatched' = [[p \in Players |-> Nothing]
                                  EXCEPT ![f.player] = outcome.run]
    /\ UNCHANGED <<dead, allowed>>

Submit(f) == \E outcome \in Choices(f.page) : Proceed(f, outcome)

Close(f) == Proceed(f, Closing(f.page))

\* The player dies; the event that tells the plugin follows.
Dies(p) ==
    /\ p \notin dead
    /\ dead' = dead \cup {p}
    /\ Quiet
    /\ UNCHANGED <<locks, forms, allowed>>

DeathEvent(p) ==
    /\ p \in dead
    /\ locks' = Unlocked(p)
    /\ Quiet
    /\ UNCHANGED <<forms, dead, allowed>>

Respawns(p) ==
    /\ p \in dead
    /\ dead' = dead \ {p}
    /\ Quiet
    /\ UNCHANGED <<locks, forms, allowed>>

\* Mutant: the lock of a player who leaves is kept.
QuitKeepsLock(p) ==
    /\ \E open \in {forms, forms \ OfPlayer(p, forms)} : forms' = open
    /\ Quiet
    /\ UNCHANGED <<locks, dead, allowed>>

\* The player leaves (and may come back); the client's forms are gone, or
\* their callbacks are still called for a replacement of the player.
Quit(p) ==
    /\ locks' = Unlocked(p)
    /\ \E open \in {forms, forms \ OfPlayer(p, forms)} : forms' = open
    /\ Quiet
    /\ UNCHANGED <<dead, allowed>>

PermissionChanges(p) ==
    /\ allowed' = IF p \in allowed THEN allowed \ {p} ELSE allowed \cup {p}
    /\ Quiet
    /\ UNCHANGED <<locks, forms, dead>>

\* on_disable, and on_enable after it.
Reload ==
    /\ locks' = [p \in Players |-> NoToken]
    /\ Quiet
    /\ UNCHANGED <<forms, dead, allowed>>

Answer(f) == Submit(f) \/ Close(f)

Next ==
    \/ \E p \in Players :
          \/ Command(p) \/ CommandWhileDead(p)
          \/ Dies(p) \/ DeathEvent(p) \/ Respawns(p)
          \/ Quit(p) \/ PermissionChanges(p)
    \/ \E f \in forms : Answer(f) \/ Ignored(f)
    \/ Reload

Spec == Init /\ [][Next]_vars

\* The client answers the form on its screen, by a submission or by closing.
AnswersLiveForm(p) == \E f \in forms : f.player = p /\ Answer(f)

FairSpec == Spec /\ \A p \in Players : WF_vars(AnswersLiveForm(p))

-----------------------------------------------------------------------------
FormRecords == [player : Players, token : Tokens, page : Pages]

\* The types; a token is carried by one form only.
TypeOK ==
    /\ locks \in [Players -> Tokens \cup {NoToken}]
    /\ forms \in SUBSET FormRecords
    /\ \A f, g \in forms : f.token = g.token => f = g
    /\ dead \subseteq Players
    /\ allowed \subseteq Players
    /\ dispatched \in [Players -> Writes \cup {Nothing, Read}]

(***************************************************************************)
(* "Stale callbacks, permission loss, disconnect, death, plugin shutdown,  *)
(* and form-send failures cannot retain a lock" (README of the plugin): a  *)
(* lock is only ever held for a form this player can still answer.         *)
(***************************************************************************)
LockHasForm ==
    \A p \in Players : locks[p] # NoToken =>
       \E f \in forms : f.player = p /\ f.token = locks[p]

(***************************************************************************)
(* "... or repeat an action", and "item or state writes require a separate *)
(* confirmation": a write is dispatched only for a living player with the  *)
(* permission who answers the one form that holds the lock, and only if    *)
(* that form asked for exactly this write to be confirmed; whatever forms  *)
(* from before a death, a reconnect or a reload are answered, and however  *)
(* often.                                                                  *)
(***************************************************************************)
Confirming(p, w) ==
    \E f \in forms : /\ f.player = p
                     /\ f.token = locks[p]
                     /\ f.page.name \in Confirmations
                     /\ f.page.write = w

ConfirmedWritesOnly ==
    [][\A p \in Players : dispatched'[p] \in Writes =>
          /\ p \in allowed \ dead
          /\ Confirming(p, dispatched'[p])
          /\ locks'[p] # locks[p]]_vars

(***************************************************************************)
(* As long as clients answer the forms on their screens, no form keeps the *)
(* lock for ever: it is released or passes to the next page's form.        *)
(***************************************************************************)
LockMovesOn ==
    \A p \in Players : \A t \in Tokens : locks[p] = t ~> locks[p] # t
=============================================================================
