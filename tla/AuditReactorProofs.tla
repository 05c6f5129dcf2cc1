------------------------- MODULE AuditReactorProofs -------------------------
(***************************************************************************)
(* Proofs about AuditReactor, for any number of threads and locations and  *)
(* blocks that go through any number of states.                            *)
(*                                                                         *)
(* NoChangeUnaccounted is not inductive by itself: an inspection that has  *)
(* read its baseline will make a later position the new one, and only the  *)
(* states between the two are in its delta.  It becomes inductive with the *)
(* fact that everything up to a baseline in use is accounted for, which    *)
(* lasts because nothing is ever taken out of the account.                 *)
(***************************************************************************)
EXTENDS AuditReactor, TLAPS

BaselinesAccounted ==
    \A t \in Threads : calls[t].op = "inspect" =>
       1..calls[t].before \subseteq accounted[calls[t].location]

Inv == TypeOK /\ NoChangeUnaccounted /\ BaselinesAccounted

\* The difference of two snapshots is a delta.
LEMMA DiffType ==
    ASSUME NEW a \in Snapshot, NEW b \in Snapshot
    PROVE  Diff(a, b) \in Delta
<1> DEFINE changed == {n \in Slots : a.inventory[n] # b.inventory[n]}
<1> DEFINE change(n) ==
      [slot |-> n, kind |-> Kind(a.inventory[n], b.inventory[n]),
       before |-> a.inventory[n], after |-> b.inventory[n]]
<1> DEFINE Changes == [slot : Slots, kind : {"added", "removed", "changed"},
                       before : Items \cup {NoItem}, after : Items \cup {NoItem}]
<1>1. /\ a.inventory \in [Slots -> Items \cup {NoItem}]
      /\ b.inventory \in [Slots -> Items \cup {NoItem}]
  BY DEF Snapshot
<1>2. ASSUME NEW n \in changed PROVE change(n) \in Changes
  <2>1. Kind(a.inventory[n], b.inventory[n]) \in {"added", "removed", "changed"}
    BY DEF Kind
  <2> QED BY <1>1, <2>1
<1>3. {change(n) : n \in changed} \in SUBSET Changes
  BY <1>2
<1>4. /\ (a.block # b.block) \in BOOLEAN
      /\ (a.actor # b.actor) \in BOOLEAN
  OBVIOUS
<1> QED BY <1>3, <1>4 DEF Diff, Delta

LEMMA IdleType == Idle \in Call
<1>1. (CHOOSE l \in Locations : TRUE) \in Locations
  BY ReactorAssumption DEF ReactorAssumption
<1>2. NoDelta \in Delta
  BY DEF NoDelta, Delta
<1> QED BY <1>1, <1>2 DEF Idle, Call

-----------------------------------------------------------------------------
LEMMA InitInv == Init => Inv
<1> SUFFICES ASSUME Init PROVE Inv
  OBVIOUS
<1>1. history \in [Locations -> Seq(Snapshot) \ {<<>>}]
  <2>1. \A s \in Snapshot : <<s>> \in Seq(Snapshot) /\ <<s>> # <<>>
    OBVIOUS
  <2>2. {<<s>> : s \in Snapshot} \subseteq Seq(Snapshot) \ {<<>>}
    BY <2>1
  <2> QED BY <2>2 DEF Init
<1>2. \A l \in Locations : Current(l) = 1
  BY DEF Init, Current
<1>3. TypeOK
  <2>1. calls \in [Threads -> Call]
    BY IdleType DEF Init
  <2>2. \A l \in Locations : armed[l] <= Current(l) /\ accounted[l] \subseteq 1..Current(l)
    BY <1>2 DEF Init
  <2>3. armed \in [Locations -> Nat] /\ accounted \in [Locations -> SUBSET Nat]
    BY DEF Init
  <2>4. ASSUME NEW t \in Threads
        PROVE  /\ calls[t] = Idle
               /\ calls[t].op = "idle"
               /\ calls[t].before <= Current(calls[t].location)
               /\ calls[t].after <= Current(calls[t].location)
    <3>1. calls[t] = Idle
      BY DEF Init
    <3>2. Idle.location \in Locations
      BY IdleType DEF Call
    <3>3. Idle.before = 0 /\ Idle.after = 0 /\ Idle.op = "idle"
      BY DEF Idle
    <3> QED BY <3>1, <3>2, <3>3, <1>2
  <2> QED BY <1>1, <2>1, <2>2, <2>3, <2>4 DEF TypeOK
<1>4. NoChangeUnaccounted
  BY DEF Init, NoChangeUnaccounted
<1>5. BaselinesAccounted
  BY DEF Init, BaselinesAccounted, Idle
<1> QED BY <1>3, <1>4, <1>5 DEF Inv

\* What the steps have in common: positions keep their meaning.
LEMMA PositionsGrow ==
    ASSUME TypeOK, NEW l \in Locations, Change(l)
    PROVE  /\ history' \in [Locations -> Seq(Snapshot) \ {<<>>}]
           /\ \A k \in Locations : Current(k) \in Nat /\ Current(k)' \in Nat
                                    /\ Current(k) <= Current(k)'
<1>1. PICK s \in Snapshot : history' = [history EXCEPT ![l] = Append(@, s)]
  BY DEF Change
<1>2. \A k \in Locations : history[k] \in Seq(Snapshot) /\ history[k] # <<>>
  BY DEF TypeOK
<1>3. Append(history[l], s) \in Seq(Snapshot) /\ Append(history[l], s) # <<>>
      /\ Len(Append(history[l], s)) = Len(history[l]) + 1
  BY <1>2
<1>4. history' \in [Locations -> Seq(Snapshot) \ {<<>>}]
  BY <1>1, <1>3 DEF TypeOK
<1>5. ASSUME NEW k \in Locations
      PROVE  Current(k) \in Nat /\ Current(k)' \in Nat /\ Current(k) <= Current(k)'
  <2>1. Len(history[k]) \in Nat
    BY <1>2
  <2>2. CASE k = l
    BY <2>1, <2>2, <1>1, <1>3 DEF Current, TypeOK
  <2>3. CASE k # l
    BY <2>1, <2>3, <1>1 DEF Current, TypeOK
  <2> QED BY <2>2, <2>3
<1> QED BY <1>4, <1>5

-----------------------------------------------------------------------------
(***************************************************************************)
(* The part of TypeOK that is about one call, so that a step of one thread *)
(* has only its own call to account for.                                   *)
(***************************************************************************)
CallOK(c) ==
    /\ c \in Call
    /\ c.op = "idle" => c = Idle
    /\ c.op = "arm" => c.after # 0
    /\ c.op = "inspect" => c.before # 0
    /\ c.before <= Current(c.location)
    /\ c.after <= Current(c.location)

LEMMA CallsOK ==
    ASSUME TypeOK, NEW t \in Threads
    PROVE  CallOK(calls[t])
BY DEF TypeOK, CallOK

LEMMA PositionsNat ==
    ASSUME TypeOK, NEW l \in Locations
    PROVE  /\ Current(l) \in Nat \ {0}
           /\ history[l] \in Seq(Snapshot)
<1>1. history[l] \in Seq(Snapshot) /\ history[l] # <<>>
  BY DEF TypeOK
<1>2. Len(history[l]) \in Nat /\ Len(history[l]) # 0
  BY <1>1
<1> QED BY <1>1, <1>2 DEF Current

LEMMA IdleOK == ASSUME TypeOK PROVE CallOK(Idle)
<1>1. Idle \in Call /\ Idle.location \in Locations
  BY IdleType DEF Call
<1>2. Idle.op = "idle" /\ Idle.before = 0 /\ Idle.after = 0
  BY DEF Idle
<1>3. Current(Idle.location) \in Nat
  BY <1>1, PositionsNat
<1> QED BY <1>1, <1>2, <1>3 DEF CallOK

\* A step of thread t that leaves the world alone.
LEMMA ThreadStepType ==
    ASSUME TypeOK, UNCHANGED history, NEW t \in Threads, NEW c,
           calls' = [calls EXCEPT ![t] = c], CallOK(c),
           armed' \in [Locations -> Nat],
           accounted' \in [Locations -> SUBSET Nat],
           \A l \in Locations : /\ armed'[l] <= Current(l)
                                 /\ accounted'[l] \subseteq 1..Current(l)
    PROVE  TypeOK'
<1>1. \A l \in Locations : Current(l)' = Current(l)
  BY DEF Current
<1>2. calls' \in [Threads -> Call]
  BY DEF TypeOK, CallOK
<1>3. ASSUME NEW u \in Threads PROVE CallOK(calls'[u])
  <2>1. CASE u = t
    BY <2>1 DEF TypeOK
  <2>2. CASE u # t
    BY <2>2, CallsOK DEF TypeOK
  <2> QED BY <2>1, <2>2
<1>4. ASSUME NEW u \in Threads
      PROVE  /\ calls'[u].op = "idle" => calls'[u] = Idle
             /\ calls'[u].op = "arm" => calls'[u].after # 0
             /\ calls'[u].op = "inspect" => calls'[u].before # 0
             /\ calls'[u].before <= Current(calls[u].location)'
             /\ calls'[u].after <= Current(calls[u].location)'
  <2>1. calls'[u].location \in Locations
    BY <1>2 DEF Call
  <2>2. CallOK(calls'[u])
    BY <1>3
  <2>3. /\ calls'[u].before <= Len(history[calls'[u].location])
        /\ calls'[u].after <= Len(history[calls'[u].location])
    BY <2>2 DEF CallOK, Current
  <2>4. /\ calls'[u].before <= Len(history'[calls'[u].location])
        /\ calls'[u].after <= Len(history'[calls'[u].location])
    BY <2>3
  <2> QED BY <2>2, <2>4 DEF CallOK, Current
<1> QED BY <1>1, <1>2, <1>4 DEF TypeOK, Current

LEMMA ChangeType ==
    ASSUME TypeOK, NEW here \in Locations, Change(here)
    PROVE  TypeOK'
<1>1. UNCHANGED <<armed, calls, accounted>>
  BY DEF Change
<1>2. /\ history' \in [Locations -> Seq(Snapshot) \ {<<>>}]
      /\ \A k \in Locations : /\ Current(k) \in Nat
                               /\ Current(k)' \in Nat
                               /\ Current(k) <= Current(k)'
  BY PositionsGrow
<1>3. ASSUME NEW k \in Locations
      PROVE  armed'[k] <= Current(k)' /\ accounted'[k] \subseteq 1..Current(k)'
  <2>1. armed[k] \in Nat /\ armed[k] <= Current(k) /\ accounted[k] \subseteq 1..Current(k)
    BY DEF TypeOK
  <2> QED BY <1>1, <1>2, <2>1
<1>4. ASSUME NEW t \in Threads
      PROVE  (/\ calls[t].before <= Current(calls[t].location)
              /\ calls[t].after <= Current(calls[t].location))'
  <2>1. calls[t].location \in Locations /\ calls[t].before \in Nat /\ calls[t].after \in Nat
    BY DEF TypeOK, Call
  <2>2. calls[t].before <= Current(calls[t].location) /\ calls[t].after <= Current(calls[t].location)
    BY DEF TypeOK
  <2>3. \A k \in Locations : Len(history[k]) \in Nat /\ Len(history'[k]) \in Nat
                             /\ Len(history[k]) <= Len(history'[k])
    BY <1>2 DEF Current
  <2>4. \A k \in Locations, n \in Nat : n <= Len(history[k]) => n <= Len(history'[k])
    BY <2>3
  <2>5. calls[t].before <= Len(history[calls[t].location])
        /\ calls[t].after <= Len(history[calls[t].location])
    BY <2>2 DEF Current
  <2>6. calls[t].before <= Len(history'[calls[t].location])
        /\ calls[t].after <= Len(history'[calls[t].location])
    BY <2>1, <2>4, <2>5
  <2> QED BY <1>1, <2>6 DEF Current
<1>5. calls' \in [Threads -> Call] /\ armed' \in [Locations -> Nat]
      /\ accounted' \in [Locations -> SUBSET Nat]
  BY <1>1 DEF TypeOK
<1>6. ASSUME NEW t \in Threads
      PROVE  (/\ calls[t].op = "idle" => calls[t] = Idle
              /\ calls[t].op = "arm" => calls[t].after # 0
              /\ calls[t].op = "inspect" => calls[t].before # 0)'
  BY <1>1 DEF TypeOK
<1>7. history' \in [Locations -> Seq(Snapshot) \ {<<>>}]
  BY <1>2
<1> QED BY <1>3, <1>4, <1>5, <1>6, <1>7 DEF TypeOK, Current

\* A step that leaves the world and the calls alone.
LEMMA ForgettingType ==
    ASSUME TypeOK, UNCHANGED <<history, calls, accounted>>,
           armed' \in [Locations -> Nat],
           \A l \in Locations : armed'[l] \in {0, armed[l]}
    PROVE  TypeOK'
<1>1. \A l \in Locations : armed'[l] <= Current(l)'
  <2>1. \A l \in Locations : armed[l] <= Current(l) /\ Current(l) \in Nat
    BY PositionsNat DEF TypeOK
  <2> QED BY <2>1 DEF Current
<1> QED BY <1>1 DEF TypeOK, Current

LEMMA TypePreserved == TypeOK /\ [Next]_vars => TypeOK'
<1> SUFFICES ASSUME TypeOK, [Next]_vars PROVE TypeOK'
  OBVIOUS
<1> DEFINE kept == /\ armed \in [Locations -> Nat]
                   /\ accounted \in [Locations -> SUBSET Nat]
                   /\ \A l \in Locations : /\ armed[l] <= Current(l)
                                            /\ accounted[l] \subseteq 1..Current(l)
<1>1. kept
  BY DEF TypeOK
<1>2. ASSUME NEW t \in Threads, NEW l \in Locations, ArmCapture(t, l)
      PROVE  TypeOK'
  <2> DEFINE c == [Idle EXCEPT !.op = "arm", !.location = l, !.after = Current(l)]
  <2>1. /\ c.op = "arm" /\ c.location = l /\ c.after = Current(l) /\ c.before = 0
        /\ c \in Call
    <3>1. Current(l) \in Nat
      BY PositionsNat
    <3> QED BY <3>1, IdleType DEF Idle, Call
  <2>2. CallOK(c)
    BY <2>1, PositionsNat DEF CallOK
  <2>3. /\ calls' = [calls EXCEPT ![t] = c]
        /\ UNCHANGED <<history, armed, accounted>>
    BY <1>2 DEF ArmCapture
  <2> QED BY <1>1, <2>2, <2>3, ThreadStepType
<1>3. ASSUME NEW t \in Threads, ArmStore(t)
      PROVE  TypeOK'
  <2> DEFINE l == calls[t].location
             n == calls[t].after
  <2>1. l \in Locations /\ n \in Nat /\ n <= Current(l)
    BY CallsOK DEF CallOK, Call
  <2>2. /\ armed' = [armed EXCEPT ![l] = n]
        /\ accounted' = [accounted EXCEPT ![l] = @ \cup 1..n]
        /\ calls' = [calls EXCEPT ![t] = Idle]
        /\ UNCHANGED history
    BY <1>3 DEF ArmStore
  <2>3. 1..n \subseteq 1..Current(l)
    BY <2>1, PositionsNat
  <2>4. armed' \in [Locations -> Nat] /\ accounted' \in [Locations -> SUBSET Nat]
    BY <1>1, <2>1, <2>2
  <2>5. \A k \in Locations : armed'[k] <= Current(k) /\ accounted'[k] \subseteq 1..Current(k)
    BY <1>1, <2>1, <2>2, <2>3
  <2> QED BY <2>2, <2>4, <2>5, IdleOK, ThreadStepType
<1>4. ASSUME NEW t \in Threads, NEW l \in Locations, NEW rearm \in BOOLEAN,
             InspectRead(t, l, rearm)
      PROVE  TypeOK'
  <2> DEFINE c == [Idle EXCEPT !.op = "inspect", !.location = l, !.rearm = rearm,
                               !.before = armed[l]]
  <2>1. /\ c.op = "inspect" /\ c.location = l /\ c.after = 0 /\ c.before = armed[l]
        /\ c \in Call
    <3>1. armed[l] \in Nat
      BY DEF TypeOK
    <3> QED BY <3>1, IdleType DEF Idle, Call
  <2>2. armed[l] # 0 /\ armed[l] <= Current(l)
    BY <1>4 DEF InspectRead, TypeOK
  <2>3. CallOK(c)
    BY <2>1, <2>2, PositionsNat DEF CallOK
  <2>4. /\ calls' = [calls EXCEPT ![t] = c]
        /\ UNCHANGED <<history, armed, accounted>>
    BY <1>4 DEF InspectRead
  <2> QED BY <1>1, <2>3, <2>4, ThreadStepType
<1>5. ASSUME NEW t \in Threads, InspectCapture(t)
      PROVE  TypeOK'
  <2> DEFINE l == calls[t].location
             b == calls[t].before
             c == [calls[t] EXCEPT !.after = Current(l),
                                   !.delta = Diff(history[l][b], history[l][Current(l)])]
  <2>1. /\ CallOK(calls[t])
        /\ calls[t].op = "inspect"
    BY <1>5, CallsOK DEF InspectCapture
  <2>2. /\ l \in Locations /\ b \in 1..Current(l)
        /\ Current(l) \in Nat /\ Current(l) \in 1..Current(l)
    BY <2>1, PositionsNat DEF CallOK, Call
  <2>3. history[l][b] \in Snapshot /\ history[l][Current(l)] \in Snapshot
    BY <2>2, PositionsNat DEF Current
  <2>4. Diff(history[l][b], history[l][Current(l)]) \in Delta
    BY <2>3, DiffType
  <2>5. /\ c \in Call /\ c.op = "inspect" /\ c.location = l /\ c.before = b
        /\ c.after = Current(l)
    BY <2>1, <2>2, <2>4 DEF CallOK, Call
  <2>6. CallOK(c)
    BY <2>1, <2>2, <2>5 DEF CallOK
  <2>7. /\ calls' = [calls EXCEPT ![t] = c]
        /\ UNCHANGED <<history, armed, accounted>>
    BY <1>5 DEF InspectCapture, TypeOK
  <2> QED BY <1>1, <2>6, <2>7, ThreadStepType
<1>6. ASSUME NEW t \in Threads, InspectCaptureFails(t)
      PROVE  TypeOK'
  BY <1>1, <1>6, IdleOK, ThreadStepType DEF InspectCaptureFails
<1>7. ASSUME NEW t \in Threads, InspectStore(t)
      PROVE  TypeOK'
  <2> DEFINE l == calls[t].location
             b == calls[t].before
             n == calls[t].after
  <2>1. l \in Locations /\ b \in Nat /\ n \in Nat /\ n <= Current(l)
    BY CallsOK DEF CallOK, Call
  <2>2. /\ armed' = [armed EXCEPT ![l] = IF calls[t].rearm THEN n ELSE 0]
        /\ accounted' = [accounted EXCEPT ![l] = @ \cup (b + 1)..n]
        /\ calls' = [calls EXCEPT ![t] = Idle]
        /\ UNCHANGED history
    BY <1>7 DEF InspectStore
  <2>3. (b + 1)..n \subseteq 1..Current(l)
    BY <2>1, PositionsNat
  <2>4. armed' \in [Locations -> Nat] /\ accounted' \in [Locations -> SUBSET Nat]
    BY <1>1, <2>1, <2>2
  <2>5. \A k \in Locations : armed'[k] <= Current(k) /\ accounted'[k] \subseteq 1..Current(k)
    BY <1>1, <2>1, <2>2, <2>3, PositionsNat
  <2> QED BY <2>2, <2>4, <2>5, IdleOK, ThreadStepType
<1>8. ASSUME NEW l \in Locations, Forget(l)
      PROVE  TypeOK'
  BY <1>1, <1>8, ForgettingType DEF Forget
<1>9. ASSUME Clear
      PROVE  TypeOK'
  BY <1>1, <1>9, ForgettingType DEF Clear
<1>10. CASE UNCHANGED vars
  BY <1>10 DEF TypeOK, vars, Current
<1> QED
  BY <1>2, <1>3, <1>4, <1>5, <1>6, <1>7, <1>8, <1>9, <1>10, ChangeType DEF Next, Step

-----------------------------------------------------------------------------
\* Nothing is taken out of the account.
LEMMA AccountGrows ==
    ASSUME TypeOK, [Next]_vars, NEW k \in Locations
    PROVE  accounted[k] \subseteq accounted'[k]
<1>1. ASSUME NEW t \in Threads, ArmStore(t) \/ InspectStore(t)
      PROVE  accounted[k] \subseteq accounted'[k]
  <2>1. PICK more : accounted' = [accounted EXCEPT ![calls[t].location] = @ \cup more]
    BY <1>1 DEF ArmStore, InspectStore
  <2>2. accounted \in [Locations -> SUBSET Nat]
    BY DEF TypeOK
  <2> QED BY <2>1, <2>2
<1>2. CASE UNCHANGED accounted
  BY <1>2
<1>3. \/ UNCHANGED accounted
      \/ \E t \in Threads : ArmStore(t) \/ InspectStore(t)
  BY DEF Next, Step, Change, Forget, Clear, ArmCapture, InspectRead, InspectCapture,
         InspectCaptureFails, vars
<1> QED BY <1>1, <1>2, <1>3

\* What an inspection has read stays accounted for.
LEMMA BaselinesPreserved == Inv /\ [Next]_vars => BaselinesAccounted'
<1> SUFFICES ASSUME Inv, [Next]_vars, NEW t \in Threads, calls'[t].op = "inspect"
             PROVE  1..calls'[t].before \subseteq accounted'[calls'[t].location]
  BY DEF BaselinesAccounted
<1>1. TypeOK /\ NoChangeUnaccounted /\ BaselinesAccounted
  BY DEF Inv
<1>2. calls \in [Threads -> Call]
  BY <1>1 DEF TypeOK
<1>3. ASSUME calls[t].op = "inspect",
             calls'[t].before = calls[t].before,
             calls'[t].location = calls[t].location
      PROVE  1..calls'[t].before \subseteq accounted'[calls'[t].location]
  <2>1. calls[t].location \in Locations
    BY <1>2 DEF Call
  <2>2. 1..calls[t].before \subseteq accounted[calls[t].location]
    BY <1>1, <1>3 DEF BaselinesAccounted
  <2> QED BY <1>1, <1>3, <2>1, <2>2, AccountGrows
<1>4. CASE calls'[t] = calls[t]
  BY <1>3, <1>4
<1>5. ASSUME NEW l \in Locations, NEW rearm \in BOOLEAN, InspectRead(t, l, rearm)
      PROVE  1..calls'[t].before \subseteq accounted'[calls'[t].location]
  <2>1. calls'[t].before = armed[l] /\ calls'[t].location = l /\ accounted' = accounted
    BY <1>2, <1>5 DEF InspectRead, Idle
  <2>2. 1..armed[l] \subseteq accounted[l]
    BY <1>1, <1>5 DEF InspectRead, NoChangeUnaccounted
  <2> QED BY <2>1, <2>2
<1>6. CASE InspectCapture(t)
  <2>1. /\ calls[t].op = "inspect"
        /\ calls'[t].before = calls[t].before
        /\ calls'[t].location = calls[t].location
    BY <1>2, <1>6 DEF InspectCapture, Call
  <2> QED BY <1>3, <2>1
<1>7. ASSUME NEW u \in Threads, Step(u), u # t
      PROVE  calls'[t] = calls[t]
  BY <1>2, <1>7 DEF Step, ArmCapture, ArmStore, InspectRead, InspectCapture,
                    InspectCaptureFails, InspectStore
<1>8. CASE \/ ArmStore(t) \/ InspectStore(t) \/ InspectCaptureFails(t)
           \/ \E l \in Locations : ArmCapture(t, l)
  <2>1. CASE ArmStore(t) \/ InspectStore(t) \/ InspectCaptureFails(t)
    <3>1. calls'[t] = Idle
      BY <1>2, <2>1 DEF ArmStore, InspectStore, InspectCaptureFails
    <3>2. calls'[t].op = "idle"
      BY <3>1 DEF Idle
    <3> QED BY <3>2
  <2>2. ASSUME NEW l \in Locations, ArmCapture(t, l)
        PROVE  calls'[t].op = "arm"
    <3>1. calls'[t] = [Idle EXCEPT !.op = "arm", !.location = l, !.after = Current(l)]
      BY <1>2, <2>2 DEF ArmCapture
    <3> QED BY <3>1 DEF Idle
  <2> QED BY <1>8, <2>1, <2>2
<1>9. CASE Step(t)
  BY <1>5, <1>6, <1>8, <1>9 DEF Step
<1>10. CASE \E u \in Threads : Step(u)
  BY <1>4, <1>7, <1>9, <1>10
<1>11. CASE (\E l \in Locations : Change(l) \/ Forget(l)) \/ Clear \/ UNCHANGED vars
  <2>1. calls' = calls
    BY <1>11 DEF Change, Forget, Clear, vars
  <2> QED BY <1>4, <2>1
<1> QED BY <1>10, <1>11 DEF Next

\* The account reaches every new baseline.
LEMMA AccountPreserved == Inv /\ [Next]_vars => NoChangeUnaccounted'
<1> SUFFICES ASSUME Inv, [Next]_vars, NEW k \in Locations, armed'[k] # 0
             PROVE  1..armed'[k] \subseteq accounted'[k]
  BY DEF NoChangeUnaccounted
<1>1. TypeOK /\ NoChangeUnaccounted /\ BaselinesAccounted
  BY DEF Inv
<1>2. armed \in [Locations -> Nat] /\ accounted \in [Locations -> SUBSET Nat]
  BY <1>1 DEF TypeOK
<1>3. CASE armed'[k] = armed[k]
  BY <1>1, <1>3, AccountGrows DEF NoChangeUnaccounted
<1>4. ASSUME NEW t \in Threads, ArmStore(t)
      PROVE  1..armed'[k] \subseteq accounted'[k]
  <2>1. CASE k = calls[t].location
    BY <1>2, <1>4, <2>1 DEF ArmStore
  <2>2. CASE k # calls[t].location
    BY <1>2, <1>3, <1>4, <2>2 DEF ArmStore
  <2> QED BY <2>1, <2>2
<1>5. ASSUME NEW t \in Threads, InspectStore(t)
      PROVE  1..armed'[k] \subseteq accounted'[k]
  <2>1. CASE k = calls[t].location
    <3>1. calls[t].before \in Nat /\ calls[t].after \in Nat
      BY <1>1 DEF TypeOK, Call
    <3>2. armed'[k] = calls[t].after
      BY <1>2, <1>5, <2>1 DEF InspectStore
    <3>3. 1..calls[t].before \subseteq accounted[k]
      BY <1>1, <1>5, <2>1 DEF InspectStore, BaselinesAccounted
    <3>4. accounted'[k] = accounted[k] \cup (calls[t].before + 1)..calls[t].after
      BY <1>2, <1>5, <2>1 DEF InspectStore
    <3>5. 1..calls[t].after \subseteq 1..calls[t].before \cup (calls[t].before + 1)..calls[t].after
      BY <3>1
    <3> QED BY <3>2, <3>3, <3>4, <3>5
  <2>2. CASE k # calls[t].location
    BY <1>2, <1>3, <1>5, <2>2 DEF InspectStore
  <2> QED BY <2>1, <2>2
<1>6. CASE \/ (\E l \in Locations : Forget(l)) \/ Clear
  BY <1>2, <1>3, <1>6 DEF Forget, Clear
<1>7. \/ armed' = armed
      \/ \E t \in Threads : ArmStore(t) \/ InspectStore(t)
      \/ (\E l \in Locations : Forget(l)) \/ Clear
  BY DEF Next, Step, Change, ArmCapture, InspectRead, InspectCapture,
         InspectCaptureFails, vars
<1> QED BY <1>3, <1>4, <1>5, <1>6, <1>7

-----------------------------------------------------------------------------
LEMMA InvPreserved == Inv /\ [Next]_vars => Inv'
BY TypePreserved, BaselinesPreserved, AccountPreserved DEF Inv

(***************************************************************************)
(* The baselines and the calls of the reactor always refer to states their *)
(* block has been in, and what a call holds fits how far it has come.      *)
(***************************************************************************)
THEOREM ReactorTypeCorrect == Spec => []TypeOK
<1>1. Inv => TypeOK
  BY DEF Inv
<1> QED BY <1>1, InitInv, InvPreserved, PTL DEF Spec

(***************************************************************************)
(* However many threads arm, inspect and forget, and however their steps   *)
(* interleave with changes of the block, no change escapes the deltas      *)
(* between two baselines.                                                  *)
(***************************************************************************)
THEOREM NoChangeEscapes == Spec => []NoChangeUnaccounted
<1>1. Inv => NoChangeUnaccounted
  BY DEF Inv
<1> QED BY <1>1, InitInv, InvPreserved, PTL DEF Spec

-----------------------------------------------------------------------------
(***************************************************************************)
(* What a delta says.  Its changes are one record for every slot that      *)
(* differs, so the record chosen for a slot is the one of that slot.       *)
(***************************************************************************)
LEMMA DiffReplays ==
    ASSUME NEW a \in Snapshot, NEW b \in Snapshot
    PROVE  Replayed(a.inventory, Diff(a, b).inventory_changes) = b.inventory
<1>. DEFINE changed == {n \in Slots : a.inventory[n] # b.inventory[n]}
            change(n) == [slot |-> n, kind |-> Kind(a.inventory[n], b.inventory[n]),
                          before |-> a.inventory[n], after |-> b.inventory[n]]
            changes == {change(n) : n \in changed}
            mine(n) == {c \in changes : c.slot = n /\ c.before = a.inventory[n]}
<1>1. Diff(a, b).inventory_changes = changes
  BY DEF Diff
<1>2. b.inventory \in [Slots -> Items \cup {NoItem}]
  BY DEF Snapshot
<1>3. ASSUME NEW n \in Slots
      PROVE  (IF \E c \in changes : c.slot = n /\ c.before = a.inventory[n]
              THEN (CHOOSE c \in changes : c.slot = n /\ c.before = a.inventory[n]).after
              ELSE a.inventory[n]) = b.inventory[n]
  <2>1. CASE n \in changed
    <3>1. change(n) \in changes /\ change(n).slot = n /\ change(n).before = a.inventory[n]
      BY <2>1
    <3>2. \A c \in changes : c.slot = n => c.after = b.inventory[n]
      OBVIOUS
    <3>. QED
      BY <3>1, <3>2
  <2>2. CASE n \notin changed
    <3>1. \A c \in changes : c.slot # n
      BY <2>2
    <3>2. a.inventory[n] = b.inventory[n]
      BY <2>2
    <3>. QED
      BY <3>1, <3>2
  <2>. QED
    BY <2>1, <2>2
<1>4. Replayed(a.inventory, changes) = [n \in Slots |-> b.inventory[n]]
  <2>. HIDE DEF changes
  <2>. QED
    BY <1>3 DEF Replayed
<1>. QED
  BY <1>1, <1>2, <1>4

LEMMA DiffEmpty ==
    ASSUME NEW a \in Snapshot, NEW b \in Snapshot
    PROVE  Diff(a, b) = NoDelta <=> a = b
<1>. DEFINE changed == {n \in Slots : a.inventory[n] # b.inventory[n]}
            change(n) == [slot |-> n, kind |-> Kind(a.inventory[n], b.inventory[n]),
                          before |-> a.inventory[n], after |-> b.inventory[n]]
            changes == {change(n) : n \in changed}
<1>1. /\ Diff(a, b).block_changed = (a.block # b.block)
      /\ Diff(a, b).actor_nbt_changed = (a.actor # b.actor)
      /\ Diff(a, b).inventory_changes = changes
  BY DEF Diff
<1>2. ASSUME a = b PROVE Diff(a, b) = NoDelta
  <2>1. changed = {}
    BY <1>2
  <2>2. changes = {}
    BY <2>1
  <2>. QED
    BY <1>2, <2>2 DEF Diff, NoDelta
<1>3. ASSUME Diff(a, b) = NoDelta PROVE a = b
  <2>1. a.block = b.block /\ a.actor = b.actor /\ changes = {}
    <3>. HIDE DEF changes
    <3>1. /\ NoDelta.block_changed = FALSE /\ NoDelta.actor_nbt_changed = FALSE
          /\ NoDelta.inventory_changes = {}
      BY DEF NoDelta
    <3>2. changes = {}
      BY <1>1, <1>3, <3>1
    <3>3. (a.block # b.block) = FALSE /\ (a.actor # b.actor) = FALSE
      BY <1>1, <1>3, <3>1
    <3>. QED
      BY <3>2, <3>3
  <2>2. \A n \in Slots : a.inventory[n] = b.inventory[n]
    <3>1. \A n \in changed : change(n) \in changes
      OBVIOUS
    <3>2. changed = {}
      BY <2>1, <3>1
    <3>. QED
      BY <3>2
  <2>3. /\ a.inventory \in [Slots -> Items \cup {NoItem}]
        /\ b.inventory \in [Slots -> Items \cup {NoItem}]
    BY DEF Snapshot
  <2>4. a.inventory = b.inventory
    BY <2>2, <2>3
  <2>5. /\ a = [block |-> a.block, actor |-> a.actor, inventory |-> a.inventory]
        /\ b = [block |-> b.block, actor |-> b.actor, inventory |-> b.inventory]
    BY DEF Snapshot
  <2>. QED
    BY <2>1, <2>4, <2>5
<1>. QED
  BY <1>2, <1>3

(***************************************************************************)
(* The delta an inspection holds is the difference of the two states it    *)
(* refers to.  The world moves on while the inspection waits for the lock, *)
(* but a state a block has been in stays in its history.                   *)
(***************************************************************************)
DeltasHold ==
    \A t \in Threads : calls[t].op = "inspect" /\ calls[t].after # 0 =>
       calls[t].delta = Diff(history[calls[t].location][calls[t].before],
                             history[calls[t].location][calls[t].after])

LEMMA StatesStay ==
    ASSUME TypeOK, [Next]_vars, NEW l \in Locations, NEW i \in 1..Current(l)
    PROVE  history'[l][i] = history[l][i]
<1>1. history[l] \in Seq(Snapshot) /\ history \in [Locations -> Seq(Snapshot) \ {<<>>}]
  BY DEF TypeOK
<1>2. ASSUME NEW k \in Locations, Change(k) PROVE history'[l][i] = history[l][i]
  <2>1. PICK s \in Snapshot : history' = [history EXCEPT ![k] = Append(@, s)]
    BY <1>2 DEF Change
  <2>2. Append(history[l], s)[i] = history[l][i]
    BY <1>1 DEF Current
  <2>. QED
    BY <1>1, <2>1, <2>2
<1>3. CASE UNCHANGED history
  BY <1>3
<1>4. UNCHANGED history \/ \E k \in Locations : Change(k)
  BY DEF Next, Step, Forget, Clear, ArmCapture, ArmStore, InspectRead,
         InspectCapture, InspectCaptureFails, InspectStore, vars
<1>. QED
  BY <1>2, <1>3, <1>4

LEMMA DeltasPreserved == Inv /\ DeltasHold /\ [Next]_vars => DeltasHold'
<1>. SUFFICES ASSUME Inv, DeltasHold, [Next]_vars, NEW t \in Threads,
                     calls'[t].op = "inspect", calls'[t].after # 0
              PROVE  calls'[t].delta = Diff(history'[calls'[t].location][calls'[t].before],
                                            history'[calls'[t].location][calls'[t].after])
  BY DEF DeltasHold
<1>1. TypeOK /\ calls \in [Threads -> Call]
  BY DEF Inv, TypeOK
<1>2. CASE calls'[t] = calls[t]
  <2>1. /\ calls[t].location \in Locations
        /\ calls[t].before \in 1..Current(calls[t].location)
        /\ calls[t].after \in 1..Current(calls[t].location)
    <3>1. CallOK(calls[t])
      BY <1>1, CallsOK
    <3>. QED
      BY <1>2, <3>1, <1>1, PositionsNat DEF CallOK, Call
  <2>2. /\ history'[calls[t].location][calls[t].before]
             = history[calls[t].location][calls[t].before]
        /\ history'[calls[t].location][calls[t].after]
             = history[calls[t].location][calls[t].after]
    BY <1>1, <2>1, StatesStay
  <2>. QED
    BY <1>2, <2>2 DEF DeltasHold
<1>3. CASE InspectCapture(t)
  BY <1>1, <1>3 DEF InspectCapture
<1>4. CASE \/ \E l \in Locations : ArmCapture(t, l)
           \/ \E l \in Locations, rearm \in BOOLEAN : InspectRead(t, l, rearm)
           \/ ArmStore(t) \/ InspectCaptureFails(t) \/ InspectStore(t)
  <2>1. Idle.op = "idle" /\ Idle.after = 0
    BY DEF Idle
  <2>2. ASSUME NEW l \in Locations, ArmCapture(t, l) PROVE calls'[t].op = "arm"
    BY <1>1, <2>2 DEF ArmCapture, Idle
  <2>3. ASSUME NEW l \in Locations, NEW rearm \in BOOLEAN, InspectRead(t, l, rearm)
        PROVE  calls'[t].after = 0
    BY <1>1, <2>3 DEF InspectRead, Idle
  <2>4. CASE ArmStore(t) \/ InspectCaptureFails(t) \/ InspectStore(t)
    <3>1. calls'[t] = Idle
      BY <1>1, <2>4 DEF ArmStore, InspectCaptureFails, InspectStore
    <3>. QED
      BY <2>1, <3>1
  <2>. QED
    BY <1>4, <2>2, <2>3, <2>4
<1>5. ASSUME NEW u \in Threads, u # t, Step(u) PROVE calls'[t] = calls[t]
  BY <1>1, <1>5 DEF Step, ArmCapture, InspectRead, ArmStore, InspectCapture,
                    InspectCaptureFails, InspectStore
<1>6. CASE (\E l \in Locations : Change(l) \/ Forget(l)) \/ Clear \/ UNCHANGED vars
  BY <1>2, <1>6 DEF Change, Forget, Clear, vars
<1>. QED
  BY <1>2, <1>3, <1>4, <1>5, <1>6 DEF Next, Step

(***************************************************************************)
(* The delta an inspection returns turns the baseline it was taken against *)
(* into the state it captured, and is empty only when the two are equal,   *)
(* however the block and the other threads move on before it is returned.  *)
(***************************************************************************)
THEOREM DeltasExplain == Spec => []DeltaExplains
<1>1. Init => DeltasHold
  BY DEF Init, DeltasHold, Idle
<1>2. ASSUME Inv, DeltasHold PROVE DeltaExplains
  <2>. SUFFICES ASSUME NEW t \in Threads, calls[t].op = "inspect", calls[t].after # 0
                PROVE  LET before == history[calls[t].location][calls[t].before]
                           after  == history[calls[t].location][calls[t].after]
                           delta  == calls[t].delta
                       IN  /\ Replayed(before.inventory, delta.inventory_changes)
                                = after.inventory
                           /\ delta = NoDelta <=> before = after
    BY DEF DeltaExplains
  <2>1. /\ calls[t].location \in Locations
        /\ calls[t].before \in 1..Current(calls[t].location)
        /\ calls[t].after \in 1..Current(calls[t].location)
        /\ history[calls[t].location] \in Seq(Snapshot)
    <3>1. TypeOK /\ CallOK(calls[t])
      BY <1>2, CallsOK DEF Inv
    <3>. QED
      BY <3>1, PositionsNat DEF CallOK, Call
  <2>2. /\ history[calls[t].location][calls[t].before] \in Snapshot
        /\ history[calls[t].location][calls[t].after] \in Snapshot
    BY <2>1 DEF Current
  <2>3. calls[t].delta = Diff(history[calls[t].location][calls[t].before],
                              history[calls[t].location][calls[t].after])
    BY <1>2 DEF DeltasHold
  <2>. QED
    BY <2>2, <2>3, DiffReplays, DiffEmpty
<1>. QED
  BY <1>1, <1>2, InitInv, InvPreserved, DeltasPreserved, PTL DEF Spec

-----------------------------------------------------------------------------
(***************************************************************************)
(* Two threads may report one change twice: both read the same baseline.   *)
(* Listeners that run on one thread do not, although the block changes and *)
(* locations are forgotten while a call is on its way: with one call under *)
(* way at a time, what is accounted for ends exactly where the baseline    *)
(* is, and the delta of an inspection begins there.                        *)
(***************************************************************************)
ReportedOnce ==
    \A t \in Threads : calls[t].op = "inspect" /\ calls[t].after # 0 =>
        ((calls[t].before + 1)..calls[t].after) \cap accounted[calls[t].location] = {}

OneThread == \A t, u \in Threads : t = u

\* How far the account goes while a call is under way.
Reached(c) ==
    /\ c.op = "inspect" => /\ accounted[c.location] = 1..c.before
                           /\ c.after # 0 => c.before <= c.after
    /\ c.op = "arm" => accounted[c.location] \subseteq 1..c.after

Consecutive ==
    /\ \A l \in Locations : armed[l] # 0 => accounted[l] = 1..armed[l]
    /\ \A t \in Threads : Reached(calls[t])

\* A step that neither arms a location nor accounts for anything, and leaves
\* the one call idle or at what it has reached.
LEMMA ConsecutiveKept ==
    ASSUME TypeOK, Consecutive, UNCHANGED accounted,
           \A l \in Locations : armed'[l] \in {0, armed[l]},
           \A t \in Threads : calls'[t] = Idle \/ calls'[t] = calls[t] \/ Reached(calls'[t])
    PROVE  Consecutive'
<1>1. Idle.op = "idle"
  BY DEF Idle
<1>2. \A t \in Threads : Reached(calls'[t])
  BY <1>1 DEF Consecutive, Reached
<1>3. \A l \in Locations : armed'[l] # 0 => accounted'[l] = 1..armed'[l]
  BY DEF Consecutive
<1> QED BY <1>2, <1>3 DEF Consecutive, Reached

\* A call that ends makes its capture the baseline; with no other call under
\* way nothing else has to fit the account.
LEMMA ConsecutiveStored ==
    ASSUME OneThread, TypeOK, Consecutive, NEW t \in Threads, calls' = [calls EXCEPT ![t] = Idle],
           NEW l \in Locations, NEW a \in {0, calls[t].after},
           armed' = [armed EXCEPT ![l] = a],
           accounted' = [accounted EXCEPT ![l] = 1..calls[t].after]
    PROVE  Consecutive'
<1>1. \A u \in Threads : calls'[u].op = "idle"
  BY DEF OneThread, TypeOK, Idle
<1>2. /\ armed'[l] = a /\ accounted'[l] = 1..calls[t].after
      /\ \A k \in Locations \ {l} : armed'[k] = armed[k] /\ accounted'[k] = accounted[k]
  BY DEF TypeOK
<1>3. \A k \in Locations : armed'[k] # 0 => accounted'[k] = 1..armed'[k]
  BY <1>2 DEF Consecutive
<1> QED BY <1>1, <1>3 DEF Consecutive, Reached

LEMMA NextConsecutive == ASSUME OneThread, TypeOK, Consecutive, [Next]_vars PROVE Consecutive'
<1> DEFINE kept == \A l \in Locations : armed'[l] \in {0, armed[l]}
<1>1. ASSUME NEW t \in Threads, NEW l \in Locations, ArmCapture(t, l) PROVE Consecutive'
  <2>1. accounted[l] \subseteq 1..Current(l)
    BY DEF TypeOK
  <2> DEFINE c == [Idle EXCEPT !.op = "arm", !.location = l, !.after = Current(l)]
  <2>2. c.op = "arm" /\ c.location = l /\ c.after = Current(l)
    BY DEF Idle
  <2> HIDE DEF c
  <2>3. Reached(c)
    BY <2>1, <2>2 DEF Reached
  <2>4. calls' = [calls EXCEPT ![t] = c] /\ UNCHANGED <<armed, accounted>>
    BY <1>1 DEF ArmCapture, c
  <2> QED BY <2>3, <2>4, ConsecutiveKept DEF TypeOK
<1>2. ASSUME NEW t \in Threads, ArmStore(t) PROVE Consecutive'
  <2> DEFINE l == calls[t].location
  <2>1. l \in Locations /\ accounted[l] \subseteq 1..calls[t].after
    BY <1>2 DEF ArmStore, Consecutive, Reached, TypeOK, Call
  <2>2. accounted' = [accounted EXCEPT ![l] = 1..calls[t].after]
    BY <1>2, <2>1 DEF ArmStore, TypeOK
  <2> QED BY <1>2, <2>1, <2>2, ConsecutiveStored DEF ArmStore
<1>3. ASSUME NEW t \in Threads, NEW l \in Locations, NEW rearm \in BOOLEAN, InspectRead(t, l, rearm)
      PROVE  Consecutive'
  <2>1. accounted[l] = 1..armed[l]
    BY <1>3 DEF InspectRead, Consecutive
  <2> DEFINE c == [Idle EXCEPT !.op = "inspect", !.location = l, !.rearm = rearm,
                               !.before = armed[l]]
  <2>2. c.op = "inspect" /\ c.location = l /\ c.before = armed[l] /\ c.after = 0
    BY DEF Idle
  <2> HIDE DEF c
  <2>3. Reached(c)
    BY <2>1, <2>2 DEF Reached
  <2>4. calls' = [calls EXCEPT ![t] = c] /\ UNCHANGED <<armed, accounted>>
    BY <1>3 DEF InspectRead, c
  <2> QED BY <2>3, <2>4, ConsecutiveKept DEF TypeOK
<1>4. ASSUME NEW t \in Threads, InspectCapture(t) PROVE Consecutive'
  <2> DEFINE l == calls[t].location
  <2>1. /\ calls'[t].op = "inspect" /\ calls'[t].location = l
        /\ calls'[t].before = calls[t].before /\ calls'[t].after = Current(l)
        /\ \A u \in Threads \ {t} : calls'[u] = calls[u]
        /\ UNCHANGED <<armed, accounted>>
    BY <1>4 DEF InspectCapture, TypeOK, Call
  <2>2. accounted[l] = 1..calls[t].before /\ calls[t].before <= Current(l)
    BY <1>4 DEF InspectCapture, Consecutive, Reached, TypeOK
  <2>3. Reached(calls'[t])
    BY <2>1, <2>2 DEF Reached
  <2> QED BY <2>1, <2>3, ConsecutiveKept
<1>5. ASSUME NEW t \in Threads, InspectCaptureFails(t) PROVE Consecutive'
  <2>1. /\ \A u \in Threads : calls'[u] \in {Idle, calls[u]}
        /\ UNCHANGED <<armed, accounted>>
    BY <1>5 DEF InspectCaptureFails, TypeOK
  <2> QED BY <2>1, ConsecutiveKept
<1>6. ASSUME NEW t \in Threads, InspectStore(t) PROVE Consecutive'
  <2> DEFINE l == calls[t].location
             b == calls[t].before
             a == calls[t].after
  <2>1. l \in Locations /\ a \in Nat /\ b \in Nat /\ accounted[l] = 1..b /\ b <= a
    BY <1>6 DEF InspectStore, Consecutive, Reached, TypeOK, Call
  <2>2. (1..b) \cup ((b + 1)..a) = 1..a
    BY <2>1
  <2>3. accounted' = [accounted EXCEPT ![l] = 1..a]
    BY <1>6, <2>1, <2>2 DEF InspectStore, TypeOK
  <2> QED BY <1>6, <2>1, <2>3, ConsecutiveStored DEF InspectStore
<1>7. CASE \/ \E l \in Locations : Change(l) \/ Forget(l)
           \/ Clear \/ UNCHANGED vars
  <2>1. UNCHANGED <<calls, accounted>> /\ kept
    BY <1>7 DEF Change, Forget, Clear, vars, TypeOK
  <2> QED BY <2>1, ConsecutiveKept
<1> QED BY <1>1, <1>2, <1>3, <1>4, <1>5, <1>6, <1>7 DEF Next, Step

\* Listeners on one thread get every change of an armed block at most once.
THEOREM OneThreadReportsOnce ==
    ASSUME OneThread
    PROVE  Spec => []ReportedOnce
<1>1. Init => Consecutive
  BY DEF Init, Consecutive, Reached, Idle
<1>2. Inv /\ Consecutive /\ [Next]_vars => Consecutive'
  BY NextConsecutive DEF Inv
<1>3. Inv /\ Consecutive => ReportedOnce
  <2> SUFFICES ASSUME Inv, Consecutive, NEW t \in Threads, calls[t].op = "inspect",
                      calls[t].after # 0
               PROVE  ((calls[t].before + 1)..calls[t].after) \cap accounted[calls[t].location] = {}
    BY DEF ReportedOnce
  <2>1. accounted[calls[t].location] = 1..calls[t].before
    BY DEF Consecutive, Reached
  <2>2. calls[t].before \in Nat /\ calls[t].after \in Nat
    BY DEF Inv, TypeOK, Call
  <2> QED BY <2>1, <2>2
<1> QED BY <1>1, <1>2, <1>3, InitInv, InvPreserved, PTL DEF Spec
=============================================================================
