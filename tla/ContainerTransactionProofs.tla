--------------------- MODULE ContainerTransactionProofs ---------------------
(***************************************************************************)
(* What holds of ContainerTransaction for every size of a container, every *)
(* set of contents and managers and every limit of the owner's vector.     *)
(***************************************************************************)
EXTENDS ContainerTransaction, SequenceTheorems, FiniteSetTheorems, TLAPS

-----------------------------------------------------------------------------
(***************************************************************************)
(* Sequences of managers seen as sets.                                     *)
(***************************************************************************)
LEMMA ElementsEmpty == Elements(<<>>) = {}
BY DEF Elements

LEMMA ElementsAppend ==
    ASSUME NEW seq \in Seq(Managers), NEW m \in Managers
    PROVE  /\ Append(seq, m) \in Seq(Managers)
           /\ Elements(Append(seq, m)) = Elements(seq) \cup {m}
<1>1. /\ Append(seq, m) \in Seq(Managers)
      /\ Len(Append(seq, m)) = Len(seq) + 1
      /\ \A i \in 1..Len(seq) : Append(seq, m)[i] = seq[i]
      /\ Append(seq, m)[Len(seq) + 1] = m
  OBVIOUS
<1>2. Len(seq) \in Nat
  BY LenProperties
<1>. QED
  BY <1>1, <1>2 DEF Elements

LEMMA ElementsConcat ==
    ASSUME NEW seq \in Seq(Managers), NEW more \in Seq(Managers)
    PROVE  /\ seq \o more \in Seq(Managers)
           /\ Elements(seq \o more) = Elements(seq) \cup Elements(more)
<1>1. /\ seq \o more \in Seq(Managers)
      /\ Len(seq \o more) = Len(seq) + Len(more)
      /\ \A i \in 1..(Len(seq) + Len(more)) :
            (seq \o more)[i] = IF i <= Len(seq) THEN seq[i] ELSE more[i - Len(seq)]
  BY ConcatProperties
<1>2. Len(seq) \in Nat /\ Len(more) \in Nat
  BY LenProperties
<1>3. ASSUME NEW i \in 1..Len(more)
      PROVE  more[i] \in Elements(seq \o more)
  <2>1. /\ Len(seq) + i \in 1..(Len(seq) + Len(more))
        /\ ~(Len(seq) + i <= Len(seq))
        /\ (Len(seq) + i) - Len(seq) = i
    BY <1>2
  <2>. QED
    BY <1>1, <2>1 DEF Elements
<1>4. ASSUME NEW i \in 1..Len(seq)
      PROVE  seq[i] \in Elements(seq \o more)
  BY <1>1, <1>2 DEF Elements
<1>5. ASSUME NEW i \in 1..Len(seq \o more)
      PROVE  (seq \o more)[i] \in Elements(seq) \cup Elements(more)
  BY <1>1, <1>2 DEF Elements
<1>. QED
  BY <1>1, <1>3, <1>4, <1>5 DEF Elements

(***************************************************************************)
(* Appending the new managers and erasing the old prefix leaves the new    *)
(* managers, in their order, and nothing else.                             *)
(***************************************************************************)
LEMMA ReplacedIsNew ==
    ASSUME NEW seq \in Seq(Managers), NEW more \in Seq(Managers)
    PROVE  Replaced(seq, more) = more
<1>. DEFINE both == seq \o more
<1>. DEFINE rest == SubSeq(both, Len(seq) + 1, Len(both))
<1>1. /\ both \in Seq(Managers)
      /\ Len(both) = Len(seq) + Len(more)
      /\ \A i \in 1..(Len(seq) + Len(more)) :
            both[i] = IF i <= Len(seq) THEN seq[i] ELSE more[i - Len(seq)]
  BY ConcatProperties
<1>2. Len(seq) \in Nat /\ Len(more) \in Nat
  BY LenProperties
<1>3. \A i \in (Len(seq) + 1)..Len(both) : both[i] \in Managers
  BY <1>1, <1>2, ElementOfSeq
<1>. HIDE DEF both
<1>4. /\ rest \in Seq(Managers)
      /\ Len(rest) = Len(more)
      /\ \A i \in 1..Len(more) : rest[i] = both[Len(seq) + 1 + i - 1]
  <2>1. /\ Len(seq) + 1 \in Int /\ Len(both) \in Int
        /\ Len(both) - (Len(seq) + 1) + 1 = Len(more)
    BY <1>1, <1>2
  <2>2. /\ rest \in Seq(Managers)
        /\ Len(rest) = IF Len(seq) + 1 <= Len(both)
                       THEN Len(both) - (Len(seq) + 1) + 1 ELSE 0
        /\ \A i \in 1..(Len(both) - (Len(seq) + 1) + 1) :
              rest[i] = both[Len(seq) + 1 + i - 1]
    BY <1>3, <2>1, SubSeqProperties
  <2>. QED
    BY <2>1, <2>2, <1>1, <1>2
<1>5. \A i \in 1..Len(more) : rest[i] = more[i]
  <2>. SUFFICES ASSUME NEW i \in 1..Len(more) PROVE rest[i] = more[i]
    OBVIOUS
  <2>1. /\ Len(seq) + i \in 1..(Len(seq) + Len(more))
        /\ Len(seq) + 1 + i - 1 = Len(seq) + i
        /\ ~(Len(seq) + i <= Len(seq))
        /\ (Len(seq) + i) - Len(seq) = i
    BY <1>2
  <2>. QED
    BY <1>1, <1>4, <2>1
<1>6. rest = more
  BY <1>4, <1>5, SeqEqual
<1>. QED
  BY <1>6 DEF Replaced, Appended, both

-----------------------------------------------------------------------------
(***************************************************************************)
(* What the operators of the module build.                                 *)
(***************************************************************************)
LEMMA StackType ==
    ASSUME NEW c \in Contents
    PROVE  /\ Stack(c) \in Item
           /\ Stack(c).content = c
           /\ Stack(c).manager = NoManager
BY DEF Stack, Item

LEMMA EmptyProjectionType ==
    /\ EmptyProjection \in [Slots -> Item]
    /\ \A s \in Slots : EmptyProjection[s].content = Empty
    /\ \A s \in Slots : EmptyProjection[s].manager = NoManager
BY StackType DEF EmptyProjection, Contents, Stack

LEMMA FingerprintType ==
    ASSUME NEW stacks \in [Slots -> Item]
    PROVE  /\ Fingerprint(stacks) \in [Slots -> Contents]
           /\ Fingerprint(stacks) \in Revision
           /\ Fingerprint(stacks) # NoRevision
<1>1. Fingerprint(stacks) \in [Slots -> Contents]
  BY DEF Fingerprint, Item
<1>. QED
  BY <1>1, PatchAssumption DEF Revision

LEMMA ResultType ==
    ASSUME NEW status \in ApplyStatus, NEW revision \in Revision,
           NEW back \in {"none", "complete", "incomplete"}
    PROVE  /\ Result(status, revision, back) \in ApplyResult
           /\ Result(status, revision, back) # NoReply
           /\ Result(status, revision, back).status = status
           /\ Result(status, revision, back).revision = revision
           /\ Result(status, revision, back).rollback = back
BY TransactionAssumption DEF Result, ApplyResult

LEMMA FreshManagerType ==
    ASSUME FreeManagers # {}
    PROVE  FreshManager \in Managers /\ FreshManager # NoManager
BY TransactionAssumption DEF FreshManager, FreeManagers

LEMMA SetItemType ==
    ASSUME container \in [Slots -> Item],
           NEW s \in Slots, NEW item \in Item, SetItem(s, item)
    PROVE  container' \in [Slots -> Item]
<1>1. CASE Stored(s, item)
  BY <1>1 DEF Stored
<1>2. CASE Refused(s, item)
  BY <1>2 DEF Refused
<1>3. CASE Canonicalized(s, item)
  <2>1. PICK c \in Contents :
           /\ c \in Bundles => item.manager # NoManager
           /\ container' = [container EXCEPT ![s] =
                 [content |-> c,
                  manager |-> IF c \in Bundles THEN item.manager ELSE NoManager]]
    BY <1>3 DEF Canonicalized
  <2>2. [content |-> c,
         manager |-> IF c \in Bundles THEN item.manager ELSE NoManager] \in Item
    BY DEF Item
  <2>. QED
    BY <2>1, <2>2
<1>4. CASE StoredBeside(s, item)
  <2>1. PICK t \in Slots \ {s}, c \in {Empty} \cup Plain :
           container' = [container EXCEPT ![s] = item, ![t] = Stack(c)]
    BY <1>4 DEF StoredBeside
  <2>2. Stack(c) \in Item
    BY StackType DEF Contents
  <2>. QED
    BY <2>1, <2>2
<1>. QED
  BY <1>1, <1>2, <1>3, <1>4 DEF SetItem

-----------------------------------------------------------------------------
(***************************************************************************)
(* Type correctness.                                                       *)
(***************************************************************************)
LEMMA InitTypeOK == Init => TypeOK
<1>. SUFFICES ASSUME Init PROVE TypeOK
  OBVIOUS
<1>1. /\ <<>> \in Seq(Managers)
      /\ {} \in SUBSET Slots
  OBVIOUS
<1>. QED
  BY <1>1, EmptyProjectionType DEF Init, TypeOK, Phases

\* A return keeps the types, whatever result of the right type it carries.
LEMMA ReturnType ==
    ASSUME TypeOK, NEW result \in ApplyResult, Return(result),
           container' \in [Slots -> Item], owner' \in Seq(Managers),
           phase # "idle"
    PROVE  TypeOK'
<1>1. request # NoRequest /\ request \in Request
  BY DEF TypeOK
<1>2. result # NoReply
  BY TransactionAssumption
<1>3. <<>> \in Seq(Managers) /\ {} \in SUBSET Slots
  OBVIOUS
<1>. QED
  BY <1>1, <1>2, <1>3, EmptyProjectionType DEF Return, TypeOK, Phases

LEMMA PrepareType == TypeOK /\ Prepare => TypeOK'
<1>. SUFFICES ASSUME TypeOK, Prepare PROVE TypeOK'
  OBVIOUS
<1>1. /\ container \in [Slots -> Item] /\ owner \in Seq(Managers)
      /\ final \in [Slots -> Item] /\ originals \in [Slots -> Item]
      /\ requested \in Seq(Managers) /\ rollback \in Seq(Managers)
      /\ pending \in SUBSET Slots
  BY DEF TypeOK
<1>2. /\ Fingerprint(container) \in Revision
      /\ Fingerprint(originals) \in Revision
      /\ NoRevision \in Revision
  BY <1>1, FingerprintType DEF Revision
<1>3. CASE RefuseCall
  <2>1. PICK st \in ApplyStatus : Return(Result(st, NoRevision, "none"))
    BY <1>3 DEF RefuseCall, ApplyStatus
  <2>. QED
    BY <1>1, <1>2, <1>3, <2>1, ResultType, ReturnType DEF RefuseCall
<1>4. CASE Conflict
  BY <1>1, <1>2, <1>4, ResultType, ReturnType DEF Conflict, ApplyStatus
<1>5. CASE Unchanged
  BY <1>1, <1>2, <1>5, ResultType, ReturnType DEF Unchanged, Current, ApplyStatus
<1>6. CASE RefusePlan
  BY <1>1, <1>2, <1>6, ResultType, ReturnType DEF RefusePlan, Current, ApplyStatus
<1>7. CASE Plan
  <2>1. request \in Request
    BY <1>7 DEF Plan, Current, TypeOK
  <2>2. request.patch \in Patch
    BY <2>1 DEF Request
  <2>3. Overlay(Fingerprint(container), request.patch) \in [Slots -> Contents]
    BY <1>1, <2>2, FingerprintType DEF Overlay, Patch
  <2>4. originals' \in [Slots -> Item] /\ final' \in [Slots -> Item]
    BY <1>1, <1>7, <2>3, FingerprintType, StackType DEF Plan
  <2>5. pending' \in SUBSET Slots /\ phase' \in {"materialize", "write"}
    BY <1>7 DEF Plan, StorageSlots, Touched
  <2>. QED
    BY <1>7, <2>4, <2>5 DEF Plan, Current, TypeOK, Phases
<1>8. CASE Materialize
  <2>1. FreshManager \in Managers
    BY <1>8, FreshManagerType DEF Materialize
  <2>2. PICK s \in Slots : /\ final' = [final EXCEPT ![s].manager = FreshManager]
                           /\ pending' = pending \ {s}
    BY <1>8 DEF Materialize
  <2>3. final' \in [Slots -> Item]
    BY <1>1, <2>1, <2>2 DEF Item
  <2>4. requested' \in Seq(Managers)
    BY <1>1, <1>8, <2>1, ElementsAppend DEF Materialize
  <2>. QED
    BY <1>8, <2>2, <2>3, <2>4 DEF Materialize, TypeOK
<1>9. CASE Materialized
  BY <1>9 DEF Materialized, TypeOK, Phases, StorageSlots
<1>10. CASE MaterializeFails
  BY <1>1, <1>2, <1>10, ResultType, ReturnType DEF MaterializeFails, ApplyStatus
<1>11. CASE PrepareRollback
  <2>1. FreshManager \in Managers
    BY <1>11, FreshManagerType DEF PrepareRollback
  <2>2. PICK s \in Slots : /\ originals' = [originals EXCEPT ![s].manager = FreshManager]
                           /\ pending' = pending \ {s}
    BY <1>11 DEF PrepareRollback
  <2>3. originals' \in [Slots -> Item]
    BY <1>1, <2>1, <2>2 DEF Item
  <2>4. rollback' \in Seq(Managers)
    BY <1>1, <1>11, <2>1, ElementsAppend DEF PrepareRollback
  <2>. QED
    BY <1>11, <2>2, <2>3, <2>4 DEF PrepareRollback, TypeOK
<1>12. CASE RollbackPrepared
  BY <1>12 DEF RollbackPrepared, TypeOK, Phases
<1>13. CASE PrepareRollbackFails
  BY <1>1, <1>2, <1>13, ResultType, ReturnType DEF PrepareRollbackFails, ApplyStatus
<1>14. CASE Escrow
  <2>1. owner' \in Seq(Managers)
    BY <1>1, <1>14, ElementsConcat DEF Escrow, Appended
  <2>2. pending' \in SUBSET Slots
    BY <1>14 DEF Escrow, WriteSlots, Touched, StorageSlots
  <2>. QED
    BY <1>14, <2>1, <2>2 DEF Escrow, TypeOK, Phases
<1>15. CASE EscrowFails
  BY <1>1, <1>2, <1>15, ResultType, ReturnType DEF EscrowFails, ApplyStatus
<1>. QED
  BY <1>3, <1>4, <1>5, <1>6, <1>7, <1>8, <1>9, <1>10, <1>11, <1>12, <1>13,
     <1>14, <1>15 DEF Prepare

LEMMA MutateType == TypeOK /\ Mutate => TypeOK'
<1>. SUFFICES ASSUME TypeOK, Mutate PROVE TypeOK'
  OBVIOUS
<1>1. /\ container \in [Slots -> Item] /\ owner \in Seq(Managers)
      /\ final \in [Slots -> Item] /\ originals \in [Slots -> Item]
      /\ requested \in Seq(Managers) /\ rollback \in Seq(Managers)
      /\ pending \in SUBSET Slots
  BY DEF TypeOK
<1>2. /\ Fingerprint(container) \in Revision
      /\ Fingerprint(originals) \in Revision
      /\ NoRevision \in Revision
      /\ Slots \in SUBSET Slots
  BY <1>1, FingerprintType DEF Revision
<1>3. \A s \in Slots : final[s] \in Item /\ originals[s] \in Item
  BY <1>1
<1>4. /\ Replaced(owner, requested) \in Seq(Managers)
      /\ Replaced(owner, rollback) \in Seq(Managers)
  BY <1>1, ReplacedIsNew
<1>5. CASE Write
  <2>1. PICK s \in Slots : SetItem(s, final[s]) /\ pending' = pending \ {s}
    BY <1>5 DEF Write
  <2>2. container' \in [Slots -> Item]
    BY <1>1, <1>3, <2>1, SetItemType
  <2>. QED
    BY <1>5, <2>1, <2>2 DEF Write, TypeOK
<1>6. CASE WriteThrows
  <2>1. container' \in [Slots -> Item]
    BY <1>1, <1>3, <1>6, SetItemType DEF WriteThrows
  <2>. QED
    BY <1>2, <1>6, <2>1 DEF WriteThrows, StartRestore, TypeOK, Phases
<1>7. CASE Commit
  <2>1. owner' \in Seq(Managers) /\ container' \in [Slots -> Item]
    BY <1>1, <1>4, <1>7 DEF Commit
  <2>. QED
    BY <1>2, <1>7, <2>1, ResultType, ReturnType DEF Commit, ApplyStatus
<1>8. CASE Abandon
  BY <1>2, <1>8 DEF Abandon, StartRestore, TypeOK, Phases
<1>9. CASE Restore
  <2>1. PICK s \in Slots : SetItem(s, originals[s]) /\ pending' = pending \ {s}
    BY <1>9 DEF Restore
  <2>2. container' \in [Slots -> Item]
    BY <1>1, <1>3, <2>1, SetItemType
  <2>. QED
    BY <1>9, <2>1, <2>2 DEF Restore, TypeOK
<1>10. CASE RolledBack
  <2>1. owner' \in Seq(Managers) /\ container' \in [Slots -> Item]
    BY <1>1, <1>4, <1>10 DEF RolledBack
  <2>. QED
    BY <1>2, <1>10, <2>1, ResultType, ReturnType DEF RolledBack, ApplyStatus
<1>11. CASE KeptInEscrow
  BY <1>1, <1>2, <1>11, ResultType, ReturnType DEF KeptInEscrow, ApplyStatus
<1>12. CASE NotRestored
  BY <1>1, <1>2, <1>12, ResultType, ReturnType DEF NotRestored, ApplyStatus
<1>13. CASE RestoreThrows
  <2>1. container' \in [Slots -> Item]
    BY <1>1, <1>3, <1>13, SetItemType DEF RestoreThrows
  <2>2. Fingerprint(container') \in Revision
    BY <2>1, FingerprintType
  <2>3. PICK rev \in {NoRevision, Fingerprint(container')} :
           Return(Result("AdapterError", rev, "incomplete"))
    BY <1>13 DEF RestoreThrows
  <2>4. Result("AdapterError", rev, "incomplete") \in ApplyResult
    BY <1>2, <2>2, <2>3, ResultType DEF ApplyStatus
  <2>. QED
    BY <1>1, <1>13, <2>1, <2>3, <2>4, ReturnType DEF RestoreThrows
<1>. QED
  BY <1>5, <1>6, <1>7, <1>8, <1>9, <1>10, <1>11, <1>12, <1>13 DEF Mutate

LEMMA NextTypeOK == TypeOK /\ [Next]_vars => TypeOK'
<1>. SUFFICES ASSUME TypeOK, [Next]_vars PROVE TypeOK'
  OBVIOUS
<1>1. CASE WorldEdit
  <2>1. PICK s \in Slots, c \in Contents :
           IF c \in Bundles
           THEN /\ FreeManagers # {}
                /\ container' = [container EXCEPT ![s] =
                       [content |-> c, manager |-> FreshManager]]
                /\ owner' = Append(owner, FreshManager)
           ELSE /\ container' = [container EXCEPT ![s] = Stack(c)]
                /\ UNCHANGED owner
    BY <1>1 DEF WorldEdit
  <2>2. container' \in [Slots -> Item] /\ owner' \in Seq(Managers)
    <3>1. CASE c \in Bundles
      <4>1. FreshManager \in Managers
        BY <2>1, <3>1, FreshManagerType
      <4>2. [content |-> c, manager |-> FreshManager] \in Item
        BY <4>1 DEF Item
      <4>3. container' = [container EXCEPT ![s] =
                   [content |-> c, manager |-> FreshManager]]
        BY <2>1, <3>1
      <4>4. container' \in [Slots -> Item]
        BY <4>2, <4>3 DEF TypeOK
      <4>5. owner' = Append(owner, FreshManager) /\ owner \in Seq(Managers)
        BY <2>1, <3>1 DEF TypeOK
      <4>6. owner' \in Seq(Managers)
        BY <4>1, <4>5, ElementsAppend
      <4>. QED
        BY <4>4, <4>6
    <3>2. CASE c \notin Bundles
      BY <2>1, <3>2, StackType DEF TypeOK
    <3>. QED
      BY <3>1, <3>2
  <2>. QED
    BY <1>1, <2>2 DEF WorldEdit, TypeOK
<1>2. CASE Call
  BY <1>2, TransactionAssumption DEF Call, TypeOK, Phases
<1>3. CASE Prepare
  BY <1>3, PrepareType
<1>4. CASE Mutate
  BY <1>4, MutateType
<1>5. CASE Collect
  BY <1>5 DEF Collect, TypeOK, Phases
<1>6. CASE UNCHANGED vars
  BY <1>6 DEF vars, TypeOK
<1>. QED
  BY <1>1, <1>2, <1>3, <1>4, <1>5, <1>6 DEF Next

(***************************************************************************)
(* Every state of the transaction has the declared types, and its phase    *)
(* tells whether a call is being served and whether it is answered.        *)
(***************************************************************************)
THEOREM TypeCorrect == Spec => []TypeOK
BY InitTypeOK, NextTypeOK, PTL DEF Spec

-----------------------------------------------------------------------------
(***************************************************************************)
(* No stranded bundle.                                                     *)
(***************************************************************************)

(***************************************************************************)
(* What one setItem may leave: other slots keep their stack or end up      *)
(* without a bundle, and a bundle in the slot itself is the one that was   *)
(* there, refused for showing something else, or refers to the manager of  *)
(* the stack written.                                                      *)
(***************************************************************************)
LEMMA SetItemEffect ==
    ASSUME container \in [Slots -> Item],
           NEW s \in Slots, NEW item \in Item, SetItem(s, item)
    PROVE  /\ \A t \in Slots \ {s} :
                 container'[t] = container[t] \/ ~IsStorage(container'[t])
           /\ IsStorage(container'[s]) =>
                 \/ /\ container'[s] = container[s]
                    /\ container[s].content # item.content
                 \/ /\ container'[s].manager = item.manager
                    /\ IsStorage(item) \/ item.manager # NoManager
<1>1. CASE Stored(s, item)
  BY <1>1 DEF Stored
<1>2. CASE Refused(s, item)
  BY <1>2 DEF Refused
<1>3. CASE Canonicalized(s, item)
  <2>1. PICK c \in Contents :
           /\ c \in Bundles => item.manager # NoManager
           /\ container' = [container EXCEPT ![s] =
                 [content |-> c,
                  manager |-> IF c \in Bundles THEN item.manager ELSE NoManager]]
    BY <1>3 DEF Canonicalized
  <2>2. \A t \in Slots \ {s} : container'[t] = container[t]
    BY <2>1
  <2>3. /\ container'[s].content = c
        /\ c \in Bundles => container'[s].manager = item.manager
    BY <2>1
  <2>. QED
    BY <2>1, <2>2, <2>3 DEF IsStorage
<1>4. CASE StoredBeside(s, item)
  <2>1. PICK t \in Slots \ {s}, c \in {Empty} \cup Plain :
           container' = [container EXCEPT ![s] = item, ![t] = Stack(c)]
    BY <1>4 DEF StoredBeside
  <2>2. ~IsStorage(Stack(c))
    BY PatchAssumption DEF IsStorage, Stack
  <2>3. container'[s] = item /\ container'[t] = Stack(c)
    BY <2>1
  <2>4. \A u \in Slots \ {s, t} : container'[u] = container[u]
    BY <2>1
  <2>. QED
    BY <2>2, <2>3, <2>4
<1>. QED
  BY <1>1, <1>2, <1>3, <1>4 DEF SetItem

(***************************************************************************)
(* One write of a pass over stacks whose managers the owner holds strands  *)
(* nothing, and keeps what is known of the slots already passed.           *)
(***************************************************************************)
LEMMA PassStep ==
    ASSUME container \in [Slots -> Item], NoStrandedBundle,
           NEW stacks \in [Slots -> Item], NEW tracker,
           TrackedBy(stacks, tracker, {}),
           Elements(tracker) \subseteq Elements(owner),
           NEW s \in Slots, SetItem(s, stacks[s])
    PROVE  /\ \A t \in Slots : IsStorage(container'[t]) =>
                 container'[t].manager \in Elements(owner)
           /\ PassedSlots(stacks, tracker) =>
                 \A t \in Slots \ (pending \ {s}) :
                    IsStorage(stacks[t]) /\ container'[t].content = stacks[t].content =>
                       container'[t].manager \in Elements(tracker)
<1>1. stacks[s] \in Item
  OBVIOUS
<1>2. /\ \A t \in Slots \ {s} :
            container'[t] = container[t] \/ ~IsStorage(container'[t])
      /\ IsStorage(container'[s]) =>
            \/ /\ container'[s] = container[s]
               /\ container[s].content # stacks[s].content
            \/ /\ container'[s].manager = stacks[s].manager
               /\ IsStorage(stacks[s]) \/ stacks[s].manager # NoManager
  BY <1>1, SetItemEffect
<1>3. IsStorage(stacks[s]) \/ stacks[s].manager # NoManager =>
         stacks[s].manager \in Elements(tracker)
  BY DEF TrackedBy
<1>4. ASSUME NEW t \in Slots, IsStorage(container'[t])
      PROVE  container'[t].manager \in Elements(owner)
  BY <1>2, <1>3, <1>4 DEF NoStrandedBundle
<1>5. ASSUME PassedSlots(stacks, tracker),
             NEW t \in Slots \ (pending \ {s}),
             IsStorage(stacks[t]), container'[t].content = stacks[t].content
      PROVE  container'[t].manager \in Elements(tracker)
  <2>1. IsStorage(container'[t])
    BY <1>5 DEF IsStorage
  <2>2. CASE t = s
    BY <1>2, <1>3, <1>5, <2>1, <2>2
  <2>3. CASE t # s
    <3>1. container'[t] = container[t] /\ t \in Slots \ pending
      BY <1>2, <1>5, <2>1, <2>3
    <3>. QED
      BY <1>5, <3>1 DEF PassedSlots
  <2>. QED
    BY <2>2, <2>3
<1>. QED
  BY <1>4, <1>5

(***************************************************************************)
(* At the end of a pass that shows what it was to show, the tracker alone  *)
(* holds a manager for every bundle: the other lifetimes may go.           *)
(***************************************************************************)
LEMMA PassComplete ==
    ASSUME NEW stacks, NEW tracker, PassedSlots(stacks, tracker),
           pending = {}, Matches(stacks)
    PROVE  \A s \in Slots : IsStorage(container[s]) =>
              container[s].manager \in Elements(tracker)
<1>. SUFFICES ASSUME NEW s \in Slots, IsStorage(container[s])
              PROVE  container[s].manager \in Elements(tracker)
  OBVIOUS
<1>1. container[s].content = stacks[s].content
  BY DEF Matches, Fingerprint
<1>2. IsStorage(stacks[s])
  BY <1>1 DEF IsStorage
<1>. QED
  BY <1>1, <1>2 DEF PassedSlots

LEMMA ReturnLifetime ==
    ASSUME NEW result, Return(result),
           \A s \in Slots : IsStorage(container'[s]) =>
              container'[s].manager \in Elements(owner')
    PROVE  LifetimeInv'
BY DEF Return, LifetimeInv, NoStrandedBundle

LEMMA InitLifetimeInv == Init => LifetimeInv
<1>. SUFFICES ASSUME Init PROVE LifetimeInv
  OBVIOUS
<1>1. \A s \in Slots : ~IsStorage(container[s])
  BY EmptyProjectionType, PatchAssumption DEF Init, IsStorage
<1>. QED
  BY <1>1 DEF Init, LifetimeInv, NoStrandedBundle

LEMMA PrepareLifetimeInv == TypeOK /\ LifetimeInv /\ Prepare => LifetimeInv'
<1>. SUFFICES ASSUME TypeOK, LifetimeInv, Prepare PROVE LifetimeInv'
  OBVIOUS
<1>1. /\ container \in [Slots -> Item] /\ owner \in Seq(Managers)
      /\ final \in [Slots -> Item] /\ originals \in [Slots -> Item]
      /\ requested \in Seq(Managers) /\ rollback \in Seq(Managers)
      /\ pending \in SUBSET Slots
  BY DEF TypeOK
<1>2. NoStrandedBundle
  BY DEF LifetimeInv
<1>3. ASSUME NEW result, Return(result), UNCHANGED <<container, owner>>
      PROVE  LifetimeInv'
  BY <1>2, <1>3, ReturnLifetime DEF NoStrandedBundle
<1>4. CASE RefuseCall
  <2>1. PICK st : Return(Result(st, NoRevision, "none"))
    BY <1>4 DEF RefuseCall
  <2>. QED
    BY <1>3, <1>4, <2>1 DEF RefuseCall
<1>5. CASE Conflict \/ Unchanged \/ RefusePlan
  BY <1>3, <1>5 DEF Conflict, Unchanged, RefusePlan
<1>6. CASE MaterializeFails \/ PrepareRollbackFails \/ EscrowFails
  BY <1>3, <1>6 DEF MaterializeFails, PrepareRollbackFails, EscrowFails
<1>7. CASE Plan
  <2>1. requested = <<>> /\ rollback = <<>>
    BY <1>7 DEF Plan, Current, LifetimeInv
  <2>2. NoStrandedBundle'
    BY <1>2, <1>7 DEF Plan, NoStrandedBundle
  <2>3. \A s \in Slots : /\ final'[s].manager = NoManager
                         /\ originals'[s].manager = NoManager
    BY <1>7, StackType DEF Plan, Stack
  <2>4. CASE phase' = "materialize"
    <3>1. pending' = {s \in Slots : IsStorage(final'[s])}
      BY <1>7, <2>4 DEF Plan, StorageSlots
    <3>2. TrackedBy(final, requested, pending)'
      BY <2>3, <3>1 DEF TrackedBy
    <3>3. TrackedBy(originals, rollback, Slots)'
      BY <2>3 DEF TrackedBy
    <3>. QED
      BY <2>2, <2>4, <3>2, <3>3 DEF LifetimeInv
  <2>5. CASE phase' = "write"
    <3>1. \A s \in Slots : ~IsStorage(final'[s]) /\ ~IsStorage(originals'[s])
      BY <1>7, <2>5 DEF Plan, StorageSlots
    <3>2. TrackedBy(final, requested, {})' /\ TrackedBy(originals, rollback, {})'
      BY <2>3, <3>1 DEF TrackedBy
    <3>3. PassedSlots(final, requested)'
      BY <3>1 DEF PassedSlots
    <3>4. (Elements(requested) \cup Elements(rollback) \subseteq Elements(owner))'
      BY <1>7, <2>1, ElementsEmpty DEF Plan
    <3>. QED
      BY <2>2, <2>5, <3>2, <3>3, <3>4 DEF LifetimeInv
  <2>. QED
    BY <1>7, <2>4, <2>5 DEF Plan
<1>8. CASE Materialize
  <2>1. /\ phase = "materialize" /\ phase' = "materialize"
        /\ FreshManager \in Managers
        /\ requested' = Append(requested, FreshManager)
        /\ UNCHANGED <<container, owner, originals, rollback>>
    BY <1>8, FreshManagerType DEF Materialize
  <2>2. PICK s \in Slots : /\ final' = [final EXCEPT ![s].manager = FreshManager]
                           /\ pending' = pending \ {s}
    BY <1>8 DEF Materialize
  <2>3. Elements(requested') = Elements(requested) \cup {FreshManager}
    BY <1>1, <2>1, ElementsAppend
  <2>4. TrackedBy(final, requested, pending)
    BY <2>1 DEF LifetimeInv
  <2>5. /\ \A t \in Slots \ {s} : final'[t] = final[t]
        /\ final'[s].manager = FreshManager
    BY <1>1, <2>2 DEF Item
  <2>6. TrackedBy(final, requested, pending)'
    <3>. SUFFICES ASSUME NEW t \in Slots
                  PROVE  /\ final'[t].manager # NoManager =>
                               final'[t].manager \in Elements(requested')
                         /\ IsStorage(final'[t]) /\ t \notin pending' =>
                               final'[t].manager \in Elements(requested')
      BY DEF TrackedBy
    <3>1. CASE t = s
      BY <2>3, <2>5, <3>1
    <3>2. CASE t # s
      BY <2>2, <2>3, <2>4, <2>5, <3>2 DEF TrackedBy
    <3>. QED
      BY <3>1, <3>2
  <2>7. TrackedBy(originals, rollback, Slots)'
    BY <2>1 DEF LifetimeInv, TrackedBy
  <2>8. NoStrandedBundle'
    BY <1>2, <2>1 DEF NoStrandedBundle
  <2>. QED
    BY <2>1, <2>6, <2>7, <2>8 DEF LifetimeInv
<1>9. CASE Materialized
  <2>1. /\ phase = "materialize" /\ phase' = "prepare_rollback" /\ pending = {}
        /\ pending' = {s \in Slots : IsStorage(originals[s])}
        /\ UNCHANGED <<container, owner, final, originals, requested, rollback>>
    BY <1>9 DEF Materialized, StorageSlots
  <2>2. TrackedBy(final, requested, {})'
    BY <2>1 DEF LifetimeInv, TrackedBy
  <2>3. TrackedBy(originals, rollback, pending)'
    BY <2>1 DEF LifetimeInv, TrackedBy
  <2>4. NoStrandedBundle'
    BY <1>2, <2>1 DEF NoStrandedBundle
  <2>. QED
    BY <2>1, <2>2, <2>3, <2>4 DEF LifetimeInv
<1>10. CASE PrepareRollback
  <2>1. /\ phase = "prepare_rollback" /\ phase' = "prepare_rollback"
        /\ FreshManager \in Managers
        /\ rollback' = Append(rollback, FreshManager)
        /\ UNCHANGED <<container, owner, final, requested>>
    BY <1>10, FreshManagerType DEF PrepareRollback
  <2>2. PICK s \in Slots : /\ originals' = [originals EXCEPT ![s].manager = FreshManager]
                           /\ pending' = pending \ {s}
    BY <1>10 DEF PrepareRollback
  <2>3. Elements(rollback') = Elements(rollback) \cup {FreshManager}
    BY <1>1, <2>1, ElementsAppend
  <2>4. TrackedBy(originals, rollback, pending)
    BY <2>1 DEF LifetimeInv
  <2>5. /\ \A t \in Slots \ {s} : originals'[t] = originals[t]
        /\ originals'[s].manager = FreshManager
    BY <1>1, <2>2 DEF Item
  <2>6. TrackedBy(originals, rollback, pending)'
    <3>. SUFFICES ASSUME NEW t \in Slots
                  PROVE  /\ originals'[t].manager # NoManager =>
                               originals'[t].manager \in Elements(rollback')
                         /\ IsStorage(originals'[t]) /\ t \notin pending' =>
                               originals'[t].manager \in Elements(rollback')
      BY DEF TrackedBy
    <3>1. CASE t = s
      BY <2>3, <2>5, <3>1
    <3>2. CASE t # s
      BY <2>2, <2>3, <2>4, <2>5, <3>2 DEF TrackedBy
    <3>. QED
      BY <3>1, <3>2
  <2>7. TrackedBy(final, requested, {})'
    BY <2>1 DEF LifetimeInv, TrackedBy
  <2>8. NoStrandedBundle'
    BY <1>2, <2>1 DEF NoStrandedBundle
  <2>. QED
    BY <2>1, <2>6, <2>7, <2>8 DEF LifetimeInv
<1>11. CASE RollbackPrepared
  <2>1. /\ phase = "prepare_rollback" /\ phase' = "escrow" /\ pending = {}
        /\ UNCHANGED <<container, owner, final, originals, requested, rollback>>
    BY <1>11 DEF RollbackPrepared
  <2>2. TrackedBy(final, requested, {})' /\ TrackedBy(originals, rollback, {})'
    BY <2>1 DEF LifetimeInv, TrackedBy
  <2>3. NoStrandedBundle'
    BY <1>2, <2>1 DEF NoStrandedBundle
  <2>. QED
    BY <2>1, <2>2, <2>3 DEF LifetimeInv
<1>12. CASE Escrow
  <2>1. /\ phase = "escrow" /\ phase' = "write"
        /\ owner' = owner \o (requested \o rollback)
        /\ pending' = WriteSlots
        /\ UNCHANGED <<container, final, originals, requested, rollback>>
    BY <1>12 DEF Escrow, Appended
  <2>2. Elements(owner') =
           Elements(owner) \cup (Elements(requested) \cup Elements(rollback))
    BY <1>1, <2>1, ElementsConcat
  <2>3. TrackedBy(final, requested, {})' /\ TrackedBy(originals, rollback, {})'
    BY <2>1 DEF LifetimeInv, TrackedBy
  <2>4. PassedSlots(final, requested)'
    BY <2>1 DEF PassedSlots, WriteSlots, StorageSlots
  <2>5. NoStrandedBundle'
    BY <1>2, <2>1, <2>2 DEF NoStrandedBundle
  <2>6. (Elements(requested) \cup Elements(rollback) \subseteq Elements(owner))'
    BY <2>1, <2>2
  <2>. QED
    BY <2>1, <2>3, <2>4, <2>5, <2>6 DEF LifetimeInv
<1>. QED
  BY <1>4, <1>5, <1>6, <1>7, <1>8, <1>9, <1>10, <1>11, <1>12 DEF Prepare

LEMMA MutateLifetimeInv == TypeOK /\ LifetimeInv /\ Mutate => LifetimeInv'
<1>. SUFFICES ASSUME TypeOK, LifetimeInv, Mutate PROVE LifetimeInv'
  OBVIOUS
<1>1. /\ container \in [Slots -> Item] /\ owner \in Seq(Managers)
      /\ final \in [Slots -> Item] /\ originals \in [Slots -> Item]
      /\ requested \in Seq(Managers) /\ rollback \in Seq(Managers)
      /\ pending \in SUBSET Slots
  BY DEF TypeOK
<1>2. NoStrandedBundle
  BY DEF LifetimeInv
<1>3. phase \in {"write", "restore"}
  BY DEF Mutate, Write, WriteThrows, Commit, Abandon, Restore, RolledBack,
         KeptInEscrow, NotRestored, RestoreThrows
<1>4. /\ TrackedBy(final, requested, {})
      /\ TrackedBy(originals, rollback, {})
      /\ Elements(requested) \subseteq Elements(owner)
      /\ Elements(rollback) \subseteq Elements(owner)
  BY <1>3 DEF LifetimeInv
<1>5. ASSUME NEW s \in Slots, SetItem(s, final[s])
      PROVE  \A t \in Slots : IsStorage(container'[t]) =>
                container'[t].manager \in Elements(owner)
  BY <1>1, <1>2, <1>4, <1>5, PassStep
<1>6. ASSUME NEW s \in Slots, SetItem(s, originals[s])
      PROVE  \A t \in Slots : IsStorage(container'[t]) =>
                container'[t].manager \in Elements(owner)
  BY <1>1, <1>2, <1>4, <1>6, PassStep
\* An escape into the rollback: every slot is still to be restored.
<1>7. ASSUME StartRestore,
             \A t \in Slots : IsStorage(container'[t]) =>
                container'[t].manager \in Elements(owner)
      PROVE  LifetimeInv'
  <2>1. /\ phase' = "restore" /\ pending' = Slots
        /\ UNCHANGED <<owner, final, originals, requested, rollback>>
    BY <1>7 DEF StartRestore
  <2>2. TrackedBy(final, requested, {})' /\ TrackedBy(originals, rollback, {})'
    BY <1>4, <2>1 DEF TrackedBy
  <2>3. PassedSlots(originals, rollback)'
    BY <2>1 DEF PassedSlots
  <2>4. NoStrandedBundle'
    BY <1>7, <2>1 DEF NoStrandedBundle
  <2>5. (Elements(requested) \cup Elements(rollback) \subseteq Elements(owner))'
    BY <1>4, <2>1
  <2>. QED
    BY <2>1, <2>2, <2>3, <2>4, <2>5 DEF LifetimeInv
<1>8. ASSUME NEW result, Return(result), UNCHANGED <<container, owner>>
      PROVE  LifetimeInv'
  BY <1>2, <1>8, ReturnLifetime DEF NoStrandedBundle
<1>9. CASE Write
  <2>1. PICK s \in Slots : SetItem(s, final[s]) /\ pending' = pending \ {s}
    BY <1>9 DEF Write
  <2>2. /\ phase = "write" /\ phase' = "write"
        /\ UNCHANGED <<owner, final, originals, requested, rollback>>
    BY <1>9 DEF Write
  <2>3. PassedSlots(final, requested)
    BY <2>2 DEF LifetimeInv
  <2>4. \A t \in Slots \ (pending \ {s}) :
           IsStorage(final[t]) /\ container'[t].content = final[t].content =>
              container'[t].manager \in Elements(requested)
    BY <1>1, <1>2, <1>4, <2>1, <2>3, PassStep
  <2>5. PassedSlots(final, requested)'
    BY <2>1, <2>2, <2>4 DEF PassedSlots
  <2>6. TrackedBy(final, requested, {})' /\ TrackedBy(originals, rollback, {})'
    BY <1>4, <2>2 DEF TrackedBy
  <2>7. NoStrandedBundle'
    BY <1>5, <2>1, <2>2 DEF NoStrandedBundle
  <2>8. (Elements(requested) \cup Elements(rollback) \subseteq Elements(owner))'
    BY <1>4, <2>2
  <2>. QED
    BY <2>2, <2>5, <2>6, <2>7, <2>8 DEF LifetimeInv
<1>10. CASE WriteThrows
  <2>1. PICK s \in Slots : container' = container \/ SetItem(s, final[s])
    BY <1>10 DEF WriteThrows
  <2>2. \A t \in Slots : IsStorage(container'[t]) =>
           container'[t].manager \in Elements(owner)
    BY <1>2, <1>5, <2>1 DEF NoStrandedBundle
  <2>. QED
    BY <1>7, <1>10, <2>2 DEF WriteThrows
<1>11. CASE Commit
  <2>1. PICK result : Return(result)
    BY <1>11 DEF Commit
  <2>2. CASE NeedsLifetimes
    <3>1. owner' = requested
      BY <1>1, <1>11, <2>2, ReplacedIsNew DEF Commit
    <3>2. PassedSlots(final, requested) /\ pending = {} /\ Matches(final)
      BY <1>11 DEF Commit, LifetimeInv
    <3>3. \A s \in Slots : IsStorage(container[s]) =>
             container[s].manager \in Elements(requested)
      BY <3>2, PassComplete
    <3>4. container' = container
      BY <1>11 DEF Commit
    <3>. QED
      BY <2>1, <3>1, <3>3, <3>4, ReturnLifetime
  <2>3. CASE ~NeedsLifetimes
    BY <1>8, <1>11, <2>1, <2>3 DEF Commit
  <2>. QED
    BY <2>2, <2>3
<1>12. CASE Abandon
  BY <1>2, <1>7, <1>12 DEF Abandon, NoStrandedBundle
<1>13. CASE Restore
  <2>1. PICK s \in Slots : SetItem(s, originals[s]) /\ pending' = pending \ {s}
    BY <1>13 DEF Restore
  <2>2. /\ phase = "restore" /\ phase' = "restore"
        /\ UNCHANGED <<owner, final, originals, requested, rollback>>
    BY <1>13 DEF Restore
  <2>3. PassedSlots(originals, rollback)
    BY <2>2 DEF LifetimeInv
  <2>4. \A t \in Slots \ (pending \ {s}) :
           IsStorage(originals[t]) /\ container'[t].content = originals[t].content =>
              container'[t].manager \in Elements(rollback)
    BY <1>1, <1>2, <1>4, <2>1, <2>3, PassStep
  <2>5. PassedSlots(originals, rollback)'
    BY <2>1, <2>2, <2>4 DEF PassedSlots
  <2>6. TrackedBy(final, requested, {})' /\ TrackedBy(originals, rollback, {})'
    BY <1>4, <2>2 DEF TrackedBy
  <2>7. NoStrandedBundle'
    BY <1>6, <2>1, <2>2 DEF NoStrandedBundle
  <2>8. (Elements(requested) \cup Elements(rollback) \subseteq Elements(owner))'
    BY <1>4, <2>2
  <2>. QED
    BY <2>2, <2>5, <2>6, <2>7, <2>8 DEF LifetimeInv
<1>14. CASE RolledBack
  <2>1. PICK result : Return(result)
    BY <1>14 DEF RolledBack
  <2>2. CASE NeedsLifetimes
    <3>1. owner' = rollback
      BY <1>1, <1>14, <2>2, ReplacedIsNew DEF RolledBack
    <3>2. PassedSlots(originals, rollback) /\ pending = {} /\ Matches(originals)
      BY <1>14 DEF RolledBack, LifetimeInv
    <3>3. \A s \in Slots : IsStorage(container[s]) =>
             container[s].manager \in Elements(rollback)
      BY <3>2, PassComplete
    <3>4. container' = container
      BY <1>14 DEF RolledBack
    <3>. QED
      BY <2>1, <3>1, <3>3, <3>4, ReturnLifetime
  <2>3. CASE ~NeedsLifetimes
    BY <1>8, <1>14, <2>1, <2>3 DEF RolledBack
  <2>. QED
    BY <2>2, <2>3
<1>15. CASE KeptInEscrow \/ NotRestored
  BY <1>8, <1>15 DEF KeptInEscrow, NotRestored
<1>16. CASE RestoreThrows
  <2>1. PICK s \in Slots : container' = container \/ SetItem(s, originals[s])
    BY <1>16 DEF RestoreThrows
  <2>2. \A t \in Slots : IsStorage(container'[t]) =>
           container'[t].manager \in Elements(owner)
    BY <1>2, <1>6, <2>1 DEF NoStrandedBundle
  <2>3. PICK result : Return(result)
    BY <1>16 DEF RestoreThrows
  <2>4. owner' = owner
    BY <1>16 DEF RestoreThrows
  <2>. QED
    BY <2>2, <2>3, <2>4, ReturnLifetime
<1>. QED
  BY <1>9, <1>10, <1>11, <1>12, <1>13, <1>14, <1>15, <1>16 DEF Mutate

LEMMA NextLifetimeInv == TypeOK /\ LifetimeInv /\ [Next]_vars => LifetimeInv'
<1>. SUFFICES ASSUME TypeOK, LifetimeInv, [Next]_vars PROVE LifetimeInv'
  OBVIOUS
<1>1. CASE WorldEdit
  <2>1. /\ phase = "idle" /\ phase' = "idle"
        /\ UNCHANGED <<requested, rollback>>
    BY <1>1 DEF WorldEdit
  <2>2. PICK s \in Slots, c \in Contents :
           IF c \in Bundles
           THEN /\ FreeManagers # {}
                /\ container' = [container EXCEPT ![s] =
                       [content |-> c, manager |-> FreshManager]]
                /\ owner' = Append(owner, FreshManager)
           ELSE /\ container' = [container EXCEPT ![s] = Stack(c)]
                /\ UNCHANGED owner
    BY <1>1 DEF WorldEdit
  <2>3. CASE c \in Bundles
    <3>1. Elements(owner') = Elements(owner) \cup {FreshManager}
      BY <2>2, <2>3, ElementsAppend, FreshManagerType DEF TypeOK
    <3>2. container' = [container EXCEPT ![s] =
             [content |-> c, manager |-> FreshManager]]
      BY <2>2, <2>3
    <3>3. /\ container'[s].manager = FreshManager
          /\ \A t \in Slots \ {s} : container'[t] = container[t]
      BY <3>2 DEF TypeOK
    <3>. QED
      BY <2>1, <3>1, <3>3 DEF LifetimeInv, NoStrandedBundle
  <2>4. CASE c \notin Bundles
    <3>1. /\ ~IsStorage(container'[s])
          /\ \A t \in Slots \ {s} : container'[t] = container[t]
      BY <2>2, <2>4 DEF TypeOK, IsStorage, Stack
    <3>. QED
      BY <2>1, <2>2, <2>4, <3>1 DEF LifetimeInv, NoStrandedBundle
  <2>. QED
    BY <2>3, <2>4
<1>2. CASE Call \/ Collect
  <2>1. /\ phase \in {"idle", "returned"} /\ phase' \in {"called", "idle"}
        /\ UNCHANGED <<container, owner, requested, rollback>>
    BY <1>2 DEF Call, Collect
  <2>. QED
    BY <2>1 DEF LifetimeInv, NoStrandedBundle
<1>3. CASE Prepare
  BY <1>3, PrepareLifetimeInv
<1>4. CASE Mutate
  BY <1>4, MutateLifetimeInv
<1>5. CASE UNCHANGED vars
  BY <1>5 DEF vars, LifetimeInv, NoStrandedBundle, TrackedBy, PassedSlots
<1>. QED
  BY <1>1, <1>2, <1>3, <1>4, <1>5 DEF Next

(***************************************************************************)
(* The inductive invariant of the bundle lifetimes.                        *)
(***************************************************************************)
THEOREM LifetimesInvariant == Spec => []LifetimeInv
BY InitLifetimeInv, NextLifetimeInv, TypeCorrect, PTL DEF Spec

(***************************************************************************)
(* No write, no failure and no rollback ever leaves a bundle in the        *)
(* container whose manager the owner of the block does not keep alive.     *)
(***************************************************************************)
THEOREM BundlesKeepTheirManagers == Spec => []NoStrandedBundle
<1>1. LifetimeInv => NoStrandedBundle
  BY DEF LifetimeInv
<1>. QED
  BY <1>1, LifetimesInvariant, PTL

-----------------------------------------------------------------------------
(***************************************************************************)
(* Truthful results.                                                       *)
(***************************************************************************)
LEMMA FlattenedFingerprint ==
    ASSUME NEW shown \in [Slots -> Contents], NEW stacks,
           stacks = [s \in Slots |-> Stack(shown[s])]
    PROVE  Fingerprint(stacks) = shown
BY DEF Fingerprint, Stack

\* Giving a stack a manager does not change what it shows.
LEMMA ManagedFingerprint ==
    ASSUME NEW stacks \in [Slots -> Item], NEW s \in Slots, NEW m
    PROVE  Fingerprint([stacks EXCEPT ![s].manager = m]) = Fingerprint(stacks)
BY DEF Fingerprint, Item

LEMMA OverlayNothing ==
    ASSUME NEW before \in [Slots -> Contents], NEW patch, Touched(patch) = {}
    PROVE  Overlay(before, patch) = before
<1>1. \A s \in Slots : patch[s] = Keep
  BY DEF Touched
<1>. QED
  BY <1>1 DEF Overlay

LEMMA InitPlanInv == Init => PlanInv
BY DEF Init, PlanInv

LEMMA NextPlanInv == TypeOK /\ PlanInv /\ [Next]_vars => PlanInv'
<1>. SUFFICES ASSUME TypeOK, PlanInv, [Next]_vars PROVE PlanInv'
  OBVIOUS
<1>1. /\ container \in [Slots -> Item]
      /\ final \in [Slots -> Item] /\ originals \in [Slots -> Item]
  BY DEF TypeOK
<1>2. ASSUME NEW result, Return(result)
      PROVE  PlanInv'
  BY <1>2 DEF Return, PlanInv
<1>3. CASE WorldEdit \/ Call \/ Collect
  BY <1>3 DEF WorldEdit, Call, Collect, PlanInv
<1>4. CASE RefuseCall
  <2>1. PICK result : Return(result)
    BY <1>4 DEF RefuseCall
  <2>. QED
    BY <1>2, <2>1
<1>5. CASE Conflict \/ Unchanged \/ RefusePlan \/ MaterializeFails
              \/ PrepareRollbackFails \/ EscrowFails
  BY <1>2, <1>5 DEF Conflict, Unchanged, RefusePlan, MaterializeFails,
                    PrepareRollbackFails, EscrowFails
<1>6. CASE Commit \/ RolledBack \/ KeptInEscrow \/ NotRestored
  <2>1. PICK result : Return(result)
    BY <1>6 DEF Commit, RolledBack, KeptInEscrow, NotRestored
  <2>. QED
    BY <1>2, <2>1
<1>7. CASE RestoreThrows
  <2>1. PICK result : Return(result)
    BY <1>7 DEF RestoreThrows
  <2>. QED
    BY <1>2, <2>1
<1>8. CASE Plan
  <2>1. request \in Request /\ request' = request /\ container' = container
    BY <1>8 DEF Plan, Current, TypeOK
  <2>2. Fingerprint(container) \in [Slots -> Contents]
    BY <1>1, FingerprintType
  <2>3. Overlay(Fingerprint(container), request.patch) \in [Slots -> Contents]
    BY <2>1, <2>2 DEF Overlay, Request, Patch
  <2>4. Fingerprint(originals') = Fingerprint(container)
    BY <1>8, <2>2, FlattenedFingerprint DEF Plan
  <2>5. Fingerprint(final') = Overlay(Fingerprint(container), request.patch)
    BY <1>8, <2>3, FlattenedFingerprint DEF Plan
  <2>6. Served /\ ~Stale(request, Fingerprint(container))
    BY <1>8 DEF Plan, Current
  <2>7. Fingerprint(container') = Fingerprint(container)
    BY <2>1
  <2>. QED
    BY <2>1, <2>4, <2>5, <2>6, <2>7 DEF PlanInv, Served
<1>9. CASE Materialize
  <2>1. PICK s \in Slots : final' = [final EXCEPT ![s].manager = FreshManager]
    BY <1>9 DEF Materialize
  <2>2. Fingerprint(final') = Fingerprint(final)
    BY <1>1, <2>1, ManagedFingerprint
  <2>3. /\ phase = "materialize" /\ phase' = "materialize"
        /\ UNCHANGED <<container, originals, request>>
    BY <1>9 DEF Materialize
  <2>. QED
    BY <2>2, <2>3 DEF PlanInv, Served
<1>10. CASE PrepareRollback
  <2>1. PICK s \in Slots : originals' = [originals EXCEPT ![s].manager = FreshManager]
    BY <1>10 DEF PrepareRollback
  <2>2. Fingerprint(originals') = Fingerprint(originals)
    BY <1>1, <2>1, ManagedFingerprint
  <2>3. /\ phase = "prepare_rollback" /\ phase' = "prepare_rollback"
        /\ UNCHANGED <<container, final, request>>
    BY <1>10 DEF PrepareRollback
  <2>. QED
    BY <2>2, <2>3 DEF PlanInv, Served
<1>11. CASE Materialized \/ RollbackPrepared \/ Escrow
  BY <1>11 DEF Materialized, RollbackPrepared, Escrow, PlanInv, Served
<1>12. CASE Write \/ WriteThrows \/ Abandon \/ Restore
  <2>1. /\ phase \in {"write", "restore"} /\ phase' \in {"write", "restore"}
        /\ UNCHANGED <<final, originals, request>>
    BY <1>12 DEF Write, WriteThrows, Abandon, Restore, StartRestore
  <2>. QED
    BY <2>1 DEF PlanInv, Served
<1>13. CASE UNCHANGED vars
  BY <1>13 DEF vars, PlanInv, Served
<1>. QED
  BY <1>3, <1>4, <1>5, <1>6, <1>7, <1>8, <1>9, <1>10, <1>11, <1>12, <1>13
     DEF Next, Prepare, Mutate

(***************************************************************************)
(* The plan a transaction works from stays that of the contents it found   *)
(* current.                                                                *)
(***************************************************************************)
THEOREM PlanInvariant == Spec => []PlanInv
BY InitPlanInv, NextPlanInv, TypeCorrect, PTL DEF Spec

ResultInv == RevisionOfWhatIsLeft /\ AppliedOverExpected

\* A failure is answered truthfully when its revision, if any, is what is left.
LEMMA FailureTruthful ==
    ASSUME NEW st \in ApplyStatus \ {"Applied"}, NEW rev \in Revision,
           NEW back \in {"none", "complete", "incomplete"},
           Return(Result(st, rev, back)),
           rev \in {NoRevision, Fingerprint(container')}
    PROVE  ResultInv'
<1>1. reply' = Result(st, rev, back)
  BY DEF Return
<1>2. reply'.status = st /\ reply'.revision = rev
  BY <1>1, ResultType
<1>. QED
  BY <1>2 DEF ResultInv, RevisionOfWhatIsLeft, AppliedOverExpected

\* A success, when in addition the overlay is what is left.
LEMMA SuccessTruthful ==
    ASSUME NEW before \in Revision, NEW rev \in Revision,
           request \in Request,
           ~Stale(request, before),
           Return(Result("Applied", rev, "none")),
           rev \in {NoRevision, Fingerprint(container')},
           Fingerprint(container') = Overlay(before, request.patch)
    PROVE  ResultInv'
<1>1. reply' = Result("Applied", rev, "none") /\ request' = request
  BY DEF Return
<1>2. reply'.status = "Applied" /\ reply'.revision = rev
  BY <1>1, ResultType DEF ApplyStatus
<1>3. \/ request.policy = "Force"
      \/ request.expected = NoRevision
      \/ Fingerprint(container') = Overlay(request.expected, request.patch)
  BY DEF Stale
<1>4. \A s \in Touched(request.patch) : container'[s].content = request.patch[s]
  <2>. SUFFICES ASSUME NEW s \in Touched(request.patch)
                PROVE  container'[s].content = request.patch[s]
    OBVIOUS
  <2>1. s \in Slots /\ request.patch[s] # Keep
    BY DEF Touched
  <2>2. Fingerprint(container')[s] = container'[s].content
    BY <2>1 DEF Fingerprint
  <2>3. Overlay(before, request.patch)[s] = request.patch[s]
    BY <2>1 DEF Overlay
  <2>. QED
    BY <2>2, <2>3
<1>. QED
  BY <1>1, <1>2, <1>3, <1>4 DEF ResultInv, RevisionOfWhatIsLeft, AppliedOverExpected

LEMMA NextResultInv == TypeOK /\ PlanInv /\ ResultInv /\ [Next]_vars => ResultInv'
<1>. SUFFICES ASSUME TypeOK, PlanInv, ResultInv, [Next]_vars PROVE ResultInv'
  OBVIOUS
<1>1. /\ container \in [Slots -> Item]
      /\ final \in [Slots -> Item] /\ originals \in [Slots -> Item]
  BY DEF TypeOK
<1>2. /\ Fingerprint(container) \in Revision /\ Fingerprint(originals) \in Revision
      /\ Fingerprint(container) \in [Slots -> Contents]
      /\ NoRevision \in Revision
  BY <1>1, FingerprintType DEF Revision
<1>. USE DEF ApplyStatus
<1>3. ASSUME phase' # "returned" PROVE ResultInv'
  BY <1>3 DEF ResultInv, RevisionOfWhatIsLeft, AppliedOverExpected
<1>4. CASE WorldEdit \/ Call \/ Collect
  BY <1>3, <1>4 DEF WorldEdit, Call, Collect
<1>5. CASE Materialize \/ Materialized \/ PrepareRollback \/ RollbackPrepared
              \/ Escrow \/ Write \/ WriteThrows \/ Abandon \/ Restore
  BY <1>3, <1>5 DEF Materialize, Materialized, PrepareRollback, RollbackPrepared,
       Escrow, Write, WriteThrows, Abandon, Restore, StartRestore
<1>6. CASE Plan
  BY <1>3, <1>6 DEF Plan
<1>7. CASE RefuseCall
  <2>1. PICK st \in ApplyStatus \ {"Applied"} : Return(Result(st, NoRevision, "none"))
    BY <1>7 DEF RefuseCall
  <2>. QED
    BY <1>2, <2>1, FailureTruthful
<1>8. CASE Conflict
  <2>1. container' = container /\ Return(Result("Conflict", Fingerprint(container), "none"))
    BY <1>8 DEF Conflict
  <2>2. Fingerprint(container) \in {NoRevision, Fingerprint(container')}
    BY <2>1
  <2>. QED
    BY <1>2, <2>1, <2>2, FailureTruthful
<1>9. CASE RefusePlan
  <2>1. PICK st \in ApplyStatus \ {"Applied"} :
           Return(Result(st, Fingerprint(container), "none"))
    BY <1>9 DEF RefusePlan
  <2>2. Fingerprint(container) \in {NoRevision, Fingerprint(container')}
    BY <1>9 DEF RefusePlan
  <2>. QED
    BY <1>2, <2>1, <2>2, FailureTruthful
<1>10. CASE MaterializeFails \/ PrepareRollbackFails \/ EscrowFails
  <2>1. PICK st \in ApplyStatus \ {"Applied"} :
           Return(Result(st, Fingerprint(originals), "none"))
    BY <1>10 DEF MaterializeFails, PrepareRollbackFails, EscrowFails
  <2>2. /\ container' = container
        /\ phase \in {"materialize", "prepare_rollback", "escrow"}
    BY <1>10 DEF MaterializeFails, PrepareRollbackFails, EscrowFails
  <2>3. Fingerprint(originals) \in {NoRevision, Fingerprint(container')}
    BY <2>2 DEF PlanInv
  <2>. QED
    BY <1>2, <2>1, <2>3, FailureTruthful
<1>11. CASE Unchanged
  <2>1. /\ container' = container /\ ~Stale(request, Fingerprint(container))
        /\ Touched(request.patch) = {} /\ request \in Request
        /\ Return(Result("Applied", Fingerprint(container), "none"))
    BY <1>11 DEF Unchanged, Current, TypeOK
  <2>2. Fingerprint(container') = Fingerprint(container)
    BY <2>1
  <2>3. Fingerprint(container') = Overlay(Fingerprint(container), request.patch)
    BY <1>2, <2>1, <2>2, OverlayNothing
  <2>. QED
    BY <1>2, <2>1, <2>2, <2>3, SuccessTruthful
<1>12. CASE Commit
  <2>1. /\ container' = container /\ phase = "write" /\ Matches(final)
        /\ request \in Request
    BY <1>12 DEF Commit, TypeOK
  <2>2. PICK rev \in {NoRevision, Fingerprint(container)} :
           Return(Result("Applied", rev, "none"))
    BY <1>12 DEF Commit
  <2>3. ~Stale(request, Fingerprint(originals))
    BY <2>1 DEF PlanInv
  <2>4. Fingerprint(container') = Fingerprint(container)
    BY <2>1
  <2>5. Fingerprint(container') = Overlay(Fingerprint(originals), request.patch)
    BY <2>1, <2>4 DEF PlanInv, Matches
  <2>. QED
    BY <1>2, <2>1, <2>2, <2>3, <2>4, <2>5, SuccessTruthful
<1>13. CASE RolledBack \/ KeptInEscrow
  <2>1. PICK back \in {"complete", "incomplete"} :
           Return(Result("AdapterError", Fingerprint(originals), back))
    BY <1>13 DEF RolledBack, KeptInEscrow
  <2>2. Fingerprint(originals) \in {NoRevision, Fingerprint(container')}
    BY <1>13 DEF RolledBack, KeptInEscrow, Matches
  <2>. QED
    BY <1>2, <2>1, <2>2, FailureTruthful
<1>14. CASE NotRestored
  <2>1. PICK rev \in {NoRevision, Fingerprint(container)} :
           Return(Result("AdapterError", rev, "incomplete"))
    BY <1>14 DEF NotRestored
  <2>2. rev \in {NoRevision, Fingerprint(container')}
    BY <1>14, <2>1 DEF NotRestored
  <2>. QED
    BY <1>2, <2>1, <2>2, FailureTruthful
<1>15. CASE RestoreThrows
  <2>1. PICK rev \in {NoRevision, Fingerprint(container')} :
           Return(Result("AdapterError", rev, "incomplete"))
    BY <1>15 DEF RestoreThrows
  <2>2. container' \in [Slots -> Item]
    BY <1>1, <1>15, SetItemType DEF RestoreThrows
  <2>3. rev \in Revision
    BY <1>2, <2>1, <2>2, FingerprintType
  <2>. QED
    BY <2>1, <2>3, FailureTruthful
<1>16. CASE UNCHANGED vars
  BY <1>16 DEF vars, ResultInv, RevisionOfWhatIsLeft, AppliedOverExpected
<1>. QED
  BY <1>4, <1>5, <1>6, <1>7, <1>8, <1>9, <1>10, <1>11, <1>12, <1>13, <1>14,
     <1>15, <1>16 DEF Next, Prepare, Mutate

(***************************************************************************)
(* Every revision a result carries is that of the contents left behind.    *)
(***************************************************************************)
THEOREM RevisionsAreTruthful == Spec => []RevisionOfWhatIsLeft
<1>1. Init => ResultInv
  BY DEF Init, ResultInv, RevisionOfWhatIsLeft, AppliedOverExpected
<1>2. ResultInv => RevisionOfWhatIsLeft
  BY DEF ResultInv
<1>. QED
  BY <1>1, <1>2, NextResultInv, TypeCorrect, PlanInvariant, PTL DEF Spec

(***************************************************************************)
(* No update is lost: what an accepted patch leaves is the revision its    *)
(* caller captured, under the patch.                                       *)
(***************************************************************************)
THEOREM NoLostUpdate == Spec => []AppliedOverExpected
<1>1. Init => ResultInv
  BY DEF Init, ResultInv, RevisionOfWhatIsLeft, AppliedOverExpected
<1>2. ResultInv => AppliedOverExpected
  BY DEF ResultInv
<1>. QED
  BY <1>1, <1>2, NextResultInv, TypeCorrect, PlanInvariant, PTL DEF Spec

-----------------------------------------------------------------------------
(***************************************************************************)
(* ContainerTransaction implements AtomicContainer.                        *)
(***************************************************************************)

\* The instance speaks of the same slots, contents, patches and results.
LEMMA AtomicVocabulary ==
    /\ Atomic!Slots = Slots
    /\ Atomic!Contents = Contents
    /\ Atomic!Request = Request
    /\ Atomic!ApplyStatus = ApplyStatus
    /\ Atomic!Served <=> Served
    /\ \A before, patch : Atomic!Overlay(before, patch) = Overlay(before, patch)
    /\ \A req, current : Atomic!Stale(req, current) <=> Stale(req, current)
    /\ \A st, rev, back : Atomic!Result(st, rev, back) = Result(st, rev, back)
<1>1. Atomic!Slots = Slots
  BY DEF Atomic!Slots, Slots
<1>2. Atomic!Contents = Contents
  BY DEF Atomic!Contents, Contents
<1>3. Atomic!Revision = Revision /\ Atomic!Patch = Patch
  BY <1>1, <1>2 DEF Atomic!Revision, Revision, Atomic!Patch, Patch
<1>4. Atomic!Request = Request
  BY <1>3 DEF Atomic!Request, Request
<1>5. Atomic!ApplyStatus = ApplyStatus
  BY DEF Atomic!ApplyStatus, ApplyStatus
<1>6. Atomic!Served <=> Served
  BY DEF Atomic!Served, Served
<1>7. \A before, patch : Atomic!Overlay(before, patch) = Overlay(before, patch)
  BY <1>1 DEF Atomic!Overlay, Overlay
<1>8. \A req, current : Atomic!Stale(req, current) <=> Stale(req, current)
  BY DEF Atomic!Stale, Stale
<1>9. \A st, rev, back : Atomic!Result(st, rev, back) = Result(st, rev, back)
  BY DEF Atomic!Result, Result
<1>. QED
  BY <1>1, <1>2, <1>4, <1>5, <1>6, <1>7, <1>8, <1>9

\* A return that leaves the shown contents alone is a refusal.
LEMMA RefuseStep ==
    ASSUME TypeOK, phase \notin {"idle", "returned"},
           NEW st \in ApplyStatus \ {"Applied"}, NEW rev \in {NoRevision, Shown},
           NEW back \in {"none", "complete"},
           st = "Conflict" => Stale(request, Shown),
           back = "complete" => st = "AdapterError",
           Return(Result(st, rev, back)), Shown' = Shown
    PROVE  Atomic!ARefuse
<1>1. Atomic!Serving
  BY DEF Atomic!Serving, TypeOK
<1>2. reply' = Result(st, rev, back) /\ request' = request
  BY DEF Return
<1>3. \E s \in ApplyStatus \ {"Applied"}, r \in {NoRevision, Shown},
         b \in {"none", "complete"} :
         /\ s = "Conflict" => Stale(request, Shown)
         /\ b = "complete" => s = "AdapterError"
         /\ reply' = Result(s, r, b)
  BY <1>2
<1>. QED
  BY <1>1, <1>2, <1>3, AtomicVocabulary DEF Atomic!ARefuse

LEMMA DamageStep ==
    ASSUME TypeOK, phase = "restore", PlanInv, Shown' \in [Slots -> Contents],
           NEW rev \in {NoRevision, Shown'},
           Return(Result("AdapterError", rev, "incomplete"))
    PROVE  Atomic!ADamage
<1>1. Atomic!Serving
  BY DEF Atomic!Serving, TypeOK
<1>2. reply' = Result("AdapterError", rev, "incomplete") /\ request' = request
  BY DEF Return
<1>3. Served /\ ~Stale(request, Shown)
  BY DEF PlanInv, Shown
<1>. QED
  BY <1>1, <1>2, <1>3, AtomicVocabulary DEF Atomic!ADamage

LEMMA CommitStep ==
    ASSUME TypeOK, phase \notin {"idle", "returned"}, Served, ~Stale(request, Shown),
           Shown' = Overlay(Shown, request.patch),
           NEW rev \in {NoRevision, Shown'},
           Return(Result("Applied", rev, "none"))
    PROVE  Atomic!ACommit
<1>1. Atomic!Serving
  BY DEF Atomic!Serving, TypeOK
<1>2. reply' = Result("Applied", rev, "none") /\ request' = request
  BY DEF Return
<1>. QED
  BY <1>1, <1>2, AtomicVocabulary DEF Atomic!ACommit

LEMMA StepImplements ==
    TypeOK /\ PlanInv /\ TypeOK' /\ PlanInv' /\ [Next]_vars
       => [Atomic!ANext]_(Atomic!avars)
<1>. SUFFICES ASSUME TypeOK, PlanInv, TypeOK', PlanInv', [Next]_vars
              PROVE  [Atomic!ANext]_(Atomic!avars)
  OBVIOUS
<1>1. /\ container \in [Slots -> Item] /\ originals \in [Slots -> Item]
      /\ container' \in [Slots -> Item]
  BY DEF TypeOK
<1>2. /\ Fingerprint(container) \in [Slots -> Contents]
      /\ Fingerprint(container') \in [Slots -> Contents]
  BY <1>1, FingerprintType
<1>3. ASSUME Shown' = Shown, request' = request, reply' = reply
      PROVE  [Atomic!ANext]_(Atomic!avars)
  BY <1>3 DEF Atomic!avars
<1>4. ASSUME NEW result, Return(result) PROVE Shown' = Fingerprint(container')
  BY <1>4 DEF Return, Shown
<1>5. CASE WorldEdit
  <2>1. PICK s \in Slots, c \in Contents :
           IF c \in Bundles
           THEN container' = [container EXCEPT ![s] =
                       [content |-> c, manager |-> FreshManager]]
           ELSE container' = [container EXCEPT ![s] = Stack(c)]
    BY <1>5 DEF WorldEdit
  <2>2. /\ container'[s].content = c
        /\ \A t \in Slots \ {s} : container'[t] = container[t]
    BY <1>1, <2>1 DEF Stack
  <2>3. Fingerprint(container') = [Fingerprint(container) EXCEPT ![s] = c]
    BY <2>2 DEF Fingerprint
  <2>4. Shown' = [Shown EXCEPT ![s] = c]
    BY <1>5, <2>3 DEF WorldEdit, Shown
  <2>5. request = NoRequest /\ UNCHANGED <<request, reply>>
    BY <1>5 DEF WorldEdit, TypeOK
  <2>6. Atomic!AEdit
    BY <2>4, <2>5, AtomicVocabulary DEF Atomic!AEdit
  <2>. QED
    BY <2>6 DEF Atomic!ANext
<1>6. CASE Call
  <2>1. request = NoRequest /\ request' \in Request /\ UNCHANGED <<Shown, reply>>
    BY <1>6 DEF Call, TypeOK, Shown
  <2>2. Atomic!ASubmit
    BY <2>1, AtomicVocabulary DEF Atomic!ASubmit
  <2>. QED
    BY <2>2 DEF Atomic!ANext
<1>7. CASE Collect
  <2>1. /\ reply # NoReply /\ request' = NoRequest /\ reply' = NoReply
        /\ Shown' = Shown
    BY <1>7 DEF Collect, TypeOK, Shown
  <2>2. Atomic!ACollect
    BY <2>1 DEF Atomic!ACollect
  <2>. QED
    BY <2>2 DEF Atomic!ANext
<1>8. CASE RefuseCall
  <2>1. PICK st \in ApplyStatus \ {"Applied", "Conflict"} :
           Return(Result(st, NoRevision, "none"))
    BY <1>8 DEF RefuseCall, ApplyStatus
  <2>2. Shown' = Shown /\ phase = "called"
    BY <1>4, <1>8, <2>1 DEF RefuseCall, Shown
  <2>3. Atomic!ARefuse
    BY <2>1, <2>2, RefuseStep
  <2>. QED
    BY <2>3 DEF Atomic!ANext
<1>9. CASE Conflict
  <2>1. /\ Return(Result("Conflict", Fingerprint(container), "none"))
        /\ phase = "called" /\ container' = container
        /\ Stale(request, Fingerprint(container))
    BY <1>9 DEF Conflict
  <2>2. Shown' = Shown /\ Shown = Fingerprint(container)
    BY <1>4, <2>1 DEF Shown
  <2>3. Atomic!ARefuse
    BY <2>1, <2>2, RefuseStep DEF ApplyStatus
  <2>. QED
    BY <2>3 DEF Atomic!ANext
<1>10. CASE Unchanged
  <2>1. /\ Return(Result("Applied", Fingerprint(container), "none"))
        /\ phase = "called" /\ container' = container /\ Served
        /\ ~Stale(request, Fingerprint(container)) /\ Touched(request.patch) = {}
    BY <1>10 DEF Unchanged, Current
  <2>2. Shown' = Shown /\ Shown = Fingerprint(container)
    BY <1>4, <2>1 DEF Shown
  <2>3. Shown' = Overlay(Shown, request.patch)
    BY <1>2, <2>1, <2>2, OverlayNothing
  <2>4. Atomic!ACommit
    BY <2>1, <2>2, <2>3, CommitStep
  <2>. QED
    BY <2>4 DEF Atomic!ANext
<1>11. CASE RefusePlan
  <2>1. PICK st \in ApplyStatus \ {"Applied", "Conflict"} :
           Return(Result(st, Fingerprint(container), "none"))
    BY <1>11 DEF RefusePlan, ApplyStatus
  <2>2. Shown' = Shown /\ phase = "called" /\ Shown = Fingerprint(container)
    BY <1>4, <1>11, <2>1 DEF RefusePlan, Current, Shown
  <2>3. Atomic!ARefuse
    BY <2>1, <2>2, RefuseStep
  <2>. QED
    BY <2>3 DEF Atomic!ANext
<1>12. CASE MaterializeFails \/ PrepareRollbackFails \/ EscrowFails
  <2>1. PICK st \in ApplyStatus \ {"Applied", "Conflict"} :
           Return(Result(st, Fingerprint(originals), "none"))
    BY <1>12 DEF MaterializeFails, PrepareRollbackFails, EscrowFails, ApplyStatus
  <2>2. /\ phase \in {"materialize", "prepare_rollback", "escrow"}
        /\ container' = container
    BY <1>12 DEF MaterializeFails, PrepareRollbackFails, EscrowFails
  <2>3. Shown' = Shown /\ Shown = Fingerprint(originals)
    BY <1>4, <2>1, <2>2 DEF PlanInv, Shown
  <2>4. Atomic!ARefuse
    BY <2>1, <2>2, <2>3, RefuseStep
  <2>. QED
    BY <2>4 DEF Atomic!ANext
<1>13. CASE Plan
  <2>1. /\ phase = "called" /\ phase' \in {"materialize", "write"}
        /\ container' = container
        /\ originals' = [s \in Slots |-> Stack(Fingerprint(container)[s])]
        /\ UNCHANGED <<request, reply>>
    BY <1>13 DEF Plan, Current
  <2>2. Fingerprint(originals') = Fingerprint(container)
    BY <1>2, <2>1, FlattenedFingerprint
  <2>3. Shown' = Shown
    BY <2>1, <2>2 DEF Shown
  <2>. QED
    BY <1>3, <2>1, <2>3
<1>14. CASE Materialize \/ Materialized \/ PrepareRollback \/ RollbackPrepared
  <2>1. /\ phase \in {"materialize", "prepare_rollback"}
        /\ phase' \in {"materialize", "prepare_rollback", "escrow"}
        /\ UNCHANGED <<container, request, reply>>
    BY <1>14 DEF Materialize, Materialized, PrepareRollback, RollbackPrepared
  <2>. QED
    BY <1>3, <2>1 DEF Shown
<1>15. CASE Escrow
  <2>1. /\ phase = "escrow" /\ phase' = "write"
        /\ UNCHANGED <<container, originals, request, reply>>
    BY <1>15 DEF Escrow
  <2>2. Shown' = Shown
    BY <2>1 DEF PlanInv, Shown
  <2>. QED
    BY <1>3, <2>1, <2>2
<1>16. CASE Write \/ WriteThrows \/ Abandon \/ Restore
  <2>1. /\ phase \in {"write", "restore"} /\ phase' \in {"write", "restore"}
        /\ UNCHANGED <<originals, request, reply>>
    BY <1>16 DEF Write, WriteThrows, Abandon, Restore, StartRestore
  <2>2. Shown' = Shown
    BY <2>1 DEF Shown
  <2>. QED
    BY <1>3, <2>1, <2>2
<1>17. CASE Commit
  <2>1. /\ phase = "write" /\ container' = container /\ Matches(final)
    BY <1>17 DEF Commit
  <2>2. PICK rev \in {NoRevision, Fingerprint(container)} :
           Return(Result("Applied", rev, "none"))
    BY <1>17 DEF Commit
  <2>3. Shown = Fingerprint(originals) /\ Shown' = Fingerprint(container)
    BY <1>4, <2>1, <2>2 DEF Shown
  <2>4. /\ Served /\ ~Stale(request, Shown)
        /\ Shown' = Overlay(Shown, request.patch)
    BY <2>1, <2>3 DEF PlanInv, Matches
  <2>5. Atomic!ACommit
    BY <2>1, <2>2, <2>3, <2>4, CommitStep
  <2>. QED
    BY <2>5 DEF Atomic!ANext
<1>18. CASE RolledBack
  <2>1. /\ phase = "restore" /\ container' = container /\ Matches(originals)
        /\ Return(Result("AdapterError", Fingerprint(originals), "complete"))
    BY <1>18 DEF RolledBack
  <2>2. Shown = Fingerprint(originals) /\ Shown' = Shown
    BY <1>4, <2>1 DEF Shown, Matches
  <2>3. Atomic!ARefuse
    BY <2>1, <2>2, RefuseStep DEF ApplyStatus
  <2>. QED
    BY <2>3 DEF Atomic!ANext
<1>19. CASE KeptInEscrow
  <2>1. /\ phase = "restore" /\ container' = container /\ Matches(originals)
        /\ Return(Result("AdapterError", Fingerprint(originals), "incomplete"))
    BY <1>19 DEF KeptInEscrow
  <2>2. Shown' = Fingerprint(originals) /\ Shown' = Fingerprint(container)
    BY <1>4, <2>1 DEF Matches
  <2>3. Atomic!ADamage
    BY <1>2, <2>1, <2>2, DamageStep
  <2>. QED
    BY <2>3 DEF Atomic!ANext
<1>20. CASE NotRestored
  <2>1. phase = "restore" /\ container' = container
    BY <1>20 DEF NotRestored
  <2>2. PICK rev \in {NoRevision, Fingerprint(container)} :
           Return(Result("AdapterError", rev, "incomplete"))
    BY <1>20 DEF NotRestored
  <2>3. Shown' = Fingerprint(container)
    BY <1>4, <2>1, <2>2
  <2>4. Atomic!ADamage
    BY <1>2, <2>1, <2>2, <2>3, DamageStep
  <2>. QED
    BY <2>4 DEF Atomic!ANext
<1>21. CASE RestoreThrows
  <2>1. phase = "restore"
    BY <1>21 DEF RestoreThrows
  <2>2. PICK rev \in {NoRevision, Fingerprint(container')} :
           Return(Result("AdapterError", rev, "incomplete"))
    BY <1>21 DEF RestoreThrows
  <2>3. Shown' = Fingerprint(container')
    BY <1>4, <2>2
  <2>4. Atomic!ADamage
    BY <1>2, <2>1, <2>2, <2>3, DamageStep
  <2>. QED
    BY <2>4 DEF Atomic!ANext
<1>22. CASE UNCHANGED vars
  BY <1>3, <1>22 DEF vars, Shown
<1>. QED
  BY <1>5, <1>6, <1>7, <1>8, <1>9, <1>10, <1>11, <1>12, <1>13, <1>14, <1>15,
     <1>16, <1>17, <1>18, <1>19, <1>20, <1>21, <1>22 DEF Next, Prepare, Mutate

(***************************************************************************)
(* A caller cannot tell the slot-by-slot transaction from one that answers *)
(* each request in a single step.                                          *)
(***************************************************************************)
THEOREM ImplementsAtomicContainer == Spec => Implements
<1>1. Init => Atomic!AInit
  <2>. SUFFICES ASSUME Init PROVE Atomic!AInit
    OBVIOUS
  <2>1. Shown = Fingerprint(EmptyProjection)
    BY DEF Init, Shown
  <2>2. Shown \in [Slots -> Contents]
    BY <2>1, EmptyProjectionType, FingerprintType
  <2>. QED
    BY <2>2, AtomicVocabulary DEF Init, Atomic!AInit
<1>. QED
  BY <1>1, StepImplements, TypeCorrect, PlanInvariant, PTL
     DEF Spec, Implements, Atomic!ASpec

-----------------------------------------------------------------------------
(***************************************************************************)
(* How many lifetimes there are.  A tracker holds one manager for each     *)
(* bundle tracked so far, and a slot already passed that shows the bundle  *)
(* it was to show refers to the very manager of that bundle.               *)
(***************************************************************************)
Counted(stacks, tracker, untracked) ==
    /\ Elements(tracker) = {stacks[s].manager : s \in StorageSlots(stacks) \ untracked}
    /\ Len(tracker) = Cardinality(StorageSlots(stacks) \ untracked)

PassedExactly(stacks) ==
    \A s \in Slots \ pending :
       IsStorage(stacks[s]) /\ container[s].content = stacks[s].content =>
          container[s].manager = stacks[s].manager

Tracking == {"materialize", "prepare_rollback", "escrow", "write", "restore"}

ExactInv ==
    /\ phase = "materialize" => rollback = <<>> /\ pending \subseteq StorageSlots(final)
    /\ phase = "prepare_rollback" => pending \subseteq StorageSlots(originals)
    /\ phase \in Tracking =>
          Counted(final, requested, IF phase = "materialize" THEN pending ELSE {})
    /\ phase \in Tracking \ {"materialize"} =>
          Counted(originals, rollback, IF phase = "prepare_rollback" THEN pending ELSE {})
    /\ phase = "write" => PassedExactly(final)
    /\ phase = "restore" => PassedExactly(originals)
    /\ LifetimesExact

LEMMA SlotsSize == IsFiniteSet(Slots) /\ Cardinality(Slots) = Size /\ Size \in Nat
<1>1. Size \in Nat /\ 0 \in Int /\ Size - 1 \in Int
  BY PatchAssumption
<1>2. IsFiniteSet(Slots) /\ Cardinality(Slots) = IF 0 > Size - 1 THEN 0 ELSE (Size - 1) - 0 + 1
  BY <1>1, FS_Interval, Zenon DEF Slots
<1>. QED
  BY <1>1, <1>2

\* Tracking one more bundle.
Refreshed(stacks, s, m) == [stacks EXCEPT ![s].manager = m]

LEMMA CountedAppend ==
    ASSUME NEW stacks \in [Slots -> Item], NEW tracker \in Seq(Managers),
           NEW untracked, untracked \subseteq StorageSlots(stacks),
           Counted(stacks, tracker, untracked),
           NEW s \in untracked, NEW m \in Managers
    PROVE  /\ Counted(Refreshed(stacks, s, m), Append(tracker, m), untracked \ {s})
           /\ StorageSlots(Refreshed(stacks, s, m)) = StorageSlots(stacks)
<1>. DEFINE more == Refreshed(stacks, s, m)
            done == StorageSlots(stacks) \ untracked
<1>1. s \in Slots /\ s \notin done
  BY DEF StorageSlots
<1>2. /\ more[s].manager = m /\ more[s].content = stacks[s].content
      /\ \A t \in Slots \ {s} : more[t] = stacks[t]
  BY <1>1 DEF Item, Refreshed
<1>3. StorageSlots(more) = StorageSlots(stacks)
  BY <1>2 DEF StorageSlots, IsStorage
<1>4. StorageSlots(more) \ (untracked \ {s}) = done \cup {s}
  BY <1>3
<1>5. IsFiniteSet(done)
  <2>1. done \in SUBSET Slots
    BY DEF StorageSlots
  <2>. QED
    BY <2>1, SlotsSize, FS_Subset
<1>6. Cardinality(done \cup {s}) = Cardinality(done) + 1
  BY <1>1, <1>5, FS_AddElement
<1>7. Len(Append(tracker, m)) = Len(tracker) + 1
  OBVIOUS
<1>8. Elements(Append(tracker, m)) = Elements(tracker) \cup {m}
  BY ElementsAppend
<1>9. {more[t].manager : t \in done \cup {s}} = {stacks[t].manager : t \in done} \cup {m}
  <2>1. \A t \in done : more[t].manager = stacks[t].manager
    BY <1>1, <1>2 DEF StorageSlots
  <2>. HIDE DEF more, done
  <2>. QED
    BY <1>2, <2>1
<1>10. Elements(tracker) = {stacks[t].manager : t \in done} /\ Len(tracker) = Cardinality(done)
  BY DEF Counted
<1>11. Counted(more, Append(tracker, m), untracked \ {s})
  <2>. HIDE DEF more, done
  <2>. QED
    BY <1>4, <1>6, <1>7, <1>8, <1>9, <1>10 DEF Counted
<1>. QED
  BY <1>3, <1>11

\* One write of a pass.
LEMMA ExactPass ==
    ASSUME container \in [Slots -> Item],
           NEW stacks \in [Slots -> Item], PassedExactly(stacks),
           NEW s \in Slots, SetItem(s, stacks[s])
    PROVE  \A t \in Slots \ (pending \ {s}) :
              IsStorage(stacks[t]) /\ container'[t].content = stacks[t].content =>
                 container'[t].manager = stacks[t].manager
<1>1. stacks[s] \in Item
  OBVIOUS
<1>2. /\ \A t \in Slots \ {s} :
            container'[t] = container[t] \/ ~IsStorage(container'[t])
      /\ IsStorage(container'[s]) =>
            \/ /\ container'[s] = container[s]
               /\ container[s].content # stacks[s].content
            \/ /\ container'[s].manager = stacks[s].manager
               /\ IsStorage(stacks[s]) \/ stacks[s].manager # NoManager
  BY <1>1, SetItemEffect
<1>. SUFFICES ASSUME NEW t \in Slots \ (pending \ {s}),
                     IsStorage(stacks[t]), container'[t].content = stacks[t].content
              PROVE  container'[t].manager = stacks[t].manager
  OBVIOUS
<1>3. IsStorage(container'[t])
  BY DEF IsStorage
<1>4. CASE t = s
  BY <1>2, <1>3, <1>4
<1>5. CASE t # s
  BY <1>2, <1>3, <1>5 DEF PassedExactly
<1>. QED
  BY <1>4, <1>5

\* A complete pass leaves one lifetime for each bundle in the container.
LEMMA ExactComplete ==
    ASSUME NEW stacks, NEW tracker, PassedExactly(stacks), Counted(stacks, tracker, {}),
           pending = {}, Matches(stacks)
    PROVE  /\ Elements(tracker) = {container[s].manager : s \in StorageSlots(container)}
           /\ Len(tracker) = Cardinality(StorageSlots(container))
<1>1. \A s \in Slots : container[s].content = stacks[s].content
  BY DEF Matches, Fingerprint
<1>2. StorageSlots(container) = StorageSlots(stacks)
  BY <1>1 DEF StorageSlots, IsStorage
<1>3. \A s \in StorageSlots(stacks) : container[s].manager = stacks[s].manager
  BY <1>1 DEF PassedExactly, StorageSlots
<1>4. {container[s].manager : s \in StorageSlots(stacks)}
         = {stacks[s].manager : s \in StorageSlots(stacks)}
  BY <1>3
<1>5. StorageSlots(stacks) \ {} = StorageSlots(stacks)
  OBVIOUS
<1>. QED
  BY <1>2, <1>4, <1>5, Zenon DEF Counted

\* A return that settles nothing.
LEMMA ReturnUnsettled ==
    ASSUME NEW status, NEW revision, NEW back, Return(Result(status, revision, back)),
           status = "Applied" => Touched(request.patch) = {},
           back # "complete"
    PROVE  ExactInv'
<1>1. /\ phase' = "returned" /\ request' = request
      /\ reply'.status = status /\ reply'.rollback = back
  BY DEF Return, Result
<1>2. ~ Settled'
  BY <1>1 DEF Settled
<1>. QED
  BY <1>1, <1>2 DEF ExactInv, LifetimesExact, Tracking

\* A return after a complete pass.
LEMMA ReturnSettled ==
    ASSUME TypeOK, NEW stacks, NEW tracker \in Seq(Managers),
           PassedExactly(stacks), Counted(stacks, tracker, {}), pending = {}, Matches(stacks),
           NeedsLifetimes => owner' = Replaced(owner, tracker),
           ~NeedsLifetimes => owner' = owner /\ StorageSlots(stacks) = {},
           container' = container, NEW result, Return(result)
    PROVE  ExactInv'
<1>1. phase' = "returned"
  BY DEF Return
<1>2. owner \in Seq(Managers)
  BY DEF TypeOK
<1>3. CASE NeedsLifetimes
  <2>1. owner' = tracker
    BY <1>2, <1>3, ReplacedIsNew
  <2>2. /\ Elements(tracker) = {container[s].manager : s \in StorageSlots(container)}
        /\ Len(tracker) = Cardinality(StorageSlots(container))
    BY ExactComplete
  <2>3. LifetimesExact'
    BY <2>1, <2>2 DEF LifetimesExact
  <2>. QED
    BY <1>1, <2>3 DEF ExactInv, Tracking
<1>4. CASE ~NeedsLifetimes
  <2>1. StorageSlots(container) = {}
    <3>1. \A s \in Slots : container[s].content = stacks[s].content
      BY DEF Matches, Fingerprint
    <3>. QED
      BY <1>4, <3>1 DEF StorageSlots, IsStorage
  <2>2. (StorageSlots(container) = {})'
    BY <2>1 DEF StorageSlots
  <2>. QED
    BY <1>1, <2>2 DEF ExactInv, LifetimesExact, Tracking
<1>. QED
  BY <1>3, <1>4

LEMMA InitExactInv == Init => ExactInv
<1>. SUFFICES ASSUME Init PROVE ExactInv
  OBVIOUS
<1>. QED
  BY DEF Init, ExactInv, LifetimesExact, Tracking

LEMMA PrepareExactInv == TypeOK /\ LifetimeInv /\ ExactInv /\ Prepare => ExactInv'
<1>. SUFFICES ASSUME TypeOK, LifetimeInv, ExactInv, Prepare PROVE ExactInv'
  OBVIOUS
<1>1. /\ owner \in Seq(Managers) /\ requested \in Seq(Managers) /\ rollback \in Seq(Managers)
      /\ final \in [Slots -> Item] /\ originals \in [Slots -> Item]
  BY DEF TypeOK
<1>2. CASE RefuseCall \/ Conflict \/ Unchanged \/ RefusePlan
  BY <1>2, ReturnUnsettled DEF RefuseCall, Conflict, Unchanged, RefusePlan
<1>3. CASE MaterializeFails \/ PrepareRollbackFails \/ EscrowFails
  BY <1>3, ReturnUnsettled DEF MaterializeFails, PrepareRollbackFails, EscrowFails
<1>4. CASE Plan
  <2>1. requested = <<>> /\ rollback = <<>>
    BY <1>4 DEF Plan, Current, LifetimeInv
  <2>2. UNCHANGED <<owner, requested, rollback>>
    BY <1>4 DEF Plan
  <2>3. Elements(<<>>) = {} /\ Len(<<>>) = 0 /\ Cardinality({}) = 0
    BY ElementsEmpty, FS_EmptySet
  <2>4. CASE StorageSlots(final') \cup StorageSlots(originals') # {}
    <3>1. phase' = "materialize" /\ pending' = StorageSlots(final')
      BY <1>4, <2>4 DEF Plan
    <3>2. StorageSlots(final') \ pending' = {}
      BY <3>1
    <3>3. Counted(final', <<>>, pending')
      BY <2>3, <3>2 DEF Counted
    <3>. QED
      BY <2>1, <2>2, <3>1, <3>3 DEF ExactInv, LifetimesExact, Tracking
  <2>5. CASE StorageSlots(final') \cup StorageSlots(originals') = {}
    <3>1. phase' = "write"
      BY <1>4, <2>5 DEF Plan
    <3>2. Counted(final', <<>>, {}) /\ Counted(originals', <<>>, {})
      BY <2>3, <2>5 DEF Counted
    <3>3. PassedExactly(final)'
      BY <2>5 DEF PassedExactly, StorageSlots
    <3>. QED
      BY <2>1, <2>2, <3>1, <3>2, <3>3 DEF ExactInv, LifetimesExact, Tracking
  <2>. QED
    BY <2>4, <2>5
<1>5. CASE Materialize
  <2>1. PICK s \in Slots : /\ Reached(s)
                           /\ final' = [final EXCEPT ![s].manager = FreshManager]
                           /\ pending' = pending \ {s}
    BY <1>5 DEF Materialize
  <2>2. /\ phase = "materialize" /\ phase' = "materialize" /\ FreeManagers # {}
        /\ requested' = Append(requested, FreshManager)
        /\ UNCHANGED <<owner, originals, rollback, reply>>
    BY <1>5 DEF Materialize
  <2>3. /\ s \in pending /\ pending \subseteq StorageSlots(final)
        /\ Counted(final, requested, pending) /\ rollback = <<>>
    BY <2>1, <2>2 DEF Reached, ExactInv, Tracking
  <2>4. FreshManager \in Managers
    BY <2>2, FreshManagerType
  <2>5. /\ Counted(final', Append(requested, FreshManager), pending \ {s})
        /\ StorageSlots(final') = StorageSlots(final)
    <3>1. final' = Refreshed(final, s, FreshManager)
      BY <2>1 DEF Refreshed
    <3>2. /\ final \in [Slots -> Item] /\ requested \in Seq(Managers)
          /\ s \in pending /\ pending \subseteq StorageSlots(final)
          /\ Counted(final, requested, pending)
      BY <1>1, <2>3
    <3>3. /\ Counted(Refreshed(final, s, FreshManager), Append(requested, FreshManager),
                     pending \ {s})
          /\ StorageSlots(Refreshed(final, s, FreshManager)) = StorageSlots(final)
      BY <2>4, <3>2, CountedAppend
    <3>. QED
      BY <3>1, <3>3
  <2>6. Counted(final', requested', pending')
    BY <2>1, <2>2, <2>5
  <2>. QED
    BY <2>1, <2>2, <2>3, <2>5, <2>6 DEF ExactInv, LifetimesExact, Tracking
<1>6. CASE Materialized
  <2>1. /\ phase = "materialize" /\ pending = {} /\ phase' = "prepare_rollback"
        /\ pending' = StorageSlots(originals)
        /\ UNCHANGED <<owner, final, originals, requested, rollback>>
    BY <1>6 DEF Materialized
  <2>2. Counted(final, requested, {}) /\ rollback = <<>>
    BY <2>1 DEF ExactInv, Tracking
  <2>3. Counted(originals, rollback, StorageSlots(originals))
    <3>1. StorageSlots(originals) \ StorageSlots(originals) = {}
      OBVIOUS
    <3>. QED
      BY <2>2, <3>1, ElementsEmpty, FS_EmptySet DEF Counted
  <2>. QED
    BY <2>1, <2>2, <2>3 DEF ExactInv, LifetimesExact, Tracking
<1>7. CASE PrepareRollback
  <2>1. PICK s \in Slots : /\ Reached(s)
                           /\ originals' = [originals EXCEPT ![s].manager = FreshManager]
                           /\ pending' = pending \ {s}
    BY <1>7 DEF PrepareRollback
  <2>2. /\ phase = "prepare_rollback" /\ phase' = "prepare_rollback" /\ FreeManagers # {}
        /\ rollback' = Append(rollback, FreshManager)
        /\ UNCHANGED <<owner, final, requested, reply>>
    BY <1>7 DEF PrepareRollback
  <2>3. /\ s \in pending /\ pending \subseteq StorageSlots(originals)
        /\ Counted(originals, rollback, pending) /\ Counted(final, requested, {})
    BY <2>1, <2>2 DEF Reached, ExactInv, Tracking
  <2>4. FreshManager \in Managers
    BY <2>2, FreshManagerType
  <2>5. /\ Counted(originals', Append(rollback, FreshManager), pending \ {s})
        /\ StorageSlots(originals') = StorageSlots(originals)
    <3>1. originals' = Refreshed(originals, s, FreshManager)
      BY <2>1 DEF Refreshed
    <3>2. /\ originals \in [Slots -> Item] /\ rollback \in Seq(Managers)
          /\ s \in pending /\ pending \subseteq StorageSlots(originals)
          /\ Counted(originals, rollback, pending)
      BY <1>1, <2>3
    <3>3. /\ Counted(Refreshed(originals, s, FreshManager), Append(rollback, FreshManager),
                     pending \ {s})
          /\ StorageSlots(Refreshed(originals, s, FreshManager)) = StorageSlots(originals)
      BY <2>4, <3>2, CountedAppend
    <3>. QED
      BY <3>1, <3>3
  <2>6. Counted(originals', rollback', pending')
    BY <2>1, <2>2, <2>5
  <2>. QED
    BY <2>1, <2>2, <2>3, <2>5, <2>6 DEF ExactInv, LifetimesExact, Tracking
<1>8. CASE RollbackPrepared
  <2>1. /\ phase = "prepare_rollback" /\ pending = {} /\ phase' = "escrow"
        /\ UNCHANGED <<owner, final, originals, requested, rollback, pending>>
    BY <1>8 DEF RollbackPrepared
  <2>. QED
    BY <2>1 DEF ExactInv, LifetimesExact, Tracking
<1>9. CASE Escrow
  <2>1. /\ phase = "escrow" /\ phase' = "write"
        /\ pending' = WriteSlots
        /\ UNCHANGED <<final, originals, requested, rollback>>
    BY <1>9 DEF Escrow
  <2>2. Counted(final, requested, {}) /\ Counted(originals, rollback, {})
    BY <2>1 DEF ExactInv, Tracking
  <2>3. PassedExactly(final)'
    <3>1. \A s \in Slots : IsStorage(final[s]) => s \in pending'
      BY <2>1 DEF WriteSlots, StorageSlots
    <3>. QED
      BY <2>1, <3>1 DEF PassedExactly
  <2>. QED
    BY <2>1, <2>2, <2>3 DEF ExactInv, LifetimesExact, Tracking
<1>. QED
  BY <1>2, <1>3, <1>4, <1>5, <1>6, <1>7, <1>8, <1>9 DEF Prepare

LEMMA MutateExactInv == TypeOK /\ ExactInv /\ Mutate => ExactInv'
<1>. SUFFICES ASSUME TypeOK, ExactInv, Mutate PROVE ExactInv'
  OBVIOUS
<1>1. /\ container \in [Slots -> Item] /\ owner \in Seq(Managers)
      /\ requested \in Seq(Managers) /\ rollback \in Seq(Managers)
      /\ final \in [Slots -> Item] /\ originals \in [Slots -> Item]
  BY DEF TypeOK
<1>2. phase \in {"write", "restore"}
  BY DEF Mutate, Write, WriteThrows, Commit, Abandon, Restore, RolledBack,
         KeptInEscrow, NotRestored, RestoreThrows
<1>3. Counted(final, requested, {}) /\ Counted(originals, rollback, {})
  BY <1>2 DEF ExactInv, Tracking
<1>4. ASSUME StartRestore
      PROVE  ExactInv'
  <2>1. /\ phase' = "restore" /\ pending' = Slots
        /\ UNCHANGED <<owner, final, originals, requested, rollback>>
    BY <1>4 DEF StartRestore
  <2>2. PassedExactly(originals)'
    BY <2>1 DEF PassedExactly
  <2>. QED
    BY <1>3, <2>1, <2>2 DEF ExactInv, LifetimesExact, Tracking
<1>5. CASE Write
  <2>1. PICK s \in Slots : SetItem(s, final[s]) /\ pending' = pending \ {s}
    BY <1>5 DEF Write
  <2>2. /\ phase = "write" /\ phase' = "write"
        /\ UNCHANGED <<owner, final, originals, requested, rollback>>
    BY <1>5 DEF Write
  <2>3. PassedExactly(final)
    BY <2>2 DEF ExactInv
  <2>4. PassedExactly(final)'
    BY <1>1, <2>1, <2>2, <2>3, ExactPass DEF PassedExactly
  <2>. QED
    BY <1>3, <2>2, <2>4 DEF ExactInv, LifetimesExact, Tracking
<1>6. CASE WriteThrows \/ Abandon
  BY <1>4, <1>6 DEF WriteThrows, Abandon
<1>7. CASE Restore
  <2>1. PICK s \in Slots : SetItem(s, originals[s]) /\ pending' = pending \ {s}
    BY <1>7 DEF Restore
  <2>2. /\ phase = "restore" /\ phase' = "restore"
        /\ UNCHANGED <<owner, final, originals, requested, rollback>>
    BY <1>7 DEF Restore
  <2>3. PassedExactly(originals)
    BY <2>2 DEF ExactInv
  <2>4. PassedExactly(originals)'
    BY <1>1, <2>1, <2>2, <2>3, ExactPass DEF PassedExactly
  <2>. QED
    BY <1>3, <2>2, <2>4 DEF ExactInv, LifetimesExact, Tracking
<1>8. CASE Commit
  <2>1. PICK result : Return(result)
    BY <1>8 DEF Commit
  <2>2. /\ PassedExactly(final) /\ pending = {} /\ Matches(final) /\ container' = container
        /\ NeedsLifetimes => owner' = Replaced(owner, requested)
        /\ ~NeedsLifetimes => owner' = owner
    BY <1>8 DEF Commit, ExactInv
  <2>3. ~NeedsLifetimes => StorageSlots(final) = {}
    BY DEF NeedsLifetimes
  <2>. QED
    BY <1>1, <1>3, <2>1, <2>2, <2>3, ReturnSettled
<1>9. CASE RolledBack
  <2>1. PICK result : Return(result)
    BY <1>9 DEF RolledBack
  <2>2. /\ PassedExactly(originals) /\ pending = {} /\ Matches(originals) /\ container' = container
        /\ NeedsLifetimes => owner' = Replaced(owner, rollback)
        /\ ~NeedsLifetimes => owner' = owner
    BY <1>9 DEF RolledBack, ExactInv
  <2>3. ~NeedsLifetimes => StorageSlots(originals) = {}
    BY DEF NeedsLifetimes
  <2>. QED
    BY <1>1, <1>3, <2>1, <2>2, <2>3, ReturnSettled
<1>10. CASE KeptInEscrow \/ NotRestored \/ RestoreThrows
  BY <1>10, ReturnUnsettled DEF KeptInEscrow, NotRestored, RestoreThrows
<1>. QED
  BY <1>5, <1>6, <1>7, <1>8, <1>9, <1>10 DEF Mutate

LEMMA NextExactInv == TypeOK /\ LifetimeInv /\ ExactInv /\ [Next]_vars => ExactInv'
<1>. SUFFICES ASSUME TypeOK, LifetimeInv, ExactInv, [Next]_vars PROVE ExactInv'
  OBVIOUS
<1>1. CASE WorldEdit \/ Call \/ Collect
  <2>1. phase' \in {"called", "idle"}
    BY <1>1 DEF WorldEdit, Call, Collect
  <2>. QED
    BY <2>1 DEF ExactInv, LifetimesExact, Tracking
<1>2. CASE Prepare
  BY <1>2, PrepareExactInv
<1>3. CASE Mutate
  BY <1>3, MutateExactInv
<1>4. CASE UNCHANGED vars
  <2>1. LifetimesExact'
    BY <1>4 DEF vars, ExactInv, LifetimesExact, Settled, StorageSlots, IsStorage
  <2>. QED
    BY <1>4, <2>1 DEF vars, ExactInv, PassedExactly
<1>. QED
  BY <1>1, <1>2, <1>3, <1>4 DEF Next

(***************************************************************************)
(* A write with bundles that was committed, or undone completely, leaves   *)
(* one lifetime for each bundle of the container and no other.             *)
(***************************************************************************)
THEOREM LifetimesDoNotPileUp == Spec => []LifetimesExact
<1>1. ExactInv => LifetimesExact
  BY DEF ExactInv
<1>. QED
  BY <1>1, InitExactInv, NextExactInv, TypeCorrect, LifetimesInvariant, PTL DEF Spec
=============================================================================
