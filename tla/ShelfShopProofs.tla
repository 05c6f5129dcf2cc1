-------------------------- MODULE ShelfShopProofs ---------------------------
(***************************************************************************)
(* Proofs about ShelfShop: stock is conserved for any number of callers,   *)
(* reservations, products and slots.  The sums are SumFunction of the      *)
(* community modules; what is needed of them is proved first, by taking a  *)
(* smallest set for which it fails.                                        *)
(***************************************************************************)
EXTENDS ShelfShop, FiniteSetTheorems, TLAPS

-----------------------------------------------------------------------------
(* Sums over finite sets. *)

Pick(S) == CHOOSE x \in S : TRUE

\* g is the partial sums of f that SumFunction computes.
Sums(g, f, S) ==
    g = [T \in SUBSET S |-> IF T = {} THEN 0 ELSE f[Pick(T)] + g[T \ {Pick(T)}]]

SumsOf(f, S) == CHOOSE g : Sums(g, f, S)

Total(f, S) == SumsOf(f, S)[S]

LEMMA PickIn == ASSUME NEW S, S # {} PROVE Pick(S) \in S
BY DEF Pick

\* Induction over the subsets of a finite set, without an operator.
LEMMA Smallest ==
  ASSUME NEW S, IsFiniteSet(S), NEW Bad \in SUBSET SUBSET S, Bad # {}
  PROVE  \E T \in Bad : \A U \in SUBSET T : U \in Bad => U = T
<1>1. IsWellFoundedOn(StrictSubsetOrdering(S), SUBSET S)
  BY FS_StrictSubsetOrderingWellFounded, FS_FiniteSubsetsOfFinite, Zenon
<1>2. \E T \in Bad : \A U \in Bad : ~ (<<U, T>> \in StrictSubsetOrdering(S))
  BY <1>1, WFMin, Zenon
<1> QED BY <1>2 DEF StrictSubsetOrdering

LEMMA SumsAgree ==
  ASSUME NEW S, NEW R, NEW f, NEW g, NEW h, Sums(g, f, S), Sums(h, f, R),
         NEW T, T \in SUBSET S, T \in SUBSET R, IsFiniteSet(T)
  PROVE  g[T] = h[T]
<1> DEFINE Bad == {U \in SUBSET T : g[U] # h[U]}
<1>1. SUFFICES ASSUME Bad # {} PROVE FALSE
  OBVIOUS
<1>2. PICK U \in Bad : \A V \in SUBSET U : V \in Bad => V = U
  <2> HIDE DEF Bad
  <2>1. Bad \in SUBSET SUBSET T
    BY DEF Bad
  <2> QED BY <2>1, <1>1, Smallest
<1>3. g[U] = IF U = {} THEN 0 ELSE f[Pick(U)] + g[U \ {Pick(U)}]
  <2>1. g = [W \in SUBSET S |-> IF W = {} THEN 0 ELSE f[Pick(W)] + g[W \ {Pick(W)}]]
    BY Zenon DEF Sums
  <2>2. U \in SUBSET S
    BY <1>2
  <2> QED BY <2>1, <2>2
<1>4. h[U] = IF U = {} THEN 0 ELSE f[Pick(U)] + h[U \ {Pick(U)}]
  <2>1. h = [W \in SUBSET R |-> IF W = {} THEN 0 ELSE f[Pick(W)] + h[W \ {Pick(W)}]]
    BY Zenon DEF Sums
  <2>2. U \in SUBSET R
    BY <1>2
  <2> QED BY <2>1, <2>2
<1>5. U # {}
  BY <1>2, <1>3, <1>4
<1>6. U \ {Pick(U)} \in SUBSET U /\ U \ {Pick(U)} # U /\ U \ {Pick(U)} \in SUBSET T
  BY <1>2, <1>5, PickIn
<1>7. U \ {Pick(U)} \notin Bad
  BY <1>2, <1>6
<1>8. g[U \ {Pick(U)}] = h[U \ {Pick(U)}]
  BY <1>6, <1>7
<1> QED BY <1>2, <1>3, <1>4, <1>5, <1>8

LEMMA SumsExist ==
  ASSUME NEW f, NEW S, IsFiniteSet(S)
  PROVE  Sums(SumsOf(f, S), f, S)
<1> DEFINE Bad == {T \in SUBSET S : ~ \E g : Sums(g, f, T)}
<1>1. Bad = {}
  <2>1. SUFFICES ASSUME Bad # {} PROVE FALSE
    OBVIOUS
  <2>2. PICK T \in Bad : \A U \in SUBSET T : U \in Bad => U = T
    <3> HIDE DEF Bad
    <3>1. Bad \in SUBSET SUBSET S
      BY DEF Bad
    <3> QED BY <3>1, <2>1, Smallest
  <2> DEFINE G(U) == SumsOf(f, U)[U]
             g == [U \in SUBSET T |->
                      IF U = {} THEN 0 ELSE f[Pick(U)] + G(U \ {Pick(U)})]
  <2>3. \A U \in SUBSET T : U # T => Sums(SumsOf(f, U), f, U)
    <3> TAKE U \in SUBSET T
    <3> HAVE U # T
    <3>1. \E k : Sums(k, f, U)
      BY <2>2
    <3> QED BY <3>1, Zenon DEF SumsOf
  <2>4. \A U \in SUBSET T : U # T => G(U) = g[U]
    <3> TAKE U \in SUBSET T
    <3> HAVE U # T
    <3>1. Sums(SumsOf(f, U), f, U)
      BY <2>3
    <3> DEFINE V == U \ {Pick(U)}
    <3>2. G(U) = IF U = {} THEN 0 ELSE f[Pick(U)] + SumsOf(f, U)[V]
      <4> DEFINE k == SumsOf(f, U)
      <4>1. k = [W \in SUBSET U |-> IF W = {} THEN 0 ELSE f[Pick(W)] + k[W \ {Pick(W)}]]
        BY <3>1, Zenon DEF Sums
      <4> HIDE DEF k
      <4>2. k[U] = IF U = {} THEN 0 ELSE f[Pick(U)] + k[U \ {Pick(U)}]
        BY <4>1
      <4> QED BY <4>2 DEF k
    <3>3. g[U] = IF U = {} THEN 0 ELSE f[Pick(U)] + G(V)
      OBVIOUS
    <3>4. CASE U = {}
      BY <3>2, <3>3, <3>4
    <3>5. CASE U # {}
      <4>1. V \in SUBSET T /\ V # T /\ V \in SUBSET U /\ V \in SUBSET V
        BY <3>5, PickIn
      <4>2. Sums(SumsOf(f, V), f, V)
        BY <4>1, <2>3, Zenon
      <4>3. IsFiniteSet(V)
        <5>1. V \in SUBSET S
          BY <4>1, <2>2
        <5> QED BY <5>1, FS_Subset, Zenon
      <4>4. SumsOf(f, U)[V] = SumsOf(f, V)[V]
        BY <3>1, <4>1, <4>2, <4>3, SumsAgree
      <4> QED BY <3>2, <3>3, <3>5, <4>4
    <3> QED BY <3>4, <3>5
  <2>5. Sums(g, f, T)
    <3>1. \A U \in SUBSET T : U # {} =>
             U \ {Pick(U)} \in SUBSET T /\ U \ {Pick(U)} # T
      BY PickIn
    <3>2. \A U \in SUBSET T : U # {} => G(U \ {Pick(U)}) = g[U \ {Pick(U)}]
      BY <3>1, <2>4
    <3> HIDE DEF G
    <3>3. g = [U \in SUBSET T |-> IF U = {} THEN 0 ELSE f[Pick(U)] + g[U \ {Pick(U)}]]
      BY <3>2
    <3> HIDE DEF g
    <3> QED BY <3>3 DEF Sums
  <2> HIDE DEF g
  <2> QED BY <2>2, <2>5
<1>2. \E g : Sums(g, f, S)
  BY <1>1
<1> QED BY <1>2, Zenon DEF SumsOf

LEMMA TotalNext ==
  ASSUME NEW f, NEW S, IsFiniteSet(S)
  PROVE  Total(f, S) = IF S = {} THEN 0 ELSE f[Pick(S)] + Total(f, S \ {Pick(S)})
<1> DEFINE T == S \ {Pick(S)}
           k == SumsOf(f, S)
<1>1. Sums(k, f, S)
  BY SumsExist, Zenon
<1>2. k[S] = IF S = {} THEN 0 ELSE f[Pick(S)] + k[T]
  <2>1. k = [U \in SUBSET S |-> IF U = {} THEN 0 ELSE f[Pick(U)] + k[U \ {Pick(U)}]]
    BY <1>1, Zenon DEF Sums
  <2> HIDE DEF k
  <2> QED BY <2>1
<1>3. IsFiniteSet(T) /\ T \in SUBSET S /\ T \in SUBSET T
  BY FS_RemoveElement
<1>4. Sums(SumsOf(f, T), f, T)
  BY <1>3, SumsExist, Zenon
<1>5. k[T] = SumsOf(f, T)[T]
  <2> HIDE DEF T, k
  <2> QED BY <1>1, <1>3, <1>4, SumsAgree
<1> QED BY <1>2, <1>5 DEF Total

LEMMA TotalType ==
  ASSUME NEW D, NEW f \in [D -> Int], NEW S \in SUBSET D, IsFiniteSet(S)
  PROVE  Total(f, S) \in Int
<1> DEFINE Bad == {T \in SUBSET S : Total(f, T) \notin Int}
<1>1. SUFFICES ASSUME Bad # {} PROVE FALSE
  OBVIOUS
<1>2. PICK T \in Bad : \A U \in SUBSET T : U \in Bad => U = T
  <2> HIDE DEF Bad
  <2>1. Bad \in SUBSET SUBSET S
    BY DEF Bad
  <2> QED BY <2>1, <1>1, Smallest
<1>3. IsFiniteSet(T)
  BY <1>2, FS_Subset
<1>4. Total(f, T) = IF T = {} THEN 0 ELSE f[Pick(T)] + Total(f, T \ {Pick(T)})
  BY <1>3, TotalNext
<1>5. T # {} /\ Pick(T) \in T
  BY <1>2, <1>4, PickIn
<1>6. Total(f, T \ {Pick(T)}) \in Int
  BY <1>2, <1>5
<1>7. f[Pick(T)] \in Int
  BY <1>2, <1>5
<1> QED BY <1>2, <1>4, <1>5, <1>6, <1>7

\* Two functions that differ at x at most have totals that differ as they do.
LEMMA TotalChange ==
  ASSUME NEW D, IsFiniteSet(D), NEW f \in [D -> Int], NEW g \in [D -> Int],
         NEW x \in D, \A y \in D \ {x} : f[y] = g[y]
  PROVE  Total(g, D) = Total(f, D) + g[x] - f[x]
<1> DEFINE Change(T) == IF x \in T THEN g[x] - f[x] ELSE 0
           Bad == {T \in SUBSET D : Total(g, T) # Total(f, T) + Change(T)}
<1>1. Bad = {}
  <2>1. SUFFICES ASSUME Bad # {} PROVE FALSE
    OBVIOUS
  <2>2. PICK T \in Bad : \A U \in SUBSET T : U \in Bad => U = T
    <3> HIDE DEF Bad
    <3>1. Bad \in SUBSET SUBSET D
      BY DEF Bad
    <3> QED BY <3>1, <2>1, Smallest
  <2> DEFINE p == Pick(T)
             U == T \ {p}
  <2>3. T \in SUBSET D /\ IsFiniteSet(T) /\ Total(g, T) # Total(f, T) + Change(T)
    BY <2>2, FS_Subset
  <2>4. /\ Total(f, T) = IF T = {} THEN 0 ELSE f[p] + Total(f, U)
        /\ Total(g, T) = IF T = {} THEN 0 ELSE g[p] + Total(g, U)
    BY <2>3, TotalNext
  <2>5. T # {}
    BY <2>3, <2>4
  <2>6. p \in T /\ U \in SUBSET D /\ IsFiniteSet(U) /\ U \in SUBSET T /\ U # T
    BY <2>3, <2>5, PickIn, FS_RemoveElement
  <2>7. Total(g, U) = Total(f, U) + Change(U)
    BY <2>2, <2>6
  <2>8. Total(f, U) \in Int /\ Total(g, U) \in Int
    BY <2>6, TotalType
  <2>9. f[p] \in Int /\ g[p] \in Int /\ f[x] \in Int /\ g[x] \in Int
    BY <2>3, <2>6
  <2>10. x \in U <=> x \in T /\ x # p
    OBVIOUS
  <2>11. x # p => f[p] = g[p]
    BY <2>3, <2>6
  <2> HIDE DEF p, U
  <2> QED BY <2>3, <2>4, <2>5, <2>6, <2>7, <2>8, <2>9, <2>10, <2>11
<1>2. Total(g, D) = Total(f, D) + Change(D)
  BY <1>1
<1> QED BY <1>2, TotalType

LEMMA TotalFold ==
  ASSUME NEW f
  PROVE  SumFunction(f) = Total(f, DOMAIN f)
BY Zenon DEF SumFunction, SumFunctionOnSet, FoldFunctionOnSet, MapThenFoldSet, Total, SumsOf,
   Sums, Pick

LEMMA SumChange ==
  ASSUME NEW D, IsFiniteSet(D), NEW f \in [D -> Int], NEW g \in [D -> Int],
         NEW x \in D, \A y \in D \ {x} : f[y] = g[y]
  PROVE  SumFunction(g) = SumFunction(f) + g[x] - f[x]
BY TotalChange, TotalFold, DOMAIN f = D, DOMAIN g = D

LEMMA SumType ==
  ASSUME NEW D, IsFiniteSet(D), NEW f \in [D -> Int]
  PROVE  SumFunction(f) \in Int
BY TotalType, TotalFold, DOMAIN f = D

\* A sum of zeros is zero.
LEMMA SumZero ==
  ASSUME NEW D, IsFiniteSet(D), NEW f \in [D -> Int], \A x \in D : f[x] = 0
  PROVE  SumFunction(f) = 0
<1> DEFINE Bad == {T \in SUBSET D : Total(f, T) # 0}
<1>1. Bad = {}
  <2>1. SUFFICES ASSUME Bad # {} PROVE FALSE
    OBVIOUS
  <2>2. PICK T \in Bad : \A U \in SUBSET T : U \in Bad => U = T
    <3> HIDE DEF Bad
    <3>1. Bad \in SUBSET SUBSET D
      BY DEF Bad
    <3> QED BY <3>1, <2>1, Smallest
  <2>3. Total(f, T) = IF T = {} THEN 0 ELSE f[Pick(T)] + Total(f, T \ {Pick(T)})
    <3>1. IsFiniteSet(T)
      BY <2>2, FS_Subset
    <3> QED BY <3>1, TotalNext
  <2>4. T # {} /\ Pick(T) \in T
    BY <2>2, <2>3, PickIn
  <2>5. Total(f, T \ {Pick(T)}) = 0
    BY <2>2, <2>4
  <2> QED BY <2>2, <2>3, <2>4, <2>5
<1> QED BY <1>1, TotalFold, DOMAIN f = D

\* A sum of natural numbers is one.
LEMMA SumNat ==
  ASSUME NEW D, IsFiniteSet(D), NEW f \in [D -> Nat]
  PROVE  SumFunction(f) \in Nat
<1> DEFINE Bad == {T \in SUBSET D : Total(f, T) \notin Nat}
<1>1. Bad = {}
  <2>1. SUFFICES ASSUME Bad # {} PROVE FALSE
    OBVIOUS
  <2>2. PICK T \in Bad : \A U \in SUBSET T : U \in Bad => U = T
    <3> HIDE DEF Bad
    <3>1. Bad \in SUBSET SUBSET D
      BY DEF Bad
    <3> QED BY <3>1, <2>1, Smallest
  <2>3. Total(f, T) = IF T = {} THEN 0 ELSE f[Pick(T)] + Total(f, T \ {Pick(T)})
    <3>1. IsFiniteSet(T)
      BY <2>2, FS_Subset
    <3> QED BY <3>1, TotalNext
  <2>4. T # {} /\ Pick(T) \in T
    BY <2>2, <2>3, PickIn
  <2>5. Total(f, T \ {Pick(T)}) \in Nat
    BY <2>2, <2>4
  <2>6. f[Pick(T)] \in Nat
    BY <2>2, <2>4
  <2> QED BY <2>2, <2>3, <2>4, <2>5, <2>6
<1>2. Total(f, D) \in Nat
  BY <1>1
<1> QED BY <1>2, TotalFold, DOMAIN f = D

-----------------------------------------------------------------------------
(* The shelf and its adapter, in the words of the shop. *)

Shelves == [Slots -> Stack \cup {Empty}]

LEMMA Vocabulary ==
  /\ Adapter!Slots = Slots
  /\ Adapter!Contents = Stack \cup {Empty}
  /\ Adapter!Revision = Shelves \cup {NoRevision}
  /\ Adapter!Patch = [Slots -> Stack \cup {Empty, Keep}]
  /\ Adapter!Request = [patch : [Slots -> Stack \cup {Empty, Keep}],
                        expected : Shelves \cup {NoRevision},
                        policy : {"FailIfChanged"}]
<1>1. Adapter!Contents = Stack \cup {Empty}
  BY DEF Adapter!Contents
<1>2. Adapter!Slots = Slots
  BY DEF Adapter!Slots, Slots
<1>3. (Stack \cup {Empty}) \cup {Keep} = Stack \cup {Empty, Keep}
  OBVIOUS
<1>4. Adapter!Revision = Shelves \cup {NoRevision}
  BY <1>1, <1>2 DEF Adapter!Revision, Shelves
<1>5. Adapter!Patch = [Slots -> Stack \cup {Empty, Keep}]
  BY <1>1, <1>2, <1>3 DEF Adapter!Patch
<1> QED BY <1>1, <1>2, <1>4, <1>5 DEF Adapter!Request

\* What a step of the adapter does to a request for an unchanged shelf.
Answering(status, revisions) ==
    /\ request # NoRequest
    /\ reply = NoReply
    /\ \E rev \in revisions, back \in {"none", "complete", "incomplete"} :
          reply' = [status |-> status, revision |-> rev, rollback |-> back]
    /\ request' = request

LEMMA RefuseShape ==
  ASSUME Refuse
  PROVE  /\ \E st \in Adapter!ApplyStatus \ {"Applied"} :
               Answering(st, {NoRevision, shelf})
         /\ shelf' = shelf
BY Zenon DEF Refuse, Adapter!ARefuse, Adapter!Serving, Adapter!Result, Answering

LEMMA CommitShape ==
  ASSUME Commit, request.policy = "FailIfChanged", request.expected # NoRevision
  PROVE  /\ Answering("Applied", {NoRevision, shelf'})
         /\ shelf = request.expected
         /\ shelf' = [s \in Slots |-> IF request.patch[s] = Keep THEN shelf[s]
                                      ELSE request.patch[s]]
<1>1. Adapter!ACommit
  BY DEF Commit
<1>2. shelf = request.expected
  BY <1>1 DEF Adapter!ACommit, Adapter!Stale
<1>3. Answering("Applied", {NoRevision, shelf'})
  BY <1>1, Zenon DEF Adapter!ACommit, Adapter!Serving, Adapter!Result, Answering
<1>4. shelf' = [s \in Slots |-> IF request.patch[s] = Keep THEN shelf[s]
                                ELSE request.patch[s]]
  BY <1>1, Vocabulary DEF Adapter!ACommit, Adapter!Overlay
<1> QED BY <1>2, <1>3, <1>4

LEMMA DamageShape ==
  ASSUME Damage
  PROVE  /\ Answering("AdapterError", {NoRevision, shelf'})
         /\ shelf' \in Shelves
<1>1. Adapter!ADamage
  BY DEF Damage
<1>2. Answering("AdapterError", {NoRevision, shelf'})
  BY <1>1, Zenon DEF Adapter!ADamage, Adapter!Serving, Adapter!Result, Answering
<1>3. shelf' \in Shelves
  BY <1>1, Vocabulary DEF Adapter!ADamage, Shelves
<1> QED BY <1>2, <1>3

LEMMA AnswerType ==
  ASSUME NEW status \in Adapter!ApplyStatus, NEW revisions,
         revisions \subseteq Shelves \cup {NoRevision}, Answering(status, revisions)
  PROVE  /\ reply' \in Adapter!ApplyResult
         /\ reply' # NoReply
         /\ reply'.status = status
         /\ reply'.revision \in revisions
<1>1. reply' \in Adapter!ApplyResult
  BY Vocabulary DEF Answering, Adapter!ApplyResult
<1> QED BY <1>1, MarksAssumption DEF Answering

-----------------------------------------------------------------------------
(* The inductive invariant. *)

\* The view shows at least the item in the slot.
Covers(view, slot, item) ==
    /\ view[slot] # Empty
    /\ view[slot].product = item.product
    /\ item.count <= view[slot].count

\* The shelf once a reservation took the item.
Leaves(view, slot, item) ==
    [s \in Slots |->
        IF s # slot THEN view[s]
        ELSE IF view[s].count = item.count THEN Empty
        ELSE WithCount(view[s], view[s].count - item.count)]

\* A record fits the shelf it was reserved from.
Sound(record) ==
    /\ Covers(record.before, record.slot, record.item)
    /\ record.shelf_revision \in
          {NoRevision, Leaves(record.before, record.slot, record.item)}

\* A restore under way holds the lock of a token that it may use.
Redeems(call) ==
    LET record == active[call.id]
    IN  /\ record # NoRecord
        /\ call.view = record.shelf_revision
        /\ call.view[record.slot] # Empty =>
              /\ call.view[record.slot].product = record.item.product
              /\ call.view[record.slot].count + record.item.count <= MaxCount

Quiet == request = NoRequest => reply = NoReply

Submitted ==
    \A c \in Callers : client = c =>
        /\ calls[c].op \in {"reserve", "restore", "replace"}
        /\ request = [patch |-> PatchOf(calls[c]), expected |-> calls[c].view,
                      policy |-> "FailIfChanged"]

CallsSound ==
    \A c \in Callers :
        /\ calls[c].op = "reserve" =>
              Covers(calls[c].view, calls[c].slot, calls[c].item)
        /\ calls[c].op = "register" => Sound(calls[c].record)
        /\ calls[c].op = "restore" => Redeems(calls[c])
        /\ Written(c, "reserve") =>
              reply.revision \in
                 {NoRevision, Leaves(calls[c].view, calls[c].slot, calls[c].item)}

TokensSound ==
    /\ restored \cap completed = {}
    /\ \A id \in Ids : active[id] # NoRecord => id \notin Settled /\ Sound(active[id])

ShopInv == TypeOK /\ Quiet /\ Submitted /\ CallsSound /\ TokensSound

LEMMA CountTypes ==
  ASSUME NEW item \in Stack, NEW n \in 1..MaxCount
  PROVE  /\ WithCount(item, n) \in Stack
         /\ WithCount(item, n).product = item.product
         /\ WithCount(item, n).count = n
         /\ item.count \in 1..MaxCount
         /\ item.product \in Products
         /\ item # Empty
BY MarksAssumption DEF Stack, WithCount

LEMMA CallFields ==
  ASSUME NEW call \in CallState
  PROVE  /\ call.op \in {"idle", "reserve", "register", "restore", "replace"}
         /\ call.op = "idle" => call = Idle
         /\ call.op = "reserve" =>
               call.slot \in Slots /\ call.item \in Stack /\ call.view \in Shelves
         /\ call.op = "register" => call.record \in Record
         /\ call.op = "restore" => call.id \in Ids /\ call.view \in Shelves
         /\ call.op = "replace" => call.view \in Shelves /\ call.stock \in Shelves
<1>1. [Slots -> Adapter!Contents] = Shelves
  BY Vocabulary, Zenon DEF Shelves
<1> HIDE DEF Shelves
<1> QED BY <1>1 DEF CallState, Idle

LEMMA RecordFields ==
  ASSUME NEW record \in Record
  PROVE  /\ record.slot \in Slots
         /\ record.item \in Stack
         /\ record.shelf_revision \in Shelves \cup {NoRevision}
         /\ record.before \in Shelves
<1>1. [Slots -> Adapter!Contents] = Shelves /\ Adapter!Revision = Shelves \cup {NoRevision}
  BY Vocabulary, Zenon DEF Shelves
<1> HIDE DEF Shelves
<1> QED BY <1>1 DEF Record

LEMMA ShelfOverlay ==
  ASSUME NEW view \in Shelves, NEW slot \in Slots, NEW item \in Stack,
         Covers(view, slot, item), NEW call,
         call.view = view, call.slot = slot, call.item = item
  PROVE  /\ ReservePatch(call) \in [Slots -> Stack \cup {Empty, Keep}]
         /\ [s \in Slots |-> IF ReservePatch(call)[s] = Keep THEN view[s]
                             ELSE ReservePatch(call)[s]]
            = Leaves(view, slot, item)
<1>1. view[slot] \in Stack
  BY DEF Covers, Shelves
<1> DEFINE n == view[slot].count - item.count
<1>2. view[slot].count \in 1..MaxCount /\ item.count \in 1..MaxCount /\ MaxCount \in Nat
  BY <1>1, ShopAssumption DEF Stack
<1>3. item.count <= view[slot].count
  BY DEF Covers
<1>4. CASE n = 0
  <2>1. ReservePatch(call) = [t \in Slots |-> IF t = slot THEN Empty ELSE Keep]
    BY <1>4 DEF ReservePatch, ClearItem, PatchItem
  <2>2. view[slot].count = item.count
    BY <1>2, <1>4
  <2> QED BY <2>1, <2>2, MarksAssumption DEF Leaves, Shelves
<1>5. CASE n # 0
  <2>1. ReservePatch(call) =
          [t \in Slots |-> IF t = slot THEN WithCount(view[slot], n) ELSE Keep]
    BY <1>5 DEF ReservePatch, PatchItem
  <2>2. WithCount(view[slot], n) \in Stack
    <3>1. n \in 1..MaxCount
      BY <1>2, <1>3, <1>5
    <3> HIDE DEF n
    <3> QED BY <1>1, <3>1, CountTypes
  <2>3. view[slot].count # item.count
    BY <1>2, <1>5
  <2> QED BY <2>1, <2>2, <2>3, MarksAssumption DEF Leaves, Shelves
<1> QED BY <1>4, <1>5

LEMMA PatchTypes ==
  ASSUME ShopInv, NEW c \in Callers, calls[c].op \in {"reserve", "restore", "replace"}
  PROVE  /\ PatchOf(calls[c]) \in [Slots -> Stack \cup {Empty, Keep}]
         /\ calls[c].view \in Shelves
<1>1. calls[c] \in CallState
  BY DEF ShopInv, TypeOK
<1>2. CASE calls[c].op = "reserve"
  <2>1. PatchOf(calls[c]) = ReservePatch(calls[c])
    BY <1>2 DEF PatchOf
  <2>2. Covers(calls[c].view, calls[c].slot, calls[c].item)
    BY <1>2 DEF ShopInv, CallsSound
  <2>3. calls[c].view \in Shelves /\ calls[c].slot \in Slots /\ calls[c].item \in Stack
    BY <1>1, <1>2, CallFields, Zenon
  <2>4. ReservePatch(calls[c]) \in [Slots -> Stack \cup {Empty, Keep}]
    BY <2>2, <2>3, ShelfOverlay
  <2> QED BY <2>1, <2>3, <2>4
<1>3. CASE calls[c].op = "restore"
  <2> DEFINE record == active[calls[c].id]
             now == calls[c].view[record.slot]
  <2>1. calls[c].id \in Ids /\ calls[c].view \in Shelves /\ Redeems(calls[c])
    BY <1>1, <1>3, CallFields, Zenon DEF ShopInv, CallsSound
  <2>2. record \in Record
    BY <2>1 DEF ShopInv, TypeOK, Redeems
  <2>3. record.slot \in Slots /\ record.item \in Stack
    BY <2>2, RecordFields
  <2>4. now # Empty => WithCount(now, now.count + record.item.count) \in Stack
    <3> HAVE now # Empty
    <3>1. now \in Stack
      BY <2>1, <2>3 DEF Shelves
    <3>2. now.count + record.item.count \in 1..MaxCount
      <4>1. now.count \in 1..MaxCount /\ record.item.count \in 1..MaxCount
        BY <3>1, <2>3 DEF Stack
      <4>2. now.count + record.item.count <= MaxCount
        BY <2>1 DEF Redeems
      <4> QED BY <4>1, <4>2, ShopAssumption
    <3> QED BY <3>1, <3>2, CountTypes
  <2>5. PatchOf(calls[c]) =
          [t \in Slots |-> IF t # record.slot THEN Keep
                          ELSE IF now = Empty THEN record.item
                          ELSE WithCount(now, now.count + record.item.count)]
    BY <1>3 DEF PatchOf, RestorePatch, PatchItem
  <2> HIDE DEF record, now
  <2> QED BY <2>1, <2>3, <2>4, <2>5
<1>4. CASE calls[c].op = "replace"
  <2>1. PatchOf(calls[c]) = calls[c].stock
    BY <1>4 DEF PatchOf
  <2> QED BY <1>1, <1>4, <2>1, CallFields DEF Shelves
<1> QED BY <1>2, <1>3, <1>4

-----------------------------------------------------------------------------
(* Every action keeps the invariant. *)

LEMMA SlotsFinite == IsFiniteSet(Slots)
<1>1. 0 \in Int /\ Size - 1 \in Int
  BY ShopAssumption
<1> QED BY <1>1, FS_Interval, Zenon DEF Slots

LEMMA CountType ==
  ASSUME NEW contents \in Shelves, NEW p \in Products
  PROVE  CountOn(contents, p) \in Int
<1>1. [s \in Slots |-> Amount(contents[s], p)] \in [Slots -> Int]
  BY ShopAssumption DEF Amount, Shelves, Stack
<1> QED BY <1>1, SlotsFinite, SumType DEF CountOn

LEMMA OutsideType ==
  ASSUME shelf \in Shelves, shelf' \in Shelves, ledger \in [Products -> Int], Outside
  PROVE  ledger' \in [Products -> Int]
<1>1. \A p \in Products : CountOn(shelf, p) \in Int /\ CountOn(shelf', p) \in Int
  BY CountType
<1> QED BY <1>1 DEF Outside

LEMMA ShopInvInit ==
  ASSUME Init
  PROVE  ShopInv
<1>1. TypeOK
  <2>1. shelf \in [Slots -> Adapter!Contents] /\ request = NoRequest /\ reply = NoReply
    BY Vocabulary DEF Init, Adapter!AInit
  <2>2. ledger \in [Products -> Int]
    <3> SUFFICES ASSUME NEW p \in Products PROVE CountOn(shelf, p) \in Int
      BY DEF Init
    <3>1. shelf \in Shelves
      BY <2>1, Vocabulary DEF Shelves
    <3> QED BY <3>1, CountType
  <2>3. calls \in [Callers -> CallState] /\ \A c \in Callers : calls[c].op = "idle"
    BY DEF Init, Idle, CallState
  <2> QED BY <2>1, <2>2, <2>3, ShopAssumption DEF Init, TypeOK
<1>2. Quiet
  BY DEF Init, Quiet, Adapter!AInit
<1>3. Submitted
  BY ShopAssumption DEF Init, Submitted
<1>4. CallsSound
  BY DEF Init, Idle, CallsSound, Written, Answered, Adapter!AInit
<1>5. TokensSound
  BY DEF Init, TokensSound
<1> QED BY <1>1, <1>2, <1>3, <1>4, <1>5 DEF ShopInv

LEMMA Stuttering ==
  ASSUME ShopInv, UNCHANGED vars
  PROVE  ShopInv'
<1>1. TypeOK'
  BY DEF ShopInv, TypeOK, vars
<1>2. Quiet' /\ Submitted'
  BY DEF ShopInv, Quiet, Submitted, PatchOf, ReservePatch, RestorePatch, vars
<1>3. CallsSound'
  BY DEF ShopInv, CallsSound, Redeems, Written, Answered, Ok, vars
<1>4. TokensSound'
  BY DEF ShopInv, TokensSound, Settled, vars
<1> QED BY <1>1, <1>2, <1>3, <1>4 DEF ShopInv

LEMMA TypedShelf ==
  ASSUME ShopInv
  PROVE  shelf \in Shelves
BY Vocabulary DEF ShopInv, TypeOK, Shelves

\* A new call of an idle caller, nothing being served.
LEMMA CallKeeps ==
  ASSUME ShopInv, NEW c \in Callers, calls[c] = Idle, request = NoRequest,
         NEW call \in CallState, Become(c, call),
         call.op = "restore" <=> lock' = c, lock' \in {lock, c},
         \/ lock' = lock
         \/ lock = NoCaller,
         call.op \in {"reserve", "restore", "replace"},
         call.op = "reserve" => Covers(call.view, call.slot, call.item),
         call.op = "restore" => Redeems(call),
         UNCHANGED <<shelf, request, reply, client, active, restored, completed, ledger>>
  PROVE  ShopInv'
<1>1. calls' = [calls EXCEPT ![c] = call] /\ calls'[c] = call /\ client # c
  BY ShopAssumption DEF ShopInv, TypeOK, Become
<1>2. TypeOK'
  <2>1. calls' \in [Callers -> CallState]
    BY <1>1 DEF ShopInv, TypeOK
  <2>2. \A d \in Callers : lock' = d <=> calls'[d].op = "restore"
    BY <1>1, ShopAssumption DEF ShopInv, TypeOK, Idle
  <2> QED BY <2>1, <2>2 DEF ShopInv, TypeOK
<1>3. Quiet'
  BY DEF ShopInv, Quiet
<1>4. Submitted'
  BY ShopAssumption DEF ShopInv, TypeOK, Submitted
<1>5. CallsSound'
  <2> SUFFICES ASSUME NEW d \in Callers
               PROVE  /\ calls'[d].op = "reserve" =>
                            Covers(calls'[d].view, calls'[d].slot, calls'[d].item)
                      /\ calls'[d].op = "register" => Sound(calls'[d].record)
                      /\ calls'[d].op = "restore" => Redeems(calls[d])'
                      /\ ~ Written(d, "reserve")'
    BY DEF CallsSound
  <2>1. ~ Written(d, "reserve")'
    BY ShopAssumption DEF ShopInv, TypeOK, Written, Answered
  <2>2. CASE d = c
    <3>1. calls'[d] = call
      BY <1>1, <2>2
    <3>2. Redeems(call) => Redeems(calls[d])'
      BY <3>1 DEF Redeems
    <3> QED BY <3>1, <3>2, <2>1
  <2>3. CASE d # c
    <3>1. calls'[d] = calls[d]
      BY <1>1, <2>3
    <3>2. Redeems(calls[d]) => Redeems(calls[d])'
      BY <3>1 DEF Redeems
    <3> QED BY <3>1, <3>2, <2>1 DEF ShopInv, CallsSound
  <2> QED BY <2>2, <2>3
<1>6. TokensSound'
  BY DEF ShopInv, TokensSound, Settled
<1> QED BY <1>2, <1>3, <1>4, <1>5, <1>6 DEF ShopInv

LEMMA ReserveCaptureKeeps ==
  ASSUME ShopInv, NEW c \in Callers, NEW s \in DOMAIN Listing, NEW quantity \in 1..MaxCount,
         ReserveCapture(c, s, quantity)
  PROVE  ShopInv'
<1> DEFINE call == [op |-> "reserve", slot |-> s, view |-> shelf,
                    item |-> WithCount(shelf[s], quantity)]
<1>1. shelf \in Shelves /\ s \in Slots /\ shelf[s] \in Stack
  BY TypedShelf, ShopAssumption DEF Shelves, ReserveCapture
<1>2. WithCount(shelf[s], quantity) \in Stack
      /\ WithCount(shelf[s], quantity).product = shelf[s].product
      /\ WithCount(shelf[s], quantity).count = quantity
  BY <1>1, CountTypes
<1>3. call \in CallState
  BY <1>1, <1>2, Vocabulary DEF CallState, Shelves
<1>4. Covers(call.view, call.slot, call.item)
  BY <1>1, <1>2 DEF Covers, ReserveCapture
<1>5. lock' = lock /\ lock # c
  BY DEF ReserveCapture, shop, ShopInv, TypeOK, Idle
<1>6. call.op = "reserve"
  OBVIOUS
<1>7. /\ calls[c] = Idle
      /\ request = NoRequest
      /\ Become(c, call)
      /\ UNCHANGED <<shelf, request, reply, client, active, restored, completed, ledger>>
  BY DEF ReserveCapture, shop
<1> HIDE DEF call
<1> QED BY <1>3, <1>4, <1>5, <1>6, <1>7, CallKeeps

LEMMA RestoreCaptureKeeps ==
  ASSUME ShopInv, NEW c \in Callers, NEW id \in Ids, NEW genuine, RestoreCapture(c, id, genuine)
  PROVE  ShopInv'
<1> DEFINE call == [op |-> "restore", id |-> id, view |-> shelf]
<1>1. shelf \in Shelves
  BY TypedShelf
<1>2. call \in CallState
  BY <1>1, Vocabulary DEF CallState, Shelves
<1>3. Redeems(call)
  BY DEF RestoreCapture, Presentable, Restorable, Redeems
<1>4. lock' = c /\ lock = NoCaller
  BY DEF RestoreCapture
<1>5. call.op = "restore"
  OBVIOUS
<1>6. /\ calls[c] = Idle
      /\ request = NoRequest
      /\ Become(c, call)
      /\ UNCHANGED <<shelf, request, reply, client, active, restored, completed, ledger>>
  BY DEF RestoreCapture
<1> HIDE DEF call
<1> QED BY <1>2, <1>3, <1>4, <1>5, <1>6, CallKeeps

LEMMA ReplaceCaptureKeeps ==
  ASSUME ShopInv, NEW c \in Callers, NEW stock \in Restocks,
         ReplaceCapture(c, stock)
  PROVE  ShopInv'
<1> DEFINE call == [op |-> "replace", view |-> shelf, stock |-> stock]
<1>1. shelf \in Shelves
  BY TypedShelf
<1>2. call \in CallState
  BY <1>1, Vocabulary, ShopAssumption DEF CallState, Shelves
<1>3. lock' = lock /\ lock # c
  BY DEF ReplaceCapture, shop, ShopInv, TypeOK, Idle
<1>4. call.op = "replace"
  OBVIOUS
<1>5. /\ calls[c] = Idle
      /\ request = NoRequest
      /\ Become(c, call)
      /\ UNCHANGED <<shelf, request, reply, client, active, restored, completed, ledger>>
  BY DEF ReplaceCapture, shop
<1> HIDE DEF call
<1> QED BY <1>2, <1>3, <1>4, <1>5, CallKeeps

LEMMA PatchSame ==
  ASSUME NEW d \in Callers, calls'[d] = calls[d],
         calls[d].op = "restore" => active'[calls[d].id] = active[calls[d].id]
  PROVE  /\ PatchOf(calls[d])' = PatchOf(calls[d])
         /\ calls[d].op = "restore" => Redeems(calls[d])' = Redeems(calls[d])
<1>1. ReservePatch(calls[d])' = ReservePatch(calls[d])
  BY DEF ReservePatch
<1>2. calls[d].op = "restore" => RestorePatch(calls[d])' = RestorePatch(calls[d])
  BY DEF RestorePatch
<1>3. calls[d].op = "restore" => Redeems(calls[d])' = Redeems(calls[d])
  BY DEF Redeems
<1> QED BY <1>1, <1>2, <1>3 DEF PatchOf

LEMMA ShelfEditKeeps ==
  ASSUME ShopInv, ShelfEdit
  PROVE  ShopInv'
<1>1. shelf \in Shelves
  BY TypedShelf
<1>2. shelf' \in Shelves /\ request = NoRequest /\ UNCHANGED <<request, reply>>
  BY <1>1, Vocabulary DEF ShelfEdit, Adapter!AEdit, Shelves
<1>3. TypeOK'
  BY <1>1, <1>2, OutsideType, Vocabulary DEF ShelfEdit, shop, ShopInv, TypeOK, Shelves
<1>4. Quiet'
  BY <1>2 DEF ShopInv, Quiet
<1>5. Submitted'
  BY <1>2, ShopAssumption DEF ShelfEdit, ShopInv, TypeOK, Submitted
<1>6. CallsSound'
  BY <1>2 DEF ShelfEdit, shop, ShopInv, CallsSound, Redeems, Written, Answered, Ok
<1>7. TokensSound'
  BY DEF ShelfEdit, shop, ShopInv, TokensSound, Settled
<1> QED BY <1>3, <1>4, <1>5, <1>6, <1>7 DEF ShopInv

LEMMA ApplyKeeps ==
  ASSUME ShopInv, NEW c \in Callers, Apply(c)
  PROVE  ShopInv'
<1>1. /\ calls[c].op \in {"reserve", "restore", "replace"}
      /\ request = NoRequest
      /\ request' = [patch |-> PatchOf(calls[c]), expected |-> calls[c].view,
                     policy |-> "FailIfChanged"]
      /\ client' = c
      /\ UNCHANGED <<shelf, reply, calls, ledger, active, restored, completed, lock>>
  BY DEF Apply, shop
<1>2. request' \in Adapter!Request
  BY <1>1, PatchTypes, Vocabulary
<1>3. TypeOK'
  BY <1>1, <1>2, MarksAssumption, ShopAssumption DEF ShopInv, TypeOK
<1>4. Quiet'
  BY <1>2, MarksAssumption DEF Quiet
<1>5. Submitted'
  BY <1>1, PatchSame DEF Submitted
<1>6. CallsSound'
  <2>1. \A d \in Callers : ~ Written(d, "reserve")'
    BY <1>1 DEF ShopInv, Quiet, Written, Answered
  <2>2. \A d \in Callers : calls[d].op = "restore" => Redeems(calls[d])' = Redeems(calls[d])
    BY <1>1, PatchSame
  <2> QED BY <1>1, <2>1, <2>2 DEF ShopInv, CallsSound
<1>7. TokensSound'
  BY <1>1 DEF ShopInv, TokensSound, Settled
<1> QED BY <1>3, <1>4, <1>5, <1>6, <1>7 DEF ShopInv

\* The adapter answers; the answer to a reservation shows what it left.
LEMMA AnswerKeeps ==
  ASSUME ShopInv, NEW status \in Adapter!ApplyStatus, NEW revisions,
         Answering(status, revisions),
         revisions \subseteq Shelves \cup {NoRevision},
         shelf' \in Shelves, ledger' \in [Products -> Int],
         UNCHANGED <<client, calls, active, restored, completed, lock>>,
         \A c \in Callers : status = "Applied" /\ client = c /\ calls[c].op = "reserve" =>
            revisions \subseteq
               {NoRevision, Leaves(calls[c].view, calls[c].slot, calls[c].item)}
  PROVE  ShopInv'
<1>1. /\ reply' \in Adapter!ApplyResult
      /\ reply' # NoReply
      /\ reply'.status = status
      /\ reply'.revision \in revisions
  BY AnswerType
<1>2. request' = request /\ request # NoRequest /\ reply = NoReply
  BY DEF Answering
<1>3. TypeOK'
  BY <1>1, <1>2, Vocabulary DEF ShopInv, TypeOK, Shelves
<1>4. Quiet'
  BY <1>2 DEF Quiet
<1>5. Submitted'
  BY <1>2, PatchSame DEF ShopInv, Submitted
<1>6. CallsSound'
  <2>1. \A d \in Callers : Written(d, "reserve")' =>
           reply'.revision \in
              {NoRevision, Leaves(calls[d].view, calls[d].slot, calls[d].item)}
    BY <1>1 DEF Written, Answered, Ok
  <2>2. \A d \in Callers : calls[d].op = "restore" => Redeems(calls[d])' = Redeems(calls[d])
    BY PatchSame
  <2> QED BY <2>1, <2>2 DEF ShopInv, CallsSound
<1>7. TokensSound'
  BY DEF ShopInv, TokensSound, Settled
<1> QED BY <1>3, <1>4, <1>5, <1>6, <1>7 DEF ShopInv

\* What a commit does: exactly the patch of the call being served.
LEMMA CommitEffect ==
  ASSUME ShopInv, Commit
  PROVE  /\ client \in Callers
         /\ calls[client].op \in {"reserve", "restore", "replace"}
         /\ shelf = calls[client].view
         /\ Answering("Applied", {NoRevision, shelf'})
         /\ shelf' \in Shelves
         /\ shelf' = [s \in Slots |-> IF PatchOf(calls[client])[s] = Keep THEN shelf[s]
                                      ELSE PatchOf(calls[client])[s]]
<1>1. request # NoRequest
  BY DEF Commit, Adapter!ACommit, Adapter!Serving
<1>2. client \in Callers
  BY <1>1 DEF ShopInv, TypeOK
<1>3. /\ calls[client].op \in {"reserve", "restore", "replace"}
      /\ request = [patch |-> PatchOf(calls[client]), expected |-> calls[client].view,
                    policy |-> "FailIfChanged"]
  BY <1>2 DEF ShopInv, Submitted
<1>4. /\ PatchOf(calls[client]) \in [Slots -> Stack \cup {Empty, Keep}]
      /\ calls[client].view \in Shelves
  BY <1>2, <1>3, PatchTypes
<1>5. calls[client].view # NoRevision
  BY <1>4, MarksAssumption DEF Shelves
<1>6. /\ request.policy = "FailIfChanged"
      /\ request.expected = calls[client].view
      /\ request.patch = PatchOf(calls[client])
  BY <1>3
<1>7. /\ Answering("Applied", {NoRevision, shelf'})
      /\ shelf = calls[client].view
      /\ shelf' = [s \in Slots |-> IF PatchOf(calls[client])[s] = Keep THEN shelf[s]
                                   ELSE PatchOf(calls[client])[s]]
  BY <1>5, <1>6, CommitShape
<1>8. shelf' \in Shelves
  BY <1>4, <1>7 DEF Shelves
<1> QED BY <1>2, <1>3, <1>7, <1>8

LEMMA AdapterKeeps ==
  ASSUME ShopInv, Answer
  PROVE  ShopInv'
<1>1. shelf \in Shelves /\ ledger \in [Products -> Int]
  BY TypedShelf DEF ShopInv, TypeOK
<1>2. CASE Refuse
  <2>1. UNCHANGED <<client, calls, active, restored, completed, lock, ledger>>
    BY <1>2 DEF Refuse, shop
  <2>2. PICK st \in Adapter!ApplyStatus \ {"Applied"} : Answering(st, {NoRevision, shelf})
    BY <1>2, RefuseShape, Zenon
  <2>3. shelf' = shelf
    BY <1>2, RefuseShape
  <2> QED BY <1>1, <2>1, <2>2, <2>3, AnswerKeeps
<1>3. CASE Damage
  <2>1. UNCHANGED <<client, calls, active, restored, completed, lock>> /\ Outside
    BY <1>3 DEF Damage, shop
  <2>2. Answering("AdapterError", {NoRevision, shelf'}) /\ shelf' \in Shelves
    BY <1>3, DamageShape
  <2>3. ledger' \in [Products -> Int]
    BY <1>1, <2>1, <2>2, OutsideType
  <2>4. "AdapterError" \in Adapter!ApplyStatus
    BY DEF Adapter!ApplyStatus
  <2> QED BY <2>1, <2>2, <2>3, <2>4, AnswerKeeps
<1>4. CASE Commit
  <2>1. UNCHANGED <<client, calls, active, restored, completed, lock>>
        /\ (Outside \/ ledger' = ledger)
    BY <1>4 DEF Commit, shop
  <2>2. /\ shelf = calls[client].view
        /\ Answering("Applied", {NoRevision, shelf'})
        /\ shelf' \in Shelves
        /\ shelf' = [s \in Slots |-> IF PatchOf(calls[client])[s] = Keep THEN shelf[s]
                                     ELSE PatchOf(calls[client])[s]]
    BY <1>4, CommitEffect
  <2>3. ledger' \in [Products -> Int]
    BY <1>1, <2>1, <2>2, OutsideType
  <2>4. "Applied" \in Adapter!ApplyStatus
    BY DEF Adapter!ApplyStatus
  <2>5. ASSUME NEW c \in Callers, client = c, calls[c].op = "reserve"
        PROVE  shelf' = Leaves(calls[c].view, calls[c].slot, calls[c].item)
    <3>1. PatchOf(calls[c]) = ReservePatch(calls[c])
      BY <2>5 DEF PatchOf
    <3>2. Covers(calls[c].view, calls[c].slot, calls[c].item)
      BY <2>5 DEF ShopInv, CallsSound
    <3>3. calls[c] \in CallState
      BY DEF ShopInv, TypeOK
    <3>4. calls[c].view \in Shelves /\ calls[c].slot \in Slots /\ calls[c].item \in Stack
      BY <2>5, <3>3, CallFields, Zenon
    <3> QED BY <2>2, <2>5, <3>1, <3>2, <3>4, ShelfOverlay
  <2> QED BY <2>1, <2>2, <2>3, <2>4, <2>5, AnswerKeeps
<1> QED BY <1>2, <1>3, <1>4 DEF Answer

\* A caller takes its answer; its next call holds no lock.
LEMMA CollectKeeps ==
  ASSUME ShopInv, NEW c \in Callers, client = c, Adapter!ACollect, client' = NoCaller,
         NEW call \in CallState, Become(c, call),
         call.op \in {"idle", "register"},
         call.op = "register" => Sound(call.record),
         lock' = IF calls[c].op = "restore" THEN NoCaller ELSE lock,
         restored' \subseteq Ids, restored' \cap completed = {},
         restored' \subseteq restored \/ calls[c].op = "restore",
         active' \in [Ids -> Record \cup {NoRecord}],
         \A id \in Ids : active'[id] # NoRecord => active'[id] = active[id] /\ id \notin restored',
         calls[c].op # "restore" => active' = active,
         UNCHANGED <<completed, ledger>>
  PROVE  ShopInv'
<1>1. /\ calls' = [calls EXCEPT ![c] = call]
      /\ calls'[c] = call
      /\ request' = NoRequest
      /\ reply' = NoReply
      /\ shelf' = shelf
  BY DEF ShopInv, TypeOK, Become, Adapter!ACollect
<1>2. \A d \in Callers : d # c /\ calls[d].op = "restore" => active' = active
  <2> SUFFICES ASSUME NEW d \in Callers, d # c, calls[d].op = "restore"
               PROVE  calls[c].op # "restore"
    OBVIOUS
  <2>1. lock = d
    BY DEF ShopInv, TypeOK
  <2>2. ~ (lock = c)
    BY <2>1
  <2> QED BY <2>2 DEF ShopInv, TypeOK
<1>3. TypeOK'
  <2>1. calls' \in [Callers -> CallState]
    BY <1>1 DEF ShopInv, TypeOK
  <2>2. \A d \in Callers : lock' = d <=> calls'[d].op = "restore"
    BY <1>1, ShopAssumption DEF ShopInv, TypeOK
  <2> QED BY <1>1, <2>1, <2>2 DEF ShopInv, TypeOK
<1>4. Quiet'
  BY <1>1 DEF Quiet
<1>5. Submitted'
  BY ShopAssumption DEF Submitted
<1>6. CallsSound'
  <2>1. \A d \in Callers : ~ Written(d, "reserve")'
    BY <1>1 DEF Written, Answered
  <2> SUFFICES ASSUME NEW d \in Callers
               PROVE  /\ calls'[d].op = "reserve" =>
                            Covers(calls'[d].view, calls'[d].slot, calls'[d].item)
                      /\ calls'[d].op = "register" => Sound(calls'[d].record)
                      /\ calls'[d].op = "restore" => Redeems(calls[d])'
    BY <2>1 DEF CallsSound
  <2>2. CASE d = c
    BY <1>1, <2>2
  <2>3. CASE d # c
    <3>1. calls'[d] = calls[d]
      BY <1>1, <2>3
    <3>2. calls[d].op = "restore" => Redeems(calls[d])' = Redeems(calls[d])
      BY <1>2, <2>3, <3>1, PatchSame
    <3> QED BY <3>1, <3>2 DEF ShopInv, CallsSound
  <2> QED BY <2>2, <2>3
<1>7. TokensSound'
  BY DEF ShopInv, TokensSound, Settled
<1> QED BY <1>3, <1>4, <1>5, <1>6, <1>7 DEF ShopInv

LEMMA IdleCall == Idle \in CallState /\ Idle.op = "idle"
BY DEF Idle, CallState

LEMMA ReservedKeeps ==
  ASSUME ShopInv, NEW c \in Callers, Reserved(c)
  PROVE  ShopInv'
<1>1. /\ client = c /\ reply # NoReply /\ calls[c].op = "reserve"
      /\ Adapter!ACollect /\ client' = NoCaller
      /\ UNCHANGED <<ledger, active, restored, completed, lock>>
  BY DEF Reserved, Answered, shop
<1> DEFINE record == [slot |-> calls[c].slot, item |-> calls[c].item,
                      shelf_revision |-> reply.revision, before |-> calls[c].view]
           call == [op |-> "register", record |-> record]
<1>2. CASE Ok
  <2>1. calls[c] \in CallState
    BY DEF ShopInv, TypeOK
  <2>2. calls[c].view \in Shelves /\ calls[c].slot \in Slots /\ calls[c].item \in Stack
    BY <1>1, <2>1, CallFields, Zenon
  <2>3. reply.revision \in Shelves \cup {NoRevision}
    BY <1>1, Vocabulary DEF ShopInv, TypeOK, Adapter!ApplyResult
  <2>4. record \in Record
    BY <2>2, <2>3, Vocabulary DEF Record, Shelves
  <2>5. Sound(record)
    BY <1>1, <1>2 DEF ShopInv, CallsSound, Written, Answered, Sound
  <2>6. Become(c, call)
    BY <1>2 DEF Reserved
  <2>7. call \in CallState /\ call.op = "register" /\ call.record = record
    BY <2>4 DEF CallState
  <2> HIDE DEF record, call
  <2> QED BY <1>1, <2>5, <2>6, <2>7, CollectKeeps DEF ShopInv, TypeOK, TokensSound, Settled
<1>3. CASE ~ Ok
  <2>1. Become(c, Idle)
    BY <1>3 DEF Reserved
  <2> QED BY <1>1, <2>1, IdleCall, CollectKeeps DEF ShopInv, TypeOK, TokensSound, Settled
<1> QED BY <1>2, <1>3

LEMMA ReplacedKeeps ==
  ASSUME ShopInv, NEW c \in Callers, Replaced(c)
  PROVE  ShopInv'
<1>1. /\ client = c /\ calls[c].op = "replace" /\ Become(c, Idle)
      /\ Adapter!ACollect /\ client' = NoCaller
      /\ UNCHANGED <<ledger, active, restored, completed, lock>>
  BY DEF Replaced, Answered, shop
<1> QED BY <1>1, IdleCall, CollectKeeps DEF ShopInv, TypeOK, TokensSound, Settled

LEMMA RestoredKeeps ==
  ASSUME ShopInv, NEW c \in Callers, Restored(c)
  PROVE  ShopInv'
<1>1. /\ client = c /\ calls[c].op = "restore" /\ Become(c, Idle) /\ lock' = NoCaller
      /\ Adapter!ACollect /\ client' = NoCaller
      /\ UNCHANGED <<ledger, completed>>
  BY DEF Restored, Answered
<1>2. calls[c] \in CallState
  BY DEF ShopInv, TypeOK
<1>3. calls[c].id \in Ids /\ Redeems(calls[c])
  BY <1>1, <1>2, CallFields, Zenon DEF ShopInv, CallsSound
<1>4. calls[c].id \notin completed
  BY <1>3 DEF ShopInv, TokensSound, Settled, Redeems
<1>5. CASE Ok
  <2>1. /\ active' = [active EXCEPT ![calls[c].id] = NoRecord]
        /\ restored' = restored \cup {calls[c].id}
    BY <1>5 DEF Restored
  <2>2. restored' \subseteq Ids /\ restored' \cap completed = {}
    BY <1>3, <1>4, <2>1 DEF ShopInv, TypeOK, TokensSound
  <2>3. active' \in [Ids -> Record \cup {NoRecord}]
    BY <2>1 DEF ShopInv, TypeOK
  <2>4. \A id \in Ids : active'[id] # NoRecord => active'[id] = active[id] /\ id \notin restored'
    BY <2>1 DEF ShopInv, TypeOK, TokensSound, Settled
  <2> QED BY <1>1, <2>2, <2>3, <2>4, IdleCall, CollectKeeps
<1>6. CASE ~ Ok
  <2>1. UNCHANGED <<active, restored>>
    BY <1>6 DEF Restored
  <2> QED BY <1>1, <2>1, IdleCall, CollectKeeps DEF ShopInv, TypeOK, TokensSound, Settled
<1> QED BY <1>5, <1>6

\* The registry changes while nobody restores.
LEMMA RegistryKeeps ==
  ASSUME ShopInv, NEW c \in Callers, lock = NoCaller,
         Become(c, Idle), client # c,
         restored \cap completed' = {}, completed' \subseteq Ids,
         active' \in [Ids -> Record \cup {NoRecord}],
         \A id \in Ids : active'[id] # NoRecord =>
             id \notin restored \cup completed' /\ Sound(active'[id]),
         ledger' \in [Products -> Int],
         UNCHANGED <<shelf, request, reply, client, restored, lock>>
  PROVE  ShopInv'
<1>1. calls' = [calls EXCEPT ![c] = Idle] /\ calls'[c] = Idle
  BY DEF ShopInv, TypeOK, Become
<1>2. \A d \in Callers : calls[d].op # "restore"
  BY ShopAssumption DEF ShopInv, TypeOK
<1>3. TypeOK'
  <2>1. calls' \in [Callers -> CallState]
    BY <1>1, IdleCall DEF ShopInv, TypeOK
  <2>2. \A d \in Callers : lock' = d <=> calls'[d].op = "restore"
    BY <1>1, <1>2, ShopAssumption, IdleCall
  <2> QED BY <2>1, <2>2 DEF ShopInv, TypeOK
<1>4. Quiet'
  BY DEF ShopInv, Quiet
<1>5. Submitted'
  <2> SUFFICES ASSUME NEW d \in Callers, client' = d
               PROVE  /\ calls'[d].op \in {"reserve", "restore", "replace"}
                      /\ request' = [patch |-> PatchOf(calls[d])', expected |-> calls'[d].view,
                                     policy |-> "FailIfChanged"]
    BY DEF Submitted
  <2>1. calls'[d] = calls[d] /\ client = d
    BY <1>1
  <2>2. PatchOf(calls[d])' = PatchOf(calls[d])
    BY <1>2, <2>1, PatchSame
  <2> QED BY <2>1, <2>2 DEF ShopInv, Submitted
<1>6. CallsSound'
  <2> SUFFICES ASSUME NEW d \in Callers
               PROVE  /\ calls'[d].op = "reserve" =>
                            Covers(calls'[d].view, calls'[d].slot, calls'[d].item)
                      /\ calls'[d].op = "register" => Sound(calls'[d].record)
                      /\ calls'[d].op # "restore"
                      /\ Written(d, "reserve")' =>
                            reply'.revision \in
                             {NoRevision, Leaves(calls'[d].view, calls'[d].slot, calls'[d].item)}
    BY DEF CallsSound
  <2>1. CASE d = c
    BY <1>1, <2>1, IdleCall DEF Written, Answered
  <2>2. CASE d # c
    <3>1. calls'[d] = calls[d]
      BY <1>1, <2>2
    <3> QED BY <1>2, <3>1 DEF ShopInv, CallsSound, Written, Answered, Ok
  <2> QED BY <2>1, <2>2
<1>7. TokensSound'
  BY DEF ShopInv, TokensSound, Settled
<1> QED BY <1>3, <1>4, <1>5, <1>6, <1>7 DEF ShopInv

LEMMA RegisterKeeps ==
  ASSUME ShopInv, NEW c \in Callers, Register(c)
  PROVE  ShopInv'
<1>1. /\ calls[c].op = "register" /\ lock = NoCaller /\ Become(c, Idle)
      /\ UNCHANGED <<shelf, request, reply, client, restored, completed, lock, ledger>>
  BY DEF Register
<1>2. PICK id \in Ids : NewId(id) /\ active' = [active EXCEPT ![id] = calls[c].record]
  BY DEF Register
<1>3. calls[c] \in CallState
  BY DEF ShopInv, TypeOK
<1>4. calls[c].record \in Record /\ Sound(calls[c].record)
  BY <1>1, <1>3, CallFields, Zenon DEF ShopInv, CallsSound
<1>5. client # c
  BY <1>1 DEF ShopInv, Submitted
<1>6. active' \in [Ids -> Record \cup {NoRecord}]
  BY <1>2, <1>4 DEF ShopInv, TypeOK
<1>7. \A i \in Ids : active'[i] # NoRecord =>
         i \notin restored \cup completed' /\ Sound(active'[i])
  BY <1>1, <1>2, <1>4 DEF NewId, ShopInv, TypeOK, TokensSound, Settled
<1>8. /\ restored \cap completed' = {} /\ completed' \subseteq Ids
      /\ ledger' \in [Products -> Int]
  BY <1>1 DEF ShopInv, TypeOK, TokensSound
<1> QED BY <1>1, <1>5, <1>6, <1>7, <1>8, RegistryKeeps

LEMMA CompleteKeeps ==
  ASSUME ShopInv, NEW c \in Callers, NEW id \in Ids, NEW genuine, Complete(c, id, genuine)
  PROVE  ShopInv'
<1>1. /\ calls[c] = Idle /\ lock = NoCaller /\ Presentable(id, genuine)
      /\ active' = [active EXCEPT ![id] = NoRecord]
      /\ completed' = completed \cup {id}
      /\ UNCHANGED <<shelf, request, reply, client, restored, lock, calls>>
  BY DEF Complete
<1>2. Become(c, Idle)
  BY <1>1 DEF Become, ShopInv, TypeOK
<1>3. client # c
  BY <1>1, IdleCall DEF ShopInv, Submitted
<1>4. active[id] \in Record
  BY <1>1 DEF Presentable, ShopInv, TypeOK
<1>5. ledger' \in [Products -> Int]
  <2>1. active[id].item \in Stack
    BY <1>4, RecordFields
  <2>2. active[id].item.count \in Int /\ active[id].item.product \in Products
    BY <2>1, ShopAssumption DEF Stack
  <2>3. ledger' = [ledger EXCEPT ![active[id].item.product] = @ - active[id].item.count]
    BY DEF Complete
  <2>4. ledger \in [Products -> Int]
    BY DEF ShopInv, TypeOK
  <2>5. ledger[active[id].item.product] - active[id].item.count \in Int
    BY <2>2, <2>4
  <2> QED BY <2>2, <2>3, <2>4, <2>5
<1>6. restored \cap completed' = {} /\ completed' \subseteq Ids
  BY <1>1 DEF Presentable, ShopInv, TypeOK, TokensSound
<1>7. active' \in [Ids -> Record \cup {NoRecord}]
  BY <1>1 DEF ShopInv, TypeOK
<1>8. \A i \in Ids : active'[i] # NoRecord =>
         i \notin restored \cup completed' /\ Sound(active'[i])
  BY <1>1 DEF ShopInv, TypeOK, TokensSound, Settled
<1> QED BY <1>1, <1>2, <1>3, <1>5, <1>6, <1>7, <1>8, RegistryKeeps

LEMMA ShopInvStep ==
  ASSUME ShopInv, [Next]_vars
  PROVE  ShopInv'
<1>1. CASE ShelfEdit
  BY <1>1, ShelfEditKeeps
<1>2. CASE Answer
  BY <1>2, AdapterKeeps
<1>3. ASSUME NEW c \in Callers, Call(c)
      PROVE  ShopInv'
  BY <1>3, ReserveCaptureKeeps, RestoreCaptureKeeps, CompleteKeeps, ReplaceCaptureKeeps
     DEF Call
<1>4. ASSUME NEW c \in Callers, Proceed(c)
      PROVE  ShopInv'
  BY <1>4, ApplyKeeps, ReservedKeeps, RegisterKeeps, RestoredKeeps, ReplacedKeeps DEF Proceed
<1>5. CASE UNCHANGED vars
  BY <1>5, Stuttering
<1> QED BY <1>1, <1>2, <1>3, <1>4, <1>5 DEF Next

LEMMA ShopInvariant == Spec => []ShopInv
<1>1. Init => ShopInv
  BY ShopInvInit
<1>2. ShopInv /\ [Next]_vars => ShopInv'
  BY ShopInvStep
<1> QED BY <1>1, <1>2, PTL DEF Spec

(***************************************************************************)
(* Every request is that of one caller, and the lock of the registry is    *)
(* held exactly while a reservation is being restored.                     *)
(***************************************************************************)
THEOREM TypeCorrect == Spec => []TypeOK
<1>1. ShopInv => TypeOK
  BY DEF ShopInv
<1> QED BY <1>1, ShopInvariant, PTL

-----------------------------------------------------------------------------
(* Stock: how much each step changes each of the four sums. *)

LEMMA AmountType ==
  ASSUME NEW p \in Products, NEW item \in Stack \cup {Empty}
  PROVE  Amount(item, p) \in Int
BY ShopAssumption DEF Amount, Stack

LEMMA CountChange ==
  ASSUME NEW p \in Products, NEW old \in Shelves, NEW new \in Shelves, NEW slot \in Slots,
         \A s \in Slots \ {slot} : old[s] = new[s]
  PROVE  CountOn(new, p) = CountOn(old, p) + Amount(new[slot], p) - Amount(old[slot], p)
<1> DEFINE f == [s \in Slots |-> Amount(old[s], p)]
           g == [s \in Slots |-> Amount(new[s], p)]
<1>1. f \in [Slots -> Int] /\ g \in [Slots -> Int]
  BY AmountType DEF Shelves
<1>2. \A s \in Slots \ {slot} : f[s] = g[s]
  OBVIOUS
<1>3. f[slot] = Amount(old[slot], p) /\ g[slot] = Amount(new[slot], p)
  OBVIOUS
<1>4. CountOn(new, p) = SumFunction(g) /\ CountOn(old, p) = SumFunction(f)
  BY DEF CountOn
<1> HIDE DEF f, g
<1> QED BY <1>1, <1>2, <1>3, <1>4, SlotsFinite, SumChange

LEMMA PartTypes ==
  ASSUME ShopInv, NEW p \in Products
  PROVE  /\ \A id \in Ids : HeldBy(id, p) \in Int
         /\ \A c \in Callers : HandOf(c, p) \in Int /\ BackOf(c, p) \in Int
<1>1. ASSUME NEW id \in Ids
      PROVE  HeldBy(id, p) \in Int
  <2>1. CASE active[id] = NoRecord
    BY <2>1 DEF HeldBy
  <2>2. CASE active[id] # NoRecord
    <3>1. active[id] \in Record
      BY <2>2 DEF ShopInv, TypeOK
    <3> QED BY <2>2, <3>1, RecordFields, AmountType DEF HeldBy
  <2> QED BY <2>1, <2>2
<1>2. ASSUME NEW c \in Callers
      PROVE  HandOf(c, p) \in Int /\ BackOf(c, p) \in Int
  <2>1. calls[c] \in CallState
    BY DEF ShopInv, TypeOK
  <2>2. HandOf(c, p) \in Int
    <3>1. calls[c].op = "register" => calls[c].record.item \in Stack
      BY <2>1, CallFields, RecordFields
    <3>2. Written(c, "reserve") => calls[c].item \in Stack
      BY <2>1, CallFields, Zenon DEF Written, Answered
    <3> QED BY <3>1, <3>2, AmountType DEF HandOf
  <2>3. BackOf(c, p) \in Int
    <3>1. Written(c, "restore") => active[calls[c].id].item \in Stack
      <4> HAVE Written(c, "restore")
      <4>1. calls[c].op = "restore"
        BY DEF Written, Answered
      <4>2. calls[c].id \in Ids /\ Redeems(calls[c])
        BY <2>1, <4>1, CallFields, Zenon DEF ShopInv, CallsSound
      <4>3. active[calls[c].id] \in Record
        BY <4>2 DEF Redeems, ShopInv, TypeOK
      <4> QED BY <4>3, RecordFields
    <3> QED BY <3>1, AmountType DEF BackOf
  <2> QED BY <2>2, <2>3
<1> QED BY <1>1, <1>2

PartsTyped ==
    \A p \in Products :
        /\ \A id \in Ids : HeldBy(id, p) \in Int
        /\ \A c \in Callers : HandOf(c, p) \in Int /\ BackOf(c, p) \in Int

LEMMA PartsAlwaysTyped == ShopInv => PartsTyped
BY PartTypes DEF PartsTyped

LEMMA SumTypes ==
  ASSUME ShopInv, NEW p \in Products
  PROVE  /\ CountOn(shelf, p) \in Int
         /\ Held(p) \in Int
         /\ InHand(p) \in Int
         /\ PutBack(p) \in Int
         /\ ledger[p] \in Int
<1>1. CountOn(shelf, p) \in Int
  BY TypedShelf, CountType
<1>2. [id \in Ids |-> HeldBy(id, p)] \in [Ids -> Int]
  BY PartTypes
<1>3. [c \in Callers |-> HandOf(c, p)] \in [Callers -> Int]
  BY PartTypes
<1>4. [c \in Callers |-> BackOf(c, p)] \in [Callers -> Int]
  BY PartTypes
<1>5. Held(p) \in Int
  BY <1>2, SumType, ShopAssumption DEF Held
<1>6. InHand(p) \in Int
  BY <1>3, SumType, ShopAssumption DEF InHand
<1>7. PutBack(p) \in Int
  BY <1>4, SumType, ShopAssumption DEF PutBack
<1> QED BY <1>1, <1>5, <1>6, <1>7 DEF ShopInv, TypeOK

LEMMA HeldChange ==
  ASSUME ShopInv, ShopInv', NEW p \in Products, NEW id \in Ids,
         \A i \in Ids \ {id} : HeldBy(i, p)' = HeldBy(i, p)
  PROVE  Held(p)' = Held(p) + HeldBy(id, p)' - HeldBy(id, p)
<1> DEFINE f == [i \in Ids |-> HeldBy(i, p)]
           g == [i \in Ids |-> HeldBy(i, p)']
<1>1. f \in [Ids -> Int]
  BY PartTypes
<1>2. g \in [Ids -> Int]
  <2>1. PartsTyped'
    BY PartsAlwaysTyped, PTL
  <2> QED BY <2>1 DEF PartsTyped
<1>3. \A i \in Ids \ {id} : f[i] = g[i]
  OBVIOUS
<1>4. f[id] = HeldBy(id, p) /\ g[id] = HeldBy(id, p)'
  OBVIOUS
<1>5. Held(p) = SumFunction(f) /\ Held(p)' = SumFunction(g)
  BY DEF Held
<1> HIDE DEF f, g
<1> QED BY <1>1, <1>2, <1>3, <1>4, <1>5, ShopAssumption, SumChange

LEMMA HandChange ==
  ASSUME ShopInv, ShopInv', NEW p \in Products, NEW c \in Callers,
         \A d \in Callers \ {c} : HandOf(d, p)' = HandOf(d, p)
  PROVE  InHand(p)' = InHand(p) + HandOf(c, p)' - HandOf(c, p)
<1> DEFINE f == [d \in Callers |-> HandOf(d, p)]
           g == [d \in Callers |-> HandOf(d, p)']
<1>1. f \in [Callers -> Int]
  BY PartTypes
<1>2. g \in [Callers -> Int]
  <2>1. PartsTyped'
    BY PartsAlwaysTyped, PTL
  <2> QED BY <2>1 DEF PartsTyped
<1>3. \A d \in Callers \ {c} : f[d] = g[d]
  OBVIOUS
<1>4. f[c] = HandOf(c, p) /\ g[c] = HandOf(c, p)'
  OBVIOUS
<1>5. InHand(p) = SumFunction(f) /\ InHand(p)' = SumFunction(g)
  BY DEF InHand
<1> HIDE DEF f, g
<1> QED BY <1>1, <1>2, <1>3, <1>4, <1>5, ShopAssumption, SumChange

LEMMA BackChange ==
  ASSUME ShopInv, ShopInv', NEW p \in Products, NEW c \in Callers,
         \A d \in Callers \ {c} : BackOf(d, p)' = BackOf(d, p)
  PROVE  PutBack(p)' = PutBack(p) + BackOf(c, p)' - BackOf(c, p)
<1> DEFINE f == [d \in Callers |-> BackOf(d, p)]
           g == [d \in Callers |-> BackOf(d, p)']
<1>1. f \in [Callers -> Int]
  BY PartTypes
<1>2. g \in [Callers -> Int]
  <2>1. PartsTyped'
    BY PartsAlwaysTyped, PTL
  <2> QED BY <2>1 DEF PartsTyped
<1>3. \A d \in Callers \ {c} : f[d] = g[d]
  OBVIOUS
<1>4. f[c] = BackOf(c, p) /\ g[c] = BackOf(c, p)'
  OBVIOUS
<1>5. PutBack(p) = SumFunction(f) /\ PutBack(p)' = SumFunction(g)
  BY DEF PutBack
<1> HIDE DEF f, g
<1> QED BY <1>1, <1>2, <1>3, <1>4, <1>5, ShopAssumption, SumChange

\* A step that changes no part keeps the three sums.
LEMMA PartsSame ==
  ASSUME NEW p \in Products,
         \A id \in Ids : HeldBy(id, p)' = HeldBy(id, p),
         \A c \in Callers : HandOf(c, p)' = HandOf(c, p) /\ BackOf(c, p)' = BackOf(c, p)
  PROVE  Held(p)' = Held(p) /\ InHand(p)' = InHand(p) /\ PutBack(p)' = PutBack(p)
<1>1. [id \in Ids |-> HeldBy(id, p)'] = [id \in Ids |-> HeldBy(id, p)]
  BY Zenon
<1>2. [c \in Callers |-> HandOf(c, p)'] = [c \in Callers |-> HandOf(c, p)]
  BY Zenon
<1>3. [c \in Callers |-> BackOf(c, p)'] = [c \in Callers |-> BackOf(c, p)]
  BY Zenon
<1>4. Held(p)' = Held(p)
  BY <1>1, Zenon DEF Held
<1>5. InHand(p)' = InHand(p)
  BY <1>2, Zenon DEF InHand
<1>6. PutBack(p)' = PutBack(p)
  BY <1>3, Zenon DEF PutBack
<1> QED BY <1>4, <1>5, <1>6

SameParts(p) ==
    /\ \A id \in Ids : HeldBy(id, p)' = HeldBy(id, p)
    /\ \A c \in Callers : HandOf(c, p)' = HandOf(c, p) /\ BackOf(c, p)' = BackOf(c, p)

\* Steps that move no stock, or only stock from outside.
LEMMA StockStays ==
  ASSUME ShopInv, ShopInv', StockConserved, \A p \in Products : SameParts(p),
         (shelf' = shelf /\ ledger' = ledger) \/ Outside
  PROVE  StockConserved'
<1> SUFFICES ASSUME NEW p \in Products
             PROVE  CountOn(shelf', p) + Held(p)' + InHand(p)' - PutBack(p)' = ledger'[p]
  BY DEF StockConserved
<1>1. Held(p)' = Held(p) /\ InHand(p)' = InHand(p) /\ PutBack(p)' = PutBack(p)
  BY PartsSame DEF SameParts
<1>2. CountOn(shelf, p) + Held(p) + InHand(p) - PutBack(p) = ledger[p]
  BY DEF StockConserved
<1>3. /\ CountOn(shelf, p) \in Int /\ Held(p) \in Int /\ InHand(p) \in Int
      /\ PutBack(p) \in Int /\ ledger[p] \in Int
  BY SumTypes
<1>4. CountOn(shelf', p) \in Int
  <2>1. shelf' \in Shelves
    BY Vocabulary DEF ShopInv, TypeOK, Shelves
  <2> QED BY <2>1, CountType
<1>5. CASE shelf' = shelf /\ ledger' = ledger
  BY <1>1, <1>2, <1>5
<1>6. CASE Outside
  <2>1. ledger'[p] = ledger[p] + CountOn(shelf', p) - CountOn(shelf, p)
    BY <1>6 DEF Outside
  <2> QED BY <1>1, <1>2, <1>3, <1>4, <2>1
<1> QED BY <1>5, <1>6

LEMMA StockInit ==
  ASSUME Init
  PROVE  StockConserved
<1> SUFFICES ASSUME NEW p \in Products
             PROVE  CountOn(shelf, p) + Held(p) + InHand(p) - PutBack(p) = ledger[p]
  BY DEF StockConserved
<1>1. ShopInv
  BY ShopInvInit
<1>2. \A id \in Ids : HeldBy(id, p) = 0
  BY DEF Init, HeldBy
<1>3. \A c \in Callers : HandOf(c, p) = 0 /\ BackOf(c, p) = 0
  BY DEF Init, Idle, HandOf, BackOf, Written, Answered
<1>4. Held(p) = 0
  <2>1. [id \in Ids |-> HeldBy(id, p)] \in [Ids -> Int]
    BY <1>2
  <2> QED BY <1>2, <2>1, SumZero, ShopAssumption DEF Held
<1>5. InHand(p) = 0
  <2>1. [c \in Callers |-> HandOf(c, p)] \in [Callers -> Int]
    BY <1>3
  <2> QED BY <1>3, <2>1, SumZero, ShopAssumption DEF InHand
<1>6. PutBack(p) = 0
  <2>1. [c \in Callers |-> BackOf(c, p)] \in [Callers -> Int]
    BY <1>3
  <2> QED BY <1>3, <2>1, SumZero, ShopAssumption DEF PutBack
<1>7. ledger[p] = CountOn(shelf, p)
  BY DEF Init
<1>8. CountOn(shelf, p) \in Int
  BY <1>1, SumTypes
<1> QED BY <1>4, <1>5, <1>6, <1>7, <1>8

\* Calls that begin or submit: nothing is answered before or after.
LEMMA StockBegin ==
  ASSUME ShopInv, ShopInv', StockConserved,
         NEW c \in Callers, request = NoRequest,
         UNCHANGED <<shelf, reply, active, ledger>>,
         \A d \in Callers : calls'[d] = calls[d]
                            \/ (calls[d] = Idle /\ calls'[d].op # "register")
  PROVE  StockConserved'
<1>1. reply = NoReply /\ reply' = NoReply
  BY DEF ShopInv, Quiet
<1>2. \A p \in Products : SameParts(p)
  BY <1>1, IdleCall DEF SameParts, HeldBy, HandOf, BackOf, Written, Answered
<1> QED BY <1>2, StockStays

LEMMA StockCall ==
  ASSUME ShopInv, ShopInv', StockConserved, NEW c \in Callers,
         \/ \E s \in DOMAIN Listing, quantity \in 1..MaxCount : ReserveCapture(c, s, quantity)
         \/ \E id \in Ids, genuine \in BOOLEAN : RestoreCapture(c, id, genuine)
         \/ \E stock \in Restocks : ReplaceCapture(c, stock)
         \/ Apply(c)
  PROVE  StockConserved'
<1>1. request = NoRequest /\ UNCHANGED <<shelf, reply, active, ledger>>
  BY DEF ReserveCapture, RestoreCapture, ReplaceCapture, Apply, shop
<1>2. \A d \in Callers : calls'[d] = calls[d]
                         \/ (calls[d] = Idle /\ calls'[d].op # "register")
  <2>1. calls \in [Callers -> CallState]
    BY DEF ShopInv, TypeOK
  <2> QED BY <2>1 DEF ReserveCapture, RestoreCapture, ReplaceCapture, Apply, Become
<1> QED BY <1>1, <1>2, StockBegin

LEMMA StockEdit ==
  ASSUME ShopInv, ShopInv', StockConserved, ShelfEdit
  PROVE  StockConserved'
<1>1. UNCHANGED <<reply, client, calls, active>> /\ Outside
  BY DEF ShelfEdit, Adapter!AEdit, shop
<1>2. \A p \in Products : SameParts(p)
  BY <1>1 DEF SameParts, HeldBy, HandOf, BackOf, Written, Answered, Ok
<1> QED BY <1>1, <1>2, StockStays

\* An answer that is not Applied moves nothing.
LEMMA StockFailed ==
  ASSUME ShopInv, ShopInv', StockConserved, Refuse \/ Damage
  PROVE  StockConserved'
<1>1. /\ UNCHANGED <<client, calls, active>>
      /\ (shelf' = shelf /\ ledger' = ledger) \/ Outside
  BY RefuseShape DEF Refuse, Damage, shop
<1>2. reply = NoReply /\ reply'.status # "Applied"
  BY RefuseShape, DamageShape DEF Answering
<1>3. \A p \in Products : SameParts(p)
  BY <1>1, <1>2 DEF SameParts, HeldBy, HandOf, BackOf, Written, Answered, Ok
<1> QED BY <1>1, <1>3, StockStays

LEMMA StockCommit ==
  ASSUME ShopInv, ShopInv', StockConserved, Commit
  PROVE  StockConserved'
<1>0. PICK c \in Callers : client = c
  BY CommitEffect
<1>1. /\ calls[c].op \in {"reserve", "restore", "replace"}
      /\ shelf = calls[c].view
      /\ Answering("Applied", {NoRevision, shelf'})
      /\ shelf' \in Shelves
      /\ shelf' = [s \in Slots |-> IF PatchOf(calls[c])[s] = Keep THEN shelf[s]
                                   ELSE PatchOf(calls[c])[s]]
  BY <1>0, CommitEffect
<1>2. reply = NoReply /\ reply'.status = "Applied" /\ reply' # NoReply
  <2>1. "Applied" \in Adapter!ApplyStatus /\ {NoRevision, shelf'} \subseteq Shelves \cup {NoRevision}
    BY <1>1 DEF Adapter!ApplyStatus
  <2> QED BY <1>1, <2>1, AnswerType DEF Answering
<1>3. UNCHANGED <<client, calls, active, restored, completed, lock>>
  BY DEF Commit, shop
<1>4. calls[c] \in CallState /\ shelf \in Shelves
  BY TypedShelf DEF ShopInv, TypeOK
<1>5. \A p \in Products :
         /\ \A id \in Ids : HeldBy(id, p)' = HeldBy(id, p)
         /\ \A d \in Callers \ {c} : HandOf(d, p)' = HandOf(d, p) /\ BackOf(d, p)' = BackOf(d, p)
         /\ BackOf(c, p) = 0
         /\ calls[c].op # "register" => HandOf(c, p) = 0
  BY <1>0, <1>2, <1>3 DEF HeldBy, HandOf, BackOf, Written, Answered
<1>6. CASE calls[c].op = "replace"
  <2>1. Outside
    BY <1>0, <1>6 DEF Commit
  <2>2. \A p \in Products : SameParts(p)
    <3> SUFFICES ASSUME NEW p \in Products PROVE SameParts(p)
      OBVIOUS
    <3>1. HandOf(c, p)' = 0 /\ BackOf(c, p)' = 0
      BY <1>0, <1>3, <1>6 DEF HandOf, BackOf, Written, Answered
    <3> QED BY <1>5, <1>6, <3>1 DEF SameParts
  <2> QED BY <2>1, <2>2, StockStays
<1>7. CASE calls[c].op # "replace"
  <2> SUFFICES ASSUME NEW p \in Products
               PROVE  CountOn(shelf', p) + Held(p)' + InHand(p)' - PutBack(p)' = ledger'[p]
    BY DEF StockConserved
  <2>1. ledger' = ledger
    BY <1>0, <1>7 DEF Commit
  <2>2. Held(p)' = Held(p)
    <3>1. [id \in Ids |-> HeldBy(id, p)'] = [id \in Ids |-> HeldBy(id, p)]
      BY <1>5
    <3> QED BY <3>1, Zenon DEF Held
  <2>3. /\ InHand(p)' = InHand(p) + HandOf(c, p)' - HandOf(c, p)
        /\ PutBack(p)' = PutBack(p) + BackOf(c, p)' - BackOf(c, p)
    <3>1. \A d \in Callers \ {c} : HandOf(d, p)' = HandOf(d, p) /\ BackOf(d, p)' = BackOf(d, p)
      BY <1>5
    <3>2. InHand(p)' = InHand(p) + HandOf(c, p)' - HandOf(c, p)
      BY <3>1, HandChange
    <3>3. PutBack(p)' = PutBack(p) + BackOf(c, p)' - BackOf(c, p)
      BY <3>1, BackChange
    <3> QED BY <3>2, <3>3
  <2>4. HandOf(c, p) = 0 /\ BackOf(c, p) = 0
    BY <1>1, <1>5
  <2>5. /\ CountOn(shelf, p) \in Int /\ Held(p) \in Int /\ InHand(p) \in Int
        /\ PutBack(p) \in Int /\ ledger[p] \in Int
    BY SumTypes
  <2>6. CountOn(shelf, p) + Held(p) + InHand(p) - PutBack(p) = ledger[p]
    BY DEF StockConserved
  <2>7. CASE calls[c].op = "reserve"
    <3> DEFINE slot == calls[c].slot
               item == calls[c].item
    <3>1. slot \in Slots /\ item \in Stack
      BY <1>4, <2>7, CallFields, Zenon
    <3>2. HandOf(c, p)' = Amount(item, p) /\ BackOf(c, p)' = 0
      BY <1>0, <1>2, <1>3, <2>7 DEF HandOf, BackOf, Written, Answered, Ok
    <3>3. Covers(shelf, slot, item)
      BY <1>1, <2>7 DEF ShopInv, CallsSound
    <3>4. shelf' = Leaves(shelf, slot, item)
      <4>1. PatchOf(calls[c]) = ReservePatch(calls[c])
        BY <2>7 DEF PatchOf
      <4> QED BY <1>1, <1>4, <3>1, <3>3, <4>1, ShelfOverlay
    <3>5. CountOn(shelf', p) = CountOn(shelf, p) + Amount(shelf'[slot], p) - Amount(shelf[slot], p)
      <4>1. \A s \in Slots \ {slot} : shelf[s] = shelf'[s]
        BY <3>4 DEF Leaves
      <4> HIDE DEF slot
      <4> QED BY <1>1, <1>4, <3>1, <4>1, CountChange
    <3>6. Amount(shelf'[slot], p) = Amount(shelf[slot], p) - Amount(item, p)
      <4>1. shelf[slot] \in Stack
        BY <1>4, <3>1, <3>3 DEF Covers, Shelves
      <4>2. /\ shelf[slot].count \in 1..MaxCount /\ item.count \in 1..MaxCount
            /\ shelf[slot].product = item.product
            /\ item.count <= shelf[slot].count
            /\ item # Empty /\ shelf[slot] # Empty /\ MaxCount \in Nat
        BY <3>1, <3>3, <4>1, ShopAssumption, MarksAssumption DEF Covers, Stack
      <4>3. CASE shelf[slot].count = item.count
        <5>1. shelf'[slot] = Empty
          BY <3>1, <3>4, <4>3 DEF Leaves
        <5> HIDE DEF slot, item
        <5> QED BY <4>2, <4>3, <5>1 DEF Amount
      <4>4. CASE shelf[slot].count # item.count
        <5>1. shelf'[slot] = WithCount(shelf[slot], shelf[slot].count - item.count)
          BY <3>1, <3>4, <4>4 DEF Leaves
        <5> DEFINE n == shelf[slot].count - item.count
        <5>2. n \in 1..MaxCount
          BY <4>2, <4>4
        <5>3. /\ shelf'[slot].product = shelf[slot].product
              /\ shelf'[slot].count = n
              /\ shelf'[slot] # Empty
          <6> HIDE DEF n, slot
          <6>1. WithCount(shelf[slot], n) \in Stack
                /\ WithCount(shelf[slot], n).product = shelf[slot].product
                /\ WithCount(shelf[slot], n).count = n
            BY <4>1, <5>2, CountTypes
          <6> QED BY <5>1, <6>1, MarksAssumption DEF n
        <5> HIDE DEF slot, item
        <5> QED BY <4>2, <5>3 DEF Amount
      <4> QED BY <4>3, <4>4
    <3>7. Amount(shelf[slot], p) \in Int /\ Amount(item, p) \in Int
      BY <1>4, <3>1, AmountType DEF Shelves
    <3> HIDE DEF slot, item
    <3> QED BY <2>1, <2>2, <2>3, <2>4, <2>5, <2>6, <3>2, <3>5, <3>6, <3>7
  <2>8. CASE calls[c].op = "restore"
    <3> DEFINE record == active[calls[c].id]
               slot == record.slot
               item == record.item
    <3>1. calls[c].id \in Ids /\ Redeems(calls[c])
      BY <1>1, <1>4, <2>8, CallFields, Zenon DEF ShopInv, CallsSound
    <3>2. record \in Record
      BY <3>1 DEF Redeems, ShopInv, TypeOK
    <3>3. slot \in Slots /\ item \in Stack
      BY <3>2, RecordFields
    <3>4. BackOf(c, p)' = Amount(item, p) /\ HandOf(c, p)' = 0
      BY <1>0, <1>2, <1>3, <2>8 DEF HandOf, BackOf, Written, Answered, Ok
    <3>5. shelf[slot] # Empty =>
             /\ shelf[slot].product = item.product
             /\ shelf[slot].count + item.count <= MaxCount
      BY <1>1, <3>1 DEF Redeems
    <3> DEFINE merged == IF shelf[slot] = Empty THEN item
                         ELSE WithCount(shelf[slot], shelf[slot].count + item.count)
    <3>6. PatchOf(calls[c]) = [t \in Slots |-> IF t = slot THEN merged ELSE Keep]
      BY <1>1, <2>8 DEF PatchOf, RestorePatch, PatchItem
    <3>7. merged \in Stack /\ Amount(merged, p) = Amount(shelf[slot], p) + Amount(item, p)
      <4>1. /\ item.count \in 1..MaxCount /\ item # Empty /\ MaxCount \in Nat
        BY <3>3, ShopAssumption, MarksAssumption DEF Stack
      <4>2. CASE shelf[slot] = Empty
        <5>1. Amount(item, p) \in Int
          BY <3>3, AmountType
        <5> HIDE DEF item
        <5> QED BY <3>3, <4>2, <5>1 DEF Amount
      <4>3. CASE shelf[slot] # Empty
        <5> DEFINE n == shelf[slot].count + item.count
        <5>1. shelf[slot] \in Stack
          BY <1>4, <3>3, <4>3 DEF Shelves
        <5>2. shelf[slot].count \in 1..MaxCount
          BY <5>1 DEF Stack
        <5>3. n \in 1..MaxCount
          BY <3>5, <4>1, <4>3, <5>2
        <5>4. /\ merged = WithCount(shelf[slot], n)
              /\ merged \in Stack
              /\ merged.product = shelf[slot].product
              /\ merged.count = n
              /\ merged # Empty
          <6> HIDE DEF n, slot, item
          <6>1. WithCount(shelf[slot], n) \in Stack
                /\ WithCount(shelf[slot], n).product = shelf[slot].product
                /\ WithCount(shelf[slot], n).count = n
            BY <5>1, <5>3, CountTypes
          <6> QED BY <4>3, <6>1, MarksAssumption DEF n
        <5> HIDE DEF merged, slot, item
        <5> QED BY <3>5, <4>1, <4>3, <5>2, <5>4 DEF Amount
      <4> QED BY <4>2, <4>3
    <3> HIDE DEF merged
    <3>8. shelf'[slot] = merged /\ \A s \in Slots \ {slot} : shelf[s] = shelf'[s]
      <4>1. merged # Keep
        BY <3>7, MarksAssumption
      <4> HIDE DEF slot
      <4> QED BY <1>1, <3>3, <3>6, <4>1
    <3>9. CountOn(shelf', p) = CountOn(shelf, p) + Amount(shelf'[slot], p) - Amount(shelf[slot], p)
      <4> HIDE DEF slot
      <4> QED BY <1>1, <1>4, <3>3, <3>8, CountChange
    <3>10. Amount(shelf[slot], p) \in Int /\ Amount(item, p) \in Int
      BY <1>4, <3>3, AmountType DEF Shelves
    <3> HIDE DEF slot, item, record
    <3> QED BY <2>1, <2>2, <2>3, <2>4, <2>5, <2>6, <3>4, <3>7, <3>8, <3>9, <3>10
  <2> QED BY <1>1, <1>7, <2>7, <2>8
<1> QED BY <1>6, <1>7

\* The caller of a reservation takes note of what it holds; a restock is over.
LEMMA StockReserved ==
  ASSUME ShopInv, ShopInv', StockConserved, NEW c \in Callers, Reserved(c) \/ Replaced(c)
  PROVE  StockConserved'
<1>1. /\ client = c /\ client' = NoCaller /\ reply # NoReply /\ reply' = NoReply
      /\ UNCHANGED <<shelf, active, ledger>>
      /\ calls[c].op \in {"reserve", "replace"}
  BY DEF Reserved, Replaced, Answered, Adapter!ACollect, shop
<1>2. calls' = [calls EXCEPT ![c] = calls'[c]] /\ calls \in [Callers -> CallState]
  BY DEF Reserved, Replaced, Become, ShopInv, TypeOK
<1>3. CASE calls[c].op = "reserve" /\ Ok
  <2>1. calls'[c].op = "register" /\ calls'[c].record.item = calls[c].item
    BY <1>2, <1>3 DEF Reserved, Replaced, Answered, Become
  <2>2. \A p \in Products : SameParts(p)
    BY <1>1, <1>2, <1>3, <2>1, ShopAssumption
       DEF SameParts, HeldBy, HandOf, BackOf, Written, Answered
  <2> QED BY <1>1, <2>2, StockStays
<1>4. CASE ~ (calls[c].op = "reserve" /\ Ok)
  <2>1. calls'[c].op = "idle"
    BY <1>2, <1>4, IdleCall DEF Reserved, Replaced, Answered, Become
  <2>2. \A p \in Products : SameParts(p)
    BY <1>1, <1>2, <1>4, <2>1, ShopAssumption
       DEF SameParts, HeldBy, HandOf, BackOf, Written, Answered
  <2> QED BY <1>1, <2>2, StockStays
<1> QED BY <1>3, <1>4

LEMMA StockRegister ==
  ASSUME ShopInv, ShopInv', StockConserved, NEW c \in Callers, Register(c)
  PROVE  StockConserved'
<1> SUFFICES ASSUME NEW p \in Products
             PROVE  CountOn(shelf', p) + Held(p)' + InHand(p)' - PutBack(p)' = ledger'[p]
  BY DEF StockConserved
<1>1. /\ calls[c].op = "register" /\ lock = NoCaller /\ calls' = [calls EXCEPT ![c] = Idle]
      /\ UNCHANGED <<shelf, request, reply, client, ledger>>
  BY DEF Register, Become
<1>2. PICK id \in Ids : NewId(id) /\ active' = [active EXCEPT ![id] = calls[c].record]
  BY DEF Register
<1>3. calls[c].record \in Record
  BY <1>1, CallFields DEF ShopInv, TypeOK
<1> DEFINE amount == Amount(calls[c].record.item, p)
<1>4. \A i \in Ids \ {id} : HeldBy(i, p)' = HeldBy(i, p)
  BY <1>2 DEF HeldBy, ShopInv, TypeOK
<1>5. HeldBy(id, p) = 0 /\ HeldBy(id, p)' = amount
  <2>1. active[id] = NoRecord
    BY <1>2 DEF NewId
  <2>2. active'[id] = calls[c].record /\ calls[c].record # NoRecord
    BY <1>2, <1>3, MarksAssumption DEF ShopInv, TypeOK
  <2> QED BY <2>1, <2>2 DEF HeldBy
<1>6. calls'[c] = Idle /\ \A d \in Callers \ {c} : calls'[d] = calls[d]
  BY <1>1 DEF ShopInv, TypeOK
<1>7. \A d \in Callers \ {c} : HandOf(d, p)' = HandOf(d, p)
  BY <1>1, <1>6 DEF HandOf, Written, Answered, Ok
<1>8. HandOf(c, p) = amount /\ HandOf(c, p)' = 0
  BY <1>1, <1>6, IdleCall DEF HandOf, Written, Answered
<1>9. \A d \in Callers : BackOf(d, p) = 0 /\ BackOf(d, p)' = 0
  <2>1. \A d \in Callers : calls[d].op # "restore"
    BY <1>1, ShopAssumption DEF ShopInv, TypeOK
  <2>2. \A d \in Callers : calls'[d].op # "restore"
    BY <1>6, <2>1, IdleCall
  <2> QED BY <2>1, <2>2 DEF BackOf, Written, Answered
<1>10. Held(p)' = Held(p) + amount
  <2>1. Held(p)' = Held(p) + HeldBy(id, p)' - HeldBy(id, p)
    BY <1>4, HeldChange
  <2>2. Held(p) \in Int /\ amount \in Int
    BY <1>3, SumTypes, RecordFields, AmountType
  <2> HIDE DEF amount
  <2> QED BY <1>5, <2>1, <2>2
<1>11. InHand(p)' = InHand(p) - amount
  <2>1. InHand(p)' = InHand(p) + HandOf(c, p)' - HandOf(c, p)
    BY <1>7, HandChange
  <2>2. InHand(p) \in Int /\ amount \in Int
    BY <1>3, SumTypes, RecordFields, AmountType
  <2> HIDE DEF amount
  <2> QED BY <1>8, <2>1, <2>2
<1>12. PutBack(p)' = PutBack(p)
  <2>1. [d \in Callers |-> BackOf(d, p)'] = [d \in Callers |-> BackOf(d, p)]
    BY <1>9
  <2> QED BY <2>1, Zenon DEF PutBack
<1>13. CountOn(shelf, p) + Held(p) + InHand(p) - PutBack(p) = ledger[p]
  BY DEF StockConserved
<1>14. /\ CountOn(shelf, p) \in Int /\ Held(p) \in Int /\ InHand(p) \in Int
       /\ PutBack(p) \in Int /\ ledger[p] \in Int /\ amount \in Int
  BY <1>3, SumTypes, RecordFields, AmountType
<1> HIDE DEF amount
<1> QED BY <1>1, <1>10, <1>11, <1>12, <1>13, <1>14

LEMMA StockRestored ==
  ASSUME ShopInv, ShopInv', StockConserved, NEW c \in Callers, Restored(c)
  PROVE  StockConserved'
<1>1. /\ client = c /\ client' = NoCaller /\ reply # NoReply /\ reply' = NoReply
      /\ calls[c].op = "restore" /\ calls' = [calls EXCEPT ![c] = Idle]
      /\ UNCHANGED <<shelf, ledger>>
  BY DEF Restored, Answered, Become, Adapter!ACollect
<1>2. calls'[c] = Idle /\ \A d \in Callers \ {c} : calls'[d] = calls[d]
  BY <1>1 DEF ShopInv, TypeOK
<1>3. \A p \in Products, d \in Callers : HandOf(d, p)' = HandOf(d, p)
  <2>1. \A d \in Callers : ~ Written(d, "reserve") /\ ~ Written(d, "reserve")'
    BY <1>1, ShopAssumption DEF Written, Answered
  <2>2. \A d \in Callers : d # c => calls'[d] = calls[d]
    BY <1>2
  <2>3. calls'[c].op # "register" /\ calls[c].op # "register"
    BY <1>1, <1>2, IdleCall
  <2> QED BY <2>1, <2>2, <2>3 DEF HandOf
<1>4. \A p \in Products, d \in Callers : BackOf(d, p)' = 0
  BY <1>1 DEF BackOf, Written, Answered
<1>5. \A p \in Products, d \in Callers \ {c} : BackOf(d, p) = 0
  BY <1>1 DEF BackOf, Written, Answered
<1>6. CASE ~ Ok
  <2>1. active' = active
    BY <1>6 DEF Restored
  <2>2. \A p \in Products : BackOf(c, p) = 0
    BY <1>6 DEF BackOf, Written
  <2>3. \A p \in Products : SameParts(p)
    BY <1>3, <1>4, <1>5, <2>1, <2>2 DEF SameParts, HeldBy
  <2> QED BY <1>1, <2>3, StockStays
<1>7. CASE Ok
  <2> SUFFICES ASSUME NEW p \in Products
               PROVE  CountOn(shelf', p) + Held(p)' + InHand(p)' - PutBack(p)' = ledger'[p]
    BY DEF StockConserved
  <2> DEFINE id == calls[c].id
             amount == Amount(active[id].item, p)
  <2>1. calls[c] \in CallState
    BY DEF ShopInv, TypeOK
  <2>2. id \in Ids /\ active[id] # NoRecord
    BY <1>1, <2>1, CallFields, Zenon DEF ShopInv, CallsSound, Redeems
  <2>3. active' = [active EXCEPT ![id] = NoRecord]
    BY <1>7 DEF Restored
  <2>4. active[id] \in Record
    BY <2>2 DEF ShopInv, TypeOK
  <2>5. Held(p)' = Held(p) - amount
    <3> DEFINE r == active[id]
    <3>1. \E i \in Ids : i = id
      BY <2>2
    <3>2. PICK i \in Ids : i = id
      BY <3>1
    <3>3. active'[i] = NoRecord /\ \A j \in Ids \ {i} : active'[j] = active[j]
      BY <2>3, <3>2 DEF ShopInv, TypeOK
    <3>4. HeldBy(i, p)' = 0 /\ HeldBy(i, p) = amount
      BY <2>2, <3>2, <3>3 DEF HeldBy
    <3>5. \A j \in Ids \ {i} : HeldBy(j, p)' = HeldBy(j, p)
      BY <3>3 DEF HeldBy
    <3>6. Held(p)' = Held(p) + HeldBy(i, p)' - HeldBy(i, p)
      BY <3>5, HeldChange
    <3>7. Held(p) \in Int /\ amount \in Int
      BY <2>4, SumTypes, RecordFields, AmountType
    <3> HIDE DEF amount
    <3> QED BY <3>4, <3>6, <3>7
  <2>6. PutBack(p)' = PutBack(p) - amount
    <3>1. BackOf(c, p) = amount /\ BackOf(c, p)' = 0
      BY <1>1, <1>4, <1>7 DEF BackOf, Written, Answered
    <3>2. PutBack(p)' = PutBack(p) + BackOf(c, p)' - BackOf(c, p)
      BY <1>4, <1>5, BackChange
    <3>3. PutBack(p) \in Int /\ amount \in Int
      BY <2>4, SumTypes, RecordFields, AmountType
    <3> HIDE DEF amount
    <3> QED BY <3>1, <3>2, <3>3
  <2>7. InHand(p)' = InHand(p)
    <3>1. [d \in Callers |-> HandOf(d, p)'] = [d \in Callers |-> HandOf(d, p)]
      BY <1>3
    <3> QED BY <3>1, Zenon DEF InHand
  <2>8. CountOn(shelf, p) + Held(p) + InHand(p) - PutBack(p) = ledger[p]
    BY DEF StockConserved
  <2>9. /\ CountOn(shelf, p) \in Int /\ Held(p) \in Int /\ InHand(p) \in Int
        /\ PutBack(p) \in Int /\ ledger[p] \in Int /\ amount \in Int
    BY <2>4, SumTypes, RecordFields, AmountType
  <2> HIDE DEF amount
  <2> QED BY <1>1, <2>5, <2>6, <2>7, <2>8, <2>9
<1> QED BY <1>6, <1>7

LEMMA StockComplete ==
  ASSUME ShopInv, ShopInv', StockConserved, NEW c \in Callers, NEW id \in Ids, NEW genuine,
         Complete(c, id, genuine)
  PROVE  StockConserved'
<1> SUFFICES ASSUME NEW p \in Products
             PROVE  CountOn(shelf', p) + Held(p)' + InHand(p)' - PutBack(p)' = ledger'[p]
  BY DEF StockConserved
<1> DEFINE item == active[id].item
           amount == Amount(item, p)
<1>1. /\ lock = NoCaller /\ active[id] # NoRecord
      /\ active' = [active EXCEPT ![id] = NoRecord]
      /\ ledger' = [ledger EXCEPT ![item.product] = @ - item.count]
      /\ UNCHANGED <<shelf, request, reply, client, calls>>
  BY DEF Complete, Presentable
<1>2. active[id] \in Record
  BY <1>1 DEF ShopInv, TypeOK
<1>3. item \in Stack /\ item # Empty /\ item.product \in Products /\ item.count \in Int
  BY <1>2, RecordFields, ShopAssumption, MarksAssumption DEF Stack
<1>4. ledger'[p] = ledger[p] - amount
  <2>1. ledger \in [Products -> Int]
    BY DEF ShopInv, TypeOK
  <2> HIDE DEF item
  <2> QED BY <1>1, <1>3, <2>1 DEF Amount
<1>5. Held(p)' = Held(p) - amount
  <2>1. active'[id] = NoRecord /\ \A j \in Ids \ {id} : active'[j] = active[j]
    BY <1>1 DEF ShopInv, TypeOK
  <2>2. HeldBy(id, p)' = 0 /\ HeldBy(id, p) = amount
    BY <1>1, <2>1 DEF HeldBy
  <2>3. \A j \in Ids \ {id} : HeldBy(j, p)' = HeldBy(j, p)
    BY <2>1 DEF HeldBy
  <2>4. Held(p)' = Held(p) + HeldBy(id, p)' - HeldBy(id, p)
    BY <2>3, HeldChange
  <2>5. Held(p) \in Int /\ amount \in Int
    BY <1>3, SumTypes, AmountType
  <2> HIDE DEF amount
  <2> QED BY <2>2, <2>4, <2>5
<1>6. InHand(p)' = InHand(p)
  <2>1. \A d \in Callers : HandOf(d, p)' = HandOf(d, p)
    BY <1>1 DEF HandOf, Written, Answered, Ok
  <2>2. [d \in Callers |-> HandOf(d, p)'] = [d \in Callers |-> HandOf(d, p)]
    BY <2>1
  <2> QED BY <2>2, Zenon DEF InHand
<1>7. PutBack(p)' = PutBack(p)
  <2>1. \A d \in Callers : calls[d].op # "restore"
    BY <1>1, ShopAssumption DEF ShopInv, TypeOK
  <2>2. \A d \in Callers : BackOf(d, p)' = 0 /\ BackOf(d, p) = 0
    BY <1>1, <2>1 DEF BackOf, Written, Answered
  <2>3. [d \in Callers |-> BackOf(d, p)'] = [d \in Callers |-> BackOf(d, p)]
    BY <2>2
  <2> QED BY <2>3, Zenon DEF PutBack
<1>8. CountOn(shelf, p) + Held(p) + InHand(p) - PutBack(p) = ledger[p]
  BY DEF StockConserved
<1>9. /\ CountOn(shelf, p) \in Int /\ Held(p) \in Int /\ InHand(p) \in Int
      /\ PutBack(p) \in Int /\ ledger[p] \in Int /\ amount \in Int
  BY <1>3, SumTypes, AmountType
<1> HIDE DEF amount
<1> QED BY <1>1, <1>4, <1>5, <1>6, <1>7, <1>8, <1>9

LEMMA StockStep ==
  ASSUME ShopInv, ShopInv', StockConserved, [Next]_vars
  PROVE  StockConserved'
<1>1. CASE ShelfEdit
  BY <1>1, StockEdit
<1>2. CASE Answer
  BY <1>2, StockFailed, StockCommit DEF Answer
<1>3. ASSUME NEW c \in Callers, Call(c)
      PROVE  StockConserved'
  BY <1>3, StockCall, StockComplete DEF Call
<1>4. ASSUME NEW c \in Callers, Proceed(c)
      PROVE  StockConserved'
  BY <1>4, StockCall, StockReserved, StockRegister, StockRestored DEF Proceed
<1>5. CASE UNCHANGED vars
  <2>1. \A p \in Products : SameParts(p)
    BY <1>5 DEF vars, SameParts, HeldBy, HandOf, BackOf, Written, Answered, Ok
  <2> QED BY <1>5, <2>1, StockStays DEF vars
<1> QED BY <1>1, <1>2, <1>3, <1>4, <1>5 DEF Next

(***************************************************************************)
(* Whatever callers interleave and whichever writes fail, stock is neither *)
(* lost nor duplicated, for any number of callers, reservations and slots. *)
(***************************************************************************)
THEOREM StockIsConserved == Spec => []StockConserved
<1>1. Init => StockConserved
  BY StockInit
<1>2. ShopInv /\ ShopInv' /\ StockConserved /\ [Next]_vars => StockConserved'
  BY StockStep
<1> QED BY <1>1, <1>2, ShopInvariant, PTL DEF Spec

-----------------------------------------------------------------------------
(* Restores and tokens. *)

RestoreStep ==
    \A c \in Callers : Answered(c, "restore")' /\ ~Answered(c, "restore") /\ Ok' =>
        shelf' = active[calls[c].id].before

\* Putting an item back where it was taken from.
LEMMA PutBackWhole ==
  ASSUME ShopInv, Commit, NEW c \in Callers, client = c, calls[c].op = "restore"
  PROVE  shelf' = active[calls[c].id].before
<1> DEFINE record == active[calls[c].id]
           slot == record.slot
           item == record.item
           old  == record.before
<1>1. /\ shelf = calls[c].view
      /\ shelf' = [s \in Slots |-> IF PatchOf(calls[c])[s] = Keep THEN shelf[s]
                                   ELSE PatchOf(calls[c])[s]]
  BY CommitEffect
<1>2. calls[c] \in CallState /\ shelf \in Shelves
  BY TypedShelf DEF ShopInv, TypeOK
<1>3. calls[c].id \in Ids /\ Redeems(calls[c])
  BY <1>2, CallFields, Zenon DEF ShopInv, CallsSound
<1>4. record \in Record /\ Sound(record)
  BY <1>3 DEF Redeems, ShopInv, TypeOK, TokensSound
<1>5. slot \in Slots /\ item \in Stack /\ old \in Shelves
  BY <1>4, RecordFields
<1>6. shelf = Leaves(old, slot, item) /\ Covers(old, slot, item)
  BY <1>1, <1>2, <1>3, <1>4, MarksAssumption DEF Sound, Redeems, Shelves
<1> DEFINE merged == IF shelf[slot] = Empty THEN item
                     ELSE WithCount(shelf[slot], shelf[slot].count + item.count)
<1>7. PatchOf(calls[c]) = [t \in Slots |-> IF t = slot THEN merged ELSE Keep]
  BY <1>1 DEF PatchOf, RestorePatch, PatchItem
<1>8. merged = old[slot]
  <2>1. old[slot] \in Stack /\ old[slot] # Empty
    BY <1>5, <1>6 DEF Covers, Shelves
  <2>2. /\ old[slot].product = item.product /\ item.count <= old[slot].count
        /\ old[slot].count \in 1..MaxCount /\ item.count \in 1..MaxCount /\ MaxCount \in Nat
    BY <1>5, <1>6, <2>1, ShopAssumption DEF Covers, Stack
  <2>3. CASE old[slot].count = item.count
    <3>1. shelf[slot] = Empty
      BY <1>5, <1>6, <2>3 DEF Leaves
    <3> HIDE DEF slot, item, old
    <3> QED BY <1>5, <2>1, <2>2, <2>3, <3>1 DEF Stack
  <2>4. CASE old[slot].count # item.count
    <3> DEFINE n == old[slot].count - item.count
    <3>1. shelf[slot] = WithCount(old[slot], n)
      BY <1>5, <1>6, <2>4 DEF Leaves
    <3>2. n \in 1..MaxCount
      BY <2>2, <2>4
    <3>3. WithCount(old[slot], n) \in Stack /\ WithCount(old[slot], n).count = n
      <4> HIDE DEF n, slot, old
      <4> QED BY <2>1, <3>2, CountTypes
    <3>4. shelf[slot] # Empty /\ shelf[slot].count = n
      BY <3>1, <3>3, MarksAssumption
    <3>5. n + item.count = old[slot].count
      BY <2>2
    <3>6. WithCount(shelf[slot], old[slot].count) = old[slot]
      <4> HIDE DEF n, slot, old
      <4> QED BY <2>1, <3>1 DEF WithCount, Stack
    <3> HIDE DEF slot, item, old, n
    <3> QED BY <3>4, <3>5, <3>6
  <2> QED BY <2>3, <2>4
<1> HIDE DEF merged
<1>9. merged # Keep
  BY <1>5, <1>8, MarksAssumption DEF Shelves
<1>10. shelf' = [s \in Slots |-> IF s = slot THEN merged ELSE shelf[s]]
  <2> HIDE DEF slot
  <2> QED BY <1>1, <1>7, <1>9
<1>11. shelf' = old
  <2> HIDE DEF slot, item, old
  <2> QED BY <1>5, <1>6, <1>8, <1>10 DEF Leaves, Shelves
<1> QED BY <1>11

LEMMA RestoreStepHolds ==
  ASSUME ShopInv, [Next]_vars
  PROVE  RestoreStep
<1> SUFFICES ASSUME NEW c \in Callers,
                    Answered(c, "restore")', ~Answered(c, "restore"), Ok'
             PROVE  shelf' = active[calls[c].id].before
  BY DEF RestoreStep
<1>1. client' = c /\ reply' # NoReply /\ calls'[c].op = "restore" /\ reply'.status = "Applied"
  BY DEF Answered, Ok
<1>2. ~ (reply' = reply /\ client' = client /\ calls'[c] = calls[c])
  BY <1>1 DEF Answered
<1>3. calls \in [Callers -> CallState] /\ (request = NoRequest => reply = NoReply)
  BY DEF ShopInv, TypeOK, Quiet
<1>4. ~ ShelfEdit
  BY <1>1, <1>3 DEF ShelfEdit, Adapter!AEdit
<1>5. ~ Refuse /\ ~ Damage
  BY <1>1, RefuseShape, DamageShape DEF Answering
<1>6. ASSUME NEW d \in Callers, Call(d)
      PROVE  FALSE
  <2>1. ASSUME NEW id \in Ids, NEW genuine \in BOOLEAN, Complete(d, id, genuine)
        PROVE  FALSE
    BY <1>2, <2>1 DEF Complete
  <2> QED BY <1>1, <1>3, <1>6, <2>1
          DEF Call, ReserveCapture, RestoreCapture, ReplaceCapture
<1>7. ASSUME NEW d \in Callers, Proceed(d)
      PROVE  FALSE
  <2>1. ~ Apply(d)
    BY <1>1, <1>3 DEF Apply
  <2>2. ~ Reserved(d) /\ ~ Restored(d) /\ ~ Replaced(d)
    BY <1>1 DEF Reserved, Restored, Replaced, Adapter!ACollect
  <2>3. ~ Register(d)
    <3> SUFFICES ASSUME Register(d) PROVE FALSE
      OBVIOUS
    <3>1. calls'[d] = Idle /\ \A e \in Callers \ {d} : calls'[e] = calls[e]
      BY <1>3 DEF Register, Become
    <3> QED BY <1>1, <1>2, <3>1, IdleCall DEF Register
  <2> QED BY <1>7, <2>1, <2>2, <2>3 DEF Proceed
<1>8. ~ UNCHANGED vars
  BY <1>2 DEF vars
<1>9. Commit
  BY <1>4, <1>5, <1>6, <1>7, <1>8 DEF Next, Answer
<1>10. client = c /\ calls[c].op = "restore"
  BY <1>1, <1>9 DEF Commit
<1> QED BY <1>9, <1>10, PutBackWhole

(***************************************************************************)
(* A restore that is written leaves the shelf as it was when the stock was *)
(* reserved, to the last stack.                                            *)
(***************************************************************************)
THEOREM RestoresAreExact == Spec => RestoresWhatWasReserved
<1>1. ShopInv /\ [Next]_vars => RestoreStep
  BY RestoreStepHolds
<1>2. ShopInv /\ [Next]_vars =>
        [\A c \in Callers : Answered(c, "restore")' /\ ~Answered(c, "restore") /\ Ok' =>
            shelf' = active[calls[c].id].before]_vars
  BY <1>1 DEF RestoreStep
<1> QED BY <1>2, ShopInvariant, PTL DEF Spec, RestoresWhatWasReserved

(***************************************************************************)
(* A token is redeemed once: an ID that was restored or completed stays    *)
(* so, is never both, and never comes back as an active reservation.       *)
(***************************************************************************)
THEOREM TokensRedeemedOnce == Spec => TokensConsumedOnce
<1>1. ShopInv /\ ShopInv' /\ [Next]_vars =>
        [/\ restored' \cap completed' = {}
         /\ \A id \in Settled : id \in Settled' /\ active'[id] = NoRecord]_vars
  <2> SUFFICES ASSUME ShopInv, ShopInv', [Next]_vars
               PROVE  /\ restored' \cap completed' = {}
                      /\ \A id \in Settled : id \in Settled' /\ active'[id] = NoRecord
    OBVIOUS
  <2>1. restored \subseteq restored' /\ completed \subseteq completed'
    BY DEF Next, Answer, Call, Proceed, ShelfEdit, Refuse, Commit, Damage, ReserveCapture,
           RestoreCapture, ReplaceCapture, Complete, Apply, Reserved, Register, Restored,
           Replaced, shop, vars
  <2>2. Settled \subseteq Settled' /\ Settled' \subseteq Ids
    BY <2>1 DEF Settled, ShopInv, TypeOK
  <2> QED BY <2>2 DEF ShopInv, TokensSound
<1> QED BY <1>1, ShopInvariant, PTL DEF Spec, TokensConsumedOnce

-----------------------------------------------------------------------------
(* The shop sells as AtomicShop does. *)

\* No restore was written that the shop has not taken note of.
NothingBack == \A c \in Callers : ~ Written(c, "restore")

LEMMA StockThere == ShopInv /\ NothingBack => ForSale \in [Products -> Nat]
<1> SUFFICES ASSUME ShopInv, NothingBack, NEW p \in Products
             PROVE  CountOn(shelf, p) + InHand(p) - PutBack(p) \in Nat
  BY DEF ForSale
<1>1. CountOn(shelf, p) \in Nat
  <2>1. [s \in Slots |-> Amount(shelf[s], p)] \in [Slots -> Nat]
    BY TypedShelf, ShopAssumption DEF Amount, Shelves, Stack
  <2> QED BY <2>1, SlotsFinite, SumNat DEF CountOn
<1>2. InHand(p) \in Nat
  <2>1. ASSUME NEW c \in Callers
        PROVE  HandOf(c, p) \in Nat
    <3>1. calls[c] \in CallState
      BY DEF ShopInv, TypeOK
    <3>2. calls[c].op = "register" => calls[c].record.item \in Stack
      BY <3>1, CallFields, RecordFields
    <3>3. Written(c, "reserve") => calls[c].item \in Stack
      BY <3>1, CallFields, Zenon DEF Written, Answered
    <3>4. \A item \in Stack : Amount(item, p) \in Nat
      BY ShopAssumption DEF Amount, Stack
    <3> QED BY <3>2, <3>3, <3>4 DEF HandOf
  <2>2. [c \in Callers |-> HandOf(c, p)] \in [Callers -> Nat]
    BY <2>1
  <2> QED BY <2>2, ShopAssumption, SumNat DEF InHand
<1>3. PutBack(p) = 0
  <2>1. \A c \in Callers : BackOf(c, p) = 0
    BY DEF NothingBack, BackOf
  <2>2. [c \in Callers |-> BackOf(c, p)] \in [Callers -> Int]
    BY <2>1
  <2> QED BY <2>1, <2>2, SumZero, ShopAssumption DEF PutBack
<1> QED BY <1>1, <1>2, <1>3

\* What is for sale is what must exist and nobody holds.
SaleByLedger ==
    \A p \in Products : /\ ForSale[p] = ledger[p] - Held(p)
                        /\ ForSale[p] \in Int /\ ledger[p] \in Int /\ Held(p) \in Int

LEMMA SaleKnown == ShopInv /\ StockConserved => SaleByLedger
<1> SUFFICES ASSUME ShopInv, StockConserved, NEW p \in Products
             PROVE  /\ ForSale[p] = ledger[p] - Held(p)
                    /\ ForSale[p] \in Int /\ ledger[p] \in Int /\ Held(p) \in Int
  BY DEF SaleByLedger
<1>1. ForSale[p] = CountOn(shelf, p) + InHand(p) - PutBack(p)
  BY DEF ForSale
<1>2. CountOn(shelf, p) + Held(p) + InHand(p) - PutBack(p) = ledger[p]
  BY DEF StockConserved
<1> QED BY <1>1, <1>2, SumTypes

ShopSound == ShopInv /\ StockConserved

LEMMA BothKnown ==
  ASSUME ShopSound, ShopSound'
  PROVE  /\ SaleByLedger /\ SaleByLedger'
         /\ DOMAIN ForSale = Products /\ DOMAIN ForSale' = Products
         /\ ForSale' = [p \in Products |-> ForSale'[p]]
         /\ ForSale = [p \in Products |-> ForSale[p]]
<1>1. SaleByLedger
  BY SaleKnown DEF ShopSound
<1>2. (ShopInv /\ StockConserved)' => SaleByLedger'
  BY SaleKnown, PTL
<1>3. SaleByLedger'
  BY <1>2 DEF ShopSound
<1> QED BY <1>1, <1>3 DEF ForSale

LEMMA HeldSame ==
  ASSUME active' = active
  PROVE  \A p : Held(p)' = Held(p)
<1> TAKE p
<1>1. \A id \in Ids : HeldBy(id, p)' = HeldBy(id, p)
  BY DEF HeldBy
<1>2. [id \in Ids |-> HeldBy(id, p)'] = [id \in Ids |-> HeldBy(id, p)]
  BY <1>1, Zenon
<1> QED BY <1>2, Zenon DEF Held

\* Steps in which nobody takes note of anything sell nothing.
LEMMA SaleSame ==
  ASSUME ShopSound, ShopSound', UNCHANGED <<active, restored, completed, ledger>>
  PROVE  UNCHANGED <<ForSale, Tokens, ledger>>
<1>1. Tokens' = Tokens
  BY DEF Tokens
<1>2. \A p \in Products : ForSale'[p] = ForSale[p]
  BY BothKnown, HeldSame DEF SaleByLedger
<1>3. ForSale' = ForSale
  BY <1>2, BothKnown
<1> QED BY <1>1, <1>3

LEMMA SaleOutside ==
  ASSUME ShopSound, ShopSound', NothingBack', UNCHANGED <<active, restored, completed>>
  PROVE  Sales!Outside
<1>1. Tokens' = Tokens
  BY DEF Tokens
<1>2. ForSale' \in [Products -> Nat]
  <2>1. (ShopInv /\ NothingBack)' => (ForSale \in [Products -> Nat])'
    BY StockThere, PTL
  <2> QED BY <2>1 DEF ShopSound
<1>3. ledger' = [p \in Products |-> ledger[p] + ForSale'[p] - ForSale[p]]
  <2>1. ledger' \in [Products -> Int]
    BY DEF ShopSound, ShopInv, TypeOK
  <2>2. \A p \in Products : ledger'[p] = ledger[p] + ForSale'[p] - ForSale[p]
    BY BothKnown, HeldSame DEF SaleByLedger
  <2> QED BY <2>1, <2>2
<1> QED BY <1>1, <1>2, <1>3 DEF Sales!Outside

\* A token that is active, or not, by its ID.
LEMMA TokenOf ==
  ASSUME NEW id \in Ids
  PROVE  /\ active[id] # NoRecord => Tokens[id] = [state |-> "held", item |-> active[id].item]
         /\ active[id] = NoRecord /\ id \in restored => Tokens[id] = [state |-> "restored"]
         /\ active[id] = NoRecord /\ id \in completed /\ id \notin restored =>
               Tokens[id] = [state |-> "completed"]
         /\ active[id] = NoRecord /\ id \notin Settled => Tokens[id] = [state |-> "new"]
BY DEF Tokens, Settled

\* Only the token redeemed or made changes.
LEMMA OneToken ==
  ASSUME NEW id \in Ids,
         \A i \in Ids \ {id} : /\ active'[i] = active[i]
                               /\ i \in restored' <=> i \in restored
                               /\ i \in completed' <=> i \in completed
  PROVE  Tokens' = [Tokens EXCEPT ![id] = Tokens'[id]]
<1>1. DOMAIN Tokens = Ids /\ DOMAIN Tokens' = Ids
  BY DEF Tokens
<1>2. \A i \in Ids \ {id} : Tokens'[i] = Tokens[i]
  BY DEF Tokens
<1>3. Tokens = [i \in Ids |-> Tokens[i]] /\ Tokens' = [i \in Ids |-> Tokens'[i]]
  BY DEF Tokens
<1> HIDE DEF Tokens
<1> QED BY <1>1, <1>2, <1>3

\* What an item is worth, product by product.
LEMMA Worth ==
  ASSUME NEW item \in Stack, NEW p \in Products
  PROVE  /\ Amount(item, p) = IF p = item.product THEN item.count ELSE 0
         /\ item.product \in Products /\ item.count \in Nat
BY MarksAssumption, ShopAssumption DEF Amount, Stack

LEMMA SaleRegister ==
  ASSUME ShopSound, ShopSound', NEW c \in Callers, Register(c)
  PROVE  Sales!Next
<1>1. /\ calls[c].op = "register" /\ lock = NoCaller /\ calls' = [calls EXCEPT ![c] = Idle]
      /\ UNCHANGED <<shelf, request, reply, client, restored, completed, ledger>>
  BY DEF Register, Become
<1>2. PICK id \in Ids : NewId(id) /\ active' = [active EXCEPT ![id] = calls[c].record]
  BY DEF Register
<1> DEFINE item == calls[c].record.item
<1>3. calls[c].record \in Record /\ item \in Stack /\ calls[c].record # NoRecord
  BY <1>1, CallFields, RecordFields, MarksAssumption DEF ShopSound, ShopInv, TypeOK
<1>4. active'[id] = calls[c].record /\ \A i \in Ids \ {id} : active'[i] = active[i]
  BY <1>2 DEF ShopSound, ShopInv, TypeOK
<1>5. \A p \in Products : Held(p)' = Held(p) + Amount(item, p)
  <2> TAKE p \in Products
  <2>1. \A i \in Ids \ {id} : HeldBy(i, p)' = HeldBy(i, p)
    BY <1>4 DEF HeldBy
  <2>2. HeldBy(id, p) = 0 /\ HeldBy(id, p)' = Amount(item, p)
    BY <1>2, <1>3, <1>4 DEF HeldBy, NewId
  <2>3. Held(p)' = Held(p) + HeldBy(id, p)' - HeldBy(id, p)
    BY <2>1, HeldChange DEF ShopSound
  <2>4. Held(p) \in Int /\ Amount(item, p) \in Int
    BY <1>3, SumTypes, AmountType DEF ShopSound
  <2> HIDE DEF item
  <2> QED BY <2>2, <2>3, <2>4
<1>6. ForSale' \in [Products -> Nat]
  <2>1. \A d \in Callers : calls[d].op # "restore"
    BY <1>1, ShopAssumption DEF ShopSound, ShopInv, TypeOK
  <2>2. calls'[c] = Idle /\ \A d \in Callers \ {c} : calls'[d] = calls[d]
    BY <1>1 DEF ShopSound, ShopInv, TypeOK
  <2>3. NothingBack'
    BY <2>1, <2>2, IdleCall DEF NothingBack, Written, Answered
  <2>4. (ShopInv /\ NothingBack)' => (ForSale \in [Products -> Nat])'
    BY StockThere, PTL
  <2> QED BY <2>3, <2>4 DEF ShopSound
<1>7. \A p \in Products : ForSale'[p] = ForSale[p] - Amount(item, p)
  <2> TAKE p \in Products
  <2>1. Amount(item, p) \in Int
    BY <1>3, AmountType
  <2> HIDE DEF item
  <2> QED BY <1>1, <1>5, <2>1, BothKnown DEF SaleByLedger
<1>8. item.product \in Products /\ item.count <= ForSale[item.product]
  <2>0. item \in Stack /\ item.product \in Products /\ item.count \in Nat
    BY <1>3, ShopAssumption DEF Stack
  <2>1. /\ item.product \in Products /\ item.count \in Nat
        /\ Amount(item, item.product) = item.count
    <3> HIDE DEF item
    <3> QED BY <2>0, Worth
  <2>2. ForSale'[item.product] \in Nat /\ ForSale[item.product] \in Int
    BY <1>6, <2>1, BothKnown DEF SaleByLedger
  <2> HIDE DEF item
  <2> QED BY <1>7, <2>1, <2>2
<1>9. ForSale' = [ForSale EXCEPT ![item.product] = @ - item.count]
  <2>1. \A p \in Products : ForSale'[p] = IF p = item.product THEN ForSale[p] - item.count
                                          ELSE ForSale[p]
    <3> TAKE p \in Products
    <3>1. Amount(item, p) = IF p = item.product THEN item.count ELSE 0
      BY <1>3, Worth
    <3>2. ForSale[p] \in Int
      BY BothKnown DEF SaleByLedger
    <3> HIDE DEF item
    <3> QED BY <1>7, <3>1, <3>2
  <2> HIDE DEF item
  <2> QED BY <1>8, <2>1, BothKnown
<1>10. Tokens[id] = [state |-> "new"]
  BY <1>2, TokenOf DEF NewId, Settled
<1>11. Tokens'[id] = [state |-> "held", item |-> item]
  BY <1>3, <1>4 DEF Tokens
<1>12. Tokens' = [Tokens EXCEPT ![id] = Tokens'[id]]
  BY <1>1, <1>4, OneToken
<1>13. Sales!Reserve(id, item)
  <2> HIDE DEF item
  <2> QED BY <1>1, <1>8, <1>9, <1>10, <1>11, <1>12
          DEF Sales!Reserve, Sales!Unheld, Sales!Holding
<1> QED BY <1>3, <1>13 DEF Sales!Next

\* Redeeming a token takes what it held off what is held.
LEMMA HeldRedeemed ==
  ASSUME ShopSound, ShopSound', NEW id \in Ids, active[id] # NoRecord,
         active' = [active EXCEPT ![id] = NoRecord]
  PROVE  /\ active'[id] = NoRecord /\ \A i \in Ids \ {id} : active'[i] = active[i]
         /\ active[id].item \in Stack
         /\ \A p \in Products : Held(p)' = Held(p) - Amount(active[id].item, p)
<1>1. active'[id] = NoRecord /\ \A i \in Ids \ {id} : active'[i] = active[i]
  BY DEF ShopSound, ShopInv, TypeOK
<1>2. active[id] \in Record
  BY DEF ShopSound, ShopInv, TypeOK
<1>3. active[id].item \in Stack
  BY <1>2, RecordFields
<1>4. ASSUME NEW p \in Products
      PROVE  Held(p)' = Held(p) - Amount(active[id].item, p)
  <2>1. \A i \in Ids \ {id} : HeldBy(i, p)' = HeldBy(i, p)
    BY <1>1 DEF HeldBy
  <2>2. HeldBy(id, p)' = 0 /\ HeldBy(id, p) = Amount(active[id].item, p)
    BY <1>1 DEF HeldBy
  <2>3. Held(p)' = Held(p) + HeldBy(id, p)' - HeldBy(id, p)
    BY <2>1, HeldChange DEF ShopSound
  <2>4. Held(p) \in Int /\ Amount(active[id].item, p) \in Int
    BY <1>3, SumTypes, AmountType DEF ShopSound
  <2> QED BY <2>2, <2>3, <2>4
<1> QED BY <1>1, <1>3, <1>4

LEMMA SaleRestored ==
  ASSUME ShopSound, ShopSound', NEW c \in Callers, Restored(c), Ok
  PROVE  Sales!Next
<1> DEFINE id == calls[c].id
           item == active[id].item
<1>1. /\ calls[c].op = "restore"
      /\ active' = [active EXCEPT ![id] = NoRecord]
      /\ restored' = restored \cup {id}
      /\ UNCHANGED <<completed, ledger>>
  BY DEF Restored, Answered
<1>2. calls[c] \in CallState
  BY DEF ShopSound, ShopInv, TypeOK
<1>3. id \in Ids /\ active[id] # NoRecord
  BY <1>1, <1>2, CallFields, Zenon DEF ShopSound, ShopInv, CallsSound, Redeems
<1> HIDE DEF id
<1>4. /\ active'[id] = NoRecord /\ \A i \in Ids \ {id} : active'[i] = active[i]
      /\ item \in Stack
      /\ \A p \in Products : Held(p)' = Held(p) - Amount(item, p)
  BY <1>1, <1>3, HeldRedeemed
<1>5. \A p \in Products : ForSale'[p] = ForSale[p] + Amount(item, p)
  <2> TAKE p \in Products
  <2>1. Amount(item, p) \in Int
    BY <1>4, AmountType
  <2> HIDE DEF item
  <2> QED BY <1>1, <1>4, <2>1, BothKnown DEF SaleByLedger
<1>6. ForSale' = [ForSale EXCEPT ![item.product] = @ + item.count]
  <2>1. \A p \in Products : ForSale'[p] = IF p = item.product THEN ForSale[p] + item.count
                                          ELSE ForSale[p]
    <3> TAKE p \in Products
    <3>1. Amount(item, p) = IF p = item.product THEN item.count ELSE 0
      BY <1>4, Worth
    <3>2. ForSale[p] \in Int
      BY BothKnown DEF SaleByLedger
    <3> HIDE DEF item
    <3> QED BY <1>5, <3>1, <3>2
  <2> HIDE DEF item
  <2> QED BY <2>1, BothKnown
<1>7. Tokens[id] = [state |-> "held", item |-> item]
  BY <1>3, TokenOf
<1>8. Tokens'[id] = [state |-> "restored"]
  BY <1>1, <1>3, <1>4 DEF Tokens
<1>9. Tokens' = [Tokens EXCEPT ![id] = Tokens'[id]]
  BY <1>1, <1>3, <1>4, OneToken
<1>10. Sales!Restore(id)
  <2> HIDE DEF item
  <2> QED BY <1>1, <1>6, <1>7, <1>8, <1>9 DEF Sales!Restore, Sales!Unheld
<1> QED BY <1>3, <1>10 DEF Sales!Next

LEMMA SaleComplete ==
  ASSUME ShopSound, ShopSound', NEW c \in Callers, NEW id \in Ids, NEW genuine,
         Complete(c, id, genuine)
  PROVE  Sales!Next
<1> DEFINE item == active[id].item
<1>1. /\ active[id] # NoRecord /\ id \notin completed \cup restored
      /\ active' = [active EXCEPT ![id] = NoRecord]
      /\ completed' = completed \cup {id}
      /\ ledger' = [ledger EXCEPT ![item.product] = @ - item.count]
      /\ UNCHANGED restored
  BY DEF Complete, Presentable
<1>2. /\ active'[id] = NoRecord /\ \A i \in Ids \ {id} : active'[i] = active[i]
      /\ item \in Stack
      /\ \A p \in Products : Held(p)' = Held(p) - Amount(item, p)
  BY <1>1, HeldRedeemed
<1>3. \A p \in Products : ForSale'[p] = ForSale[p]
  <2> TAKE p \in Products
  <2>1. Amount(item, p) = IF p = item.product THEN item.count ELSE 0
    BY <1>2, Worth
  <2>2. item.count \in Nat /\ ledger \in [Products -> Int]
    BY <1>2, Worth DEF ShopSound, ShopInv, TypeOK
  <2>3. ledger'[p] = ledger[p] - Amount(item, p)
    <3> HIDE DEF item
    <3> QED BY <1>1, <2>1, <2>2
  <2> HIDE DEF item
  <2> QED BY <1>2, <2>1, <2>2, <2>3, BothKnown DEF SaleByLedger
<1>4. ForSale' = ForSale
  BY <1>3, BothKnown
<1>5. Tokens[id] = [state |-> "held", item |-> item]
  BY <1>1, TokenOf
<1>6. Tokens'[id] = [state |-> "completed"]
  BY <1>1, <1>2 DEF Tokens
<1>7. Tokens' = [Tokens EXCEPT ![id] = Tokens'[id]]
  BY <1>1, <1>2, OneToken
<1>8. Sales!Complete(id)
  <2> HIDE DEF item
  <2> QED BY <1>1, <1>4, <1>5, <1>6, <1>7 DEF Sales!Complete, Sales!Unheld
<1> QED BY <1>8 DEF Sales!Next

LEMMA SaleInit ==
  ASSUME Init
  PROVE  Sales!Init
<1>1. ShopInv /\ StockConserved
  BY ShopInvInit, StockInit
<1>2. NothingBack
  BY DEF Init, Idle, NothingBack, Written, Answered
<1>3. ForSale \in [Products -> Nat]
  BY <1>1, <1>2, StockThere
<1>4. Tokens = [id \in Ids |-> [state |-> "new"]]
  BY DEF Init, Tokens
<1>5. \A p \in Products : Held(p) = 0
  <2> TAKE p \in Products
  <2>1. \A id \in Ids : HeldBy(id, p) = 0
    BY DEF Init, HeldBy
  <2>2. [id \in Ids |-> HeldBy(id, p)] \in [Ids -> Int]
    BY <2>1
  <2> QED BY <2>1, <2>2, SumZero, ShopAssumption DEF Held
<1>6. ledger = ForSale
  <2>1. \A p \in Products : ledger[p] = ForSale[p]
    BY <1>1, <1>5, SaleKnown DEF SaleByLedger
  <2>2. ledger = [p \in Products |-> ledger[p]] /\ ForSale = [p \in Products |-> ForSale[p]]
    BY <1>1 DEF ShopInv, TypeOK, ForSale
  <2> QED BY <2>1, <2>2
<1> QED BY <1>3, <1>4, <1>6 DEF Sales!Init, Sales!Unheld

\* Every step is a step of AtomicShop or one it does not see.
LEMMA SaleStep ==
  ASSUME ShopSound, ShopSound', [Next]_vars
  PROVE  [Sales!Next]_<<ForSale, Tokens, ledger>>
<1>1. CASE ShelfEdit
  <2>1. reply' = NoReply /\ UNCHANGED <<active, restored, completed>>
    BY <1>1 DEF ShelfEdit, Adapter!AEdit, shop, ShopSound, ShopInv, Quiet
  <2>2. NothingBack'
    BY <2>1 DEF NothingBack, Written, Answered
  <2> QED BY <2>1, <2>2, SaleOutside DEF Sales!Next
<1>2. CASE Refuse
  <2>1. UNCHANGED <<active, restored, completed, ledger>>
    BY <1>2 DEF Refuse, shop
  <2> QED BY <2>1, SaleSame
<1>3. CASE Damage
  <2>1. reply'.status # "Applied" /\ UNCHANGED <<active, restored, completed>>
    BY <1>3, DamageShape DEF Answering, Damage, shop
  <2>2. NothingBack'
    BY <2>1 DEF NothingBack, Written, Ok
  <2> QED BY <2>1, <2>2, SaleOutside DEF Sales!Next
<1>4. CASE Commit
  <2>1. UNCHANGED <<client, calls, active, restored, completed>>
    BY <1>4 DEF Commit, shop
  <2>2. CASE calls[client].op = "replace"
    <3>1. NothingBack'
      BY <2>1, <2>2 DEF NothingBack, Written, Answered
    <3> QED BY <2>1, <3>1, SaleOutside DEF Sales!Next
  <2>3. CASE calls[client].op # "replace"
    <3>1. UNCHANGED ledger
      BY <1>4, <2>3 DEF Commit
    <3> QED BY <2>1, <3>1, SaleSame
  <2> QED BY <2>2, <2>3
<1>5. ASSUME NEW c \in Callers, Call(c)
      PROVE  [Sales!Next]_<<ForSale, Tokens, ledger>>
  <2>1. ASSUME NEW id \in Ids, NEW genuine \in BOOLEAN, Complete(c, id, genuine)
        PROVE  Sales!Next
    BY <2>1, SaleComplete
  <2>2. CASE UNCHANGED <<active, restored, completed, ledger>>
    BY <2>2, SaleSame
  <2> QED BY <1>5, <2>1, <2>2 DEF Call, ReserveCapture, RestoreCapture, ReplaceCapture, shop
<1>6. ASSUME NEW c \in Callers, Proceed(c)
      PROVE  [Sales!Next]_<<ForSale, Tokens, ledger>>
  <2>1. CASE Register(c)
    BY <2>1, SaleRegister
  <2>2. CASE Restored(c) /\ Ok
    BY <2>2, SaleRestored
  <2>3. CASE Apply(c) \/ Reserved(c) \/ Replaced(c) \/ (Restored(c) /\ ~ Ok)
    <3>1. UNCHANGED <<active, restored, completed, ledger>>
      BY <2>3 DEF Apply, Reserved, Replaced, Restored, shop
    <3> QED BY <3>1, SaleSame
  <2> QED BY <1>6, <2>1, <2>2, <2>3 DEF Proceed
<1>7. CASE UNCHANGED vars
  <2>1. UNCHANGED <<active, restored, completed, ledger>>
    BY <1>7 DEF vars
  <2> QED BY <2>1, SaleSame
<1> QED BY <1>1, <1>2, <1>3, <1>4, <1>5, <1>6, <1>7 DEF Next, Answer

(***************************************************************************)
(* The compare-and-swap writes, the lock and the answers that come late    *)
(* are not visible to the callers: reserving, restoring and completing are *)
(* single steps on the stock for sale, a reservation is only ever made     *)
(* over stock that is there, and a token is redeemed once, for what it     *)
(* took -- for any number of callers, reservations, products and slots.    *)
(***************************************************************************)
THEOREM ImplementsAtomicShop == Spec => Implements
<1>1. Init => Sales!Init
  BY SaleInit
<1>2. ShopSound /\ ShopSound' /\ [Next]_vars => [Sales!Next]_<<ForSale, Tokens, ledger>>
  BY SaleStep
<1>3. Spec => []ShopSound
  <2>1. ShopInv /\ StockConserved => ShopSound
    BY DEF ShopSound
  <2> QED BY <2>1, ShopInvariant, StockIsConserved, PTL
<1> QED BY <1>1, <1>2, <1>3, PTL DEF Spec, Implements, Sales!Spec

(***************************************************************************)
(* The complement of what the docs promise and the code may not deliver:   *)
(* the revision a record carries is none at all or that of the shelf the   *)
(* reservation itself left -- never that of a later shelf, although others *)
(* change the shelf before the reservation is registered.                  *)
(***************************************************************************)
RecordsOwnRevision ==
    \A id \in Ids : active[id] # NoRecord =>
        active[id].shelf_revision \in
            {NoRevision, Leaves(active[id].before, active[id].slot, active[id].item)}

THEOREM RevisionsAreOwn == Spec => []RecordsOwnRevision
<1>1. ShopInv => RecordsOwnRevision
  BY DEF ShopInv, TokensSound, Sound, RecordsOwnRevision
<1> QED BY <1>1, ShopInvariant, PTL
=============================================================================
