---------------------------- MODULE MCShelfShop -----------------------------
(***************************************************************************)
(* Instances of ShelfShop for TLC.                                         *)
(***************************************************************************)
EXTENDS ShelfShop, TLC

CONSTANTS Product

\* Slot 0 is listed.
SlotZeroListed == [s \in {0} |-> Product]

\* Shelves are cleared, or filled with what is listed.
ClearedOrFilled ==
    {[s \in Slots |-> Empty], [s \in Slots |-> [product |-> Product, count |-> MaxCount]]}

\* Callers and IDs are only compared.
Symmetry == Permutations(Callers) \cup Permutations(Ids)

\* Of an answer the shop looks at whether it is Applied and, if it is, at the
\* revision; states that differ elsewhere in the answer are the same state.
Heard == IF reply = NoReply THEN NoReply
         ELSE IF Ok THEN reply.revision ELSE "failed"

WhatTheShopSees == <<shelf, request, Heard, client, active, restored, completed, lock,
                     calls, ledger>>
=============================================================================
