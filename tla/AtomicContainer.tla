--------------------------- MODULE AtomicContainer ---------------------------
(***************************************************************************)
(* What a caller of IBedrockBlockAdapter::apply is promised about the      *)
(* inventory of one block: a request is answered once, and its answer says *)
(* which of three things happened in a single step -- nothing, exactly the *)
(* requested overlay, or (the degraded case the native adapter reports as  *)
(* an incomplete rollback) damage.  Nothing is said about how a container  *)
(* is written; ContainerTransaction does that and is shown to implement    *)
(* this module.                                                            *)
(***************************************************************************)
EXTENDS BlockPatch

CONSTANTS
    NoRequest,    \* no call is being served
    NoReply       \* the call has not been answered

VARIABLES
    contents,     \* the inventory as snapshots show it, [Slots -> Contents]
    request,      \* the patch being served, or NoRequest
    reply         \* its ApplyResult, or NoReply

avars == <<contents, request, reply>>

AInit ==
    /\ contents \in [Slots -> Contents]
    /\ request = NoRequest
    /\ reply = NoReply

\* Players, hoppers and other plugins change the block between two calls.
AEdit ==
    /\ request = NoRequest
    /\ \E s \in Slots, c \in Contents : contents' = [contents EXCEPT ![s] = c]
    /\ UNCHANGED <<request, reply>>

ASubmit ==
    /\ request = NoRequest
    /\ request' \in Request
    /\ UNCHANGED <<contents, reply>>

Serving == request # NoRequest /\ reply = NoReply

\* The two policies apply implements; any other is answered Unsupported.
Served == request.policy \in {"FailIfChanged", "Force"}

\* Nothing happened, and the status is not the one of a write.
ARefuse ==
    /\ Serving
    /\ \E st \in ApplyStatus \ {"Applied"}, rev \in {NoRevision, contents},
          back \in {"none", "complete"} :
          /\ st = "Conflict" => Stale(request, contents)
          /\ back = "complete" => st = "AdapterError"
          /\ reply' = Result(st, rev, back)
    /\ UNCHANGED <<contents, request>>

\* The whole overlay appears at once, and only over the revision expected.
ACommit ==
    /\ Serving
    /\ Served
    /\ ~Stale(request, contents)
    /\ contents' = Overlay(contents, request.patch)
    /\ \E rev \in {NoRevision, contents'} : reply' = Result("Applied", rev, "none")
    /\ UNCHANGED request

\* The container neither took the overlay nor took its old items back.
ADamage ==
    /\ Serving
    /\ Served
    /\ ~Stale(request, contents)
    /\ contents' \in [Slots -> Contents]
    /\ \E rev \in {NoRevision, contents'} :
          reply' = Result("AdapterError", rev, "incomplete")
    /\ UNCHANGED request

ACollect ==
    /\ reply # NoReply
    /\ request' = NoRequest
    /\ reply' = NoReply
    /\ UNCHANGED contents

ANext == AEdit \/ ASubmit \/ ARefuse \/ ACommit \/ ADamage \/ ACollect

ASpec == AInit /\ [][ANext]_avars
=============================================================================
