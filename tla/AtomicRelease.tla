---------------------------- MODULE AtomicRelease ----------------------------
(***************************************************************************)
(* What the release pipeline promises: a release is published in one step, *)
(* once, as what its source alone determines.  There are no directories,   *)
(* no half-written files, no killed builds and no earlier ones: the assets *)
(* are those of a single undisturbed build of the source checked out.      *)
(***************************************************************************)
CONSTANTS Releases, PythonVersions, Pep440, Sources, None

VARIABLES
    source,     \* the checked-out source
    published   \* the GitHub releases

\* The assets of an undisturbed build of a source.
Build(s) ==
    LET binary == [version |-> s.release, revision |-> s.revision]
        wheel  == [native |-> binary, bridge |-> binary, declared |-> s.key,
                   plugin |-> s.plugin, package |-> s.package, revision |-> s.revision]
        files  == [bridge |-> binary, manifest |-> FALSE,
                   wheels |-> [p \in PythonVersions |-> IF p = s.wheel THEN wheel ELSE None]]
        zip    == [manifest |-> [version |-> s.release, files |-> files], files |-> files]
    IN  [raw |-> binary, zip |-> zip, wheel |-> wheel,
         sums |-> [raw |-> binary, zip |-> zip, wheel |-> wheel]]

\* Every version a source states is its release's, in the spelling the
\* checks and the loaders expect of it.
Publishable(s) ==
    /\ s.wheel = Pep440[s.release] /\ s.package = Pep440[s.release]
    /\ s.plugin = s.release /\ s.key = s.release

Init == source \in Sources /\ published = [v \in Releases |-> None]

Checkout == source' \in Sources /\ UNCHANGED published

Publish ==
    /\ Publishable(source)
    /\ published[source.release] = None
    /\ published' = [published EXCEPT ![source.release] = Build(source)]
    /\ UNCHANGED source

Next == Checkout \/ Publish

Spec == Init /\ [][Next]_<<source, published>>
=============================================================================
