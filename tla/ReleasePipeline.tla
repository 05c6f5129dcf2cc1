--------------------------- MODULE ReleasePipeline ---------------------------
(***************************************************************************)
(* A release from source to server: build_exact.py empties its             *)
(* directories, installs the native provider and the bridge into the       *)
(* stage, has build_test_wheel.py put both into the command wheel and      *)
(* package_release.py make the ZIP and the checksums; verify_project_      *)
(* metadata.py and verify_release_assets.py gate what the workflow         *)
(* publishes; the loaders of the wheel check versions again on a server.   *)
(* A build is killed between any two writes or within one, and starts over *)
(* in the same tree, where directories could not be emptied entirely.      *)
(* A digest is the content it is taken of; of the source files only the    *)
(* versions they state and their revision are kept.                        *)
(***************************************************************************)
EXTENDS Naturals, FiniteSets

CONSTANTS
    Releases,        \* release versions: 1.2.3 or 1.2.3-beta.1
    PythonVersions,  \* the names PEP 440 has for them
    Pep440,          \* pep440_version
    Revisions,       \* states of the source files
    Sources,         \* what may be checked out
    None,            \* a file that is not there
    Torn,            \* a file whose writer was killed
    MaxLocked        \* bound: kinds of files rmtree leaves behind

ASSUME ReleaseAssumption ==
    /\ Pep440 \in [Releases -> PythonVersions]
    /\ Sources \subseteq
          [release : Releases,            \* SOURCE_RELEASE.json version, and the tag
           key : PythonVersions,          \* SOURCE_RELEASE.json python_version
           wheel : PythonVersions,        \* pyproject.toml of the wheel
           package : PythonVersions,      \* __version__ of the Python package
           plugin : Releases,             \* version of the plugin class
           revision : Revisions]
    /\ None \notin Releases \cup PythonVersions /\ Torn # None

VARIABLES
    source,     \* the checked-out source
    workflow,   \* the run is the tagged workflow's, on a runner of its own
    phase,      \* what build_exact does next
    stage,      \* dist/stage
    release,    \* dist/release
    published   \* the GitHub releases

vars == <<source, workflow, phase, stage, release, published>>

Binary == [version : Releases, revision : Revisions]

Wheel == [native : Binary, bridge : Binary,
          declared : PythonVersions,   \* native/manifest.json
          plugin : Releases, package : PythonVersions, revision : Revisions]

ASSUME FilesAssumption == {None, Torn} \cap (Binary \cup Wheel) = {}

MaybeFile(content) == content \cup {None, Torn}

Wheels == [PythonVersions -> MaybeFile(Wheel)]

\* The files of a stage that a ZIP is made of; the native plugin is left out.
Payload == [bridge : MaybeFile(Binary), wheels : Wheels, manifest : BOOLEAN]

Manifest == [version : Releases, files : Payload]

Zip == [manifest : Manifest, files : Payload]

Sums == [raw : MaybeFile(Binary), zip : MaybeFile(Zip), wheel : MaybeFile(Wheel)]

EmptyStage == [native |-> None, bridge |-> None, manifest |-> None,
               wheels |-> [p \in PythonVersions |-> None]]

EmptyRelease == [raw |-> [v \in Releases |-> None], zip |-> [v \in Releases |-> None],
                 sums |-> [v \in Releases |-> None],
                 wheel |-> [p \in PythonVersions |-> None]]

-----------------------------------------------------------------------------
\* Mutant: the version of the plugin class is not checked.
MetadataOKButPlugin(s) == s.wheel = Pep440[s.release] /\ s.package = Pep440[s.release]

\* verify_project_metadata compares every stated version but python_version.
MetadataOK(s) ==
    /\ s.wheel = Pep440[s.release]
    /\ s.package = Pep440[s.release]
    /\ s.plugin = s.release

\* The files the ZIP is made of, before the manifest is written over.
Files == [bridge |-> stage.bridge, wheels |-> stage.wheels, manifest |-> FALSE]

Assets(v) == [raw |-> release.raw[v], zip |-> release.zip[v],
              wheel |-> release.wheel[Pep440[v]], sums |-> release.sums[v]]

\* verify_release_assets: nothing missing or torn, and the checksums.
Whole(a) ==
    /\ a.raw \in Binary /\ a.zip \in Zip /\ a.wheel \in Wheel /\ a.sums \in Sums
    /\ a.sums = [raw |-> a.raw, zip |-> a.zip, wheel |-> a.wheel]

\* The manifest is that of the version and declares what the ZIP holds.
Declares(zip, v) ==
    /\ zip.manifest.version = v
    /\ zip.manifest.files = zip.files

\* The files are the same in the ZIP, in the wheel and standalone.
Agree(a, v) ==
    /\ a.zip.files.wheels[Pep440[v]] = a.wheel
    /\ a.wheel.declared = v
    /\ a.wheel.native = a.raw
    /\ a.zip.files.bridge = a.wheel.bridge

Accepts(v) == Whole(Assets(v)) /\ Declares(release.zip[v], v) /\ Agree(Assets(v), v)

\* load_native_provider, on a server without another native plugin.
ProviderLoads(w) == w.declared = w.plugin

\* import_live_bridge, for the commands.
BridgeLoads(w) == w.bridge.version = w.plugin

\* _load_live_bridge, for scripts that use the Python package.
AdapterLoads(w) == w.bridge.version = w.package

-----------------------------------------------------------------------------
Init ==
    /\ source \in Sources
    /\ workflow = FALSE
    /\ phase = "idle"
    /\ stage = EmptyStage
    /\ release = EmptyRelease
    /\ published = [v \in Releases |-> None]

\* The developer edits the source, between builds.
Edit ==
    /\ phase = "idle"
    /\ source' \in Sources
    /\ UNCHANGED <<workflow, phase, stage, release, published>>

Kinds == {"native", "bridge", "wheels", "manifest", "raw", "zip", "sums", "wheel"}

\* rmtree(ignore_errors=True): locked files stay.
Left(dir, empty, locked) == [k \in DOMAIN dir |-> IF k \in locked THEN dir[k] ELSE empty[k]]

Clean ==
    /\ phase = "idle"
    /\ \E locked \in {k \in SUBSET Kinds : Cardinality(k) <= MaxLocked} :
          /\ stage' = Left(stage, EmptyStage, locked)
          /\ release' = Left(release, EmptyRelease, locked)
    /\ phase' = "native"
    /\ UNCHANGED <<source, workflow, published>>

\* Mutant: the checkout keeps what an earlier run left in the directories.
TagInPlace ==
    /\ phase = "idle"
    /\ source' \in {s \in Sources : MetadataOK(s)}
    /\ workflow' = TRUE
    /\ phase' = "native"
    /\ UNCHANGED <<stage, release, published>>

\* A tag is pushed, or pushed again at another commit: a runner checks the
\* source and its metadata out anew.
Tag ==
    /\ phase = "idle"
    /\ source' \in {s \in Sources : MetadataOK(s)}
    /\ workflow' = TRUE
    /\ phase' = "native"
    /\ stage' = EmptyStage
    /\ release' = EmptyRelease
    /\ UNCHANGED published

Step(from, to) ==
    /\ phase = from
    /\ phase' = to
    /\ UNCHANGED <<source, workflow, published>>

Built == [version |-> source.release, revision |-> source.revision]

\* Mutant: a file that is already there is taken for up to date.
InstalledIfAbsent(old) == IF old = None THEN Built ELSE old

\* cmake --install replaces what is there.
Installed(old) == Built

InstallNative ==
    /\ Step("native", "bridge")
    /\ stage' = [stage EXCEPT !.native = Installed(@)]
    /\ UNCHANGED release

InstallBridge ==
    /\ Step("bridge", "make wheel")
    /\ stage' = [stage EXCEPT !.bridge = Installed(@)]
    /\ UNCHANGED release

NewWheel == [native |-> stage.native, bridge |-> stage.bridge, declared |-> source.key,
             plugin |-> source.plugin, package |-> source.package,
             revision |-> source.revision]

\* build_test_wheel: to the release directory, then into the stage.
MakeWheel ==
    /\ Step("make wheel", "bundle wheel")
    /\ None \notin {stage.native, stage.bridge}
    /\ release' = [release EXCEPT !.wheel[source.wheel] = NewWheel]
    /\ UNCHANGED stage

BundleWheel ==
    /\ Step("bundle wheel", "raw")
    /\ stage' = [stage EXCEPT !.wheels[source.wheel] = NewWheel]
    /\ UNCHANGED release

\* package_release.
CopyRaw ==
    /\ Step("raw", "wheel")
    /\ release' = [release EXCEPT !.raw[source.release] = stage.native]
    /\ UNCHANGED stage

\* The bundled wheel goes by the name the release has; a standalone wheel
\* of that name may not be another one.
CopyWheel ==
    LET name == Pep440[source.release] IN
    /\ Step("wheel", "manifest")
    /\ stage.wheels[name] # None
    /\ release.wheel[name] \in {None, stage.wheels[name]}
    /\ release' = [release EXCEPT !.wheel[name] = stage.wheels[name]]
    /\ UNCHANGED stage

\* Mutant: a manifest left from an earlier build is declared too.
DeclaredWithManifest == [Files EXCEPT !.manifest = stage.manifest # None]

\* Every file of the stage is declared, the manifest itself is not.
Declared == Files

WriteManifest ==
    /\ Step("manifest", "zip")
    /\ stage' = [stage EXCEPT !.manifest = [version |-> source.release, files |-> Declared]]
    /\ UNCHANGED release

WriteZip ==
    /\ Step("zip", "sums")
    /\ release' = [release EXCEPT
          !.zip[source.release] = [manifest |-> stage.manifest, files |-> Files]]
    /\ UNCHANGED stage

WriteSums ==
    LET v == source.release IN
    /\ Step("sums", "done")
    /\ release' = [release EXCEPT !.sums[v] =
          [raw |-> release.raw[v], zip |-> release.zip[v], wheel |-> release.wheel[Pep440[v]]]]
    /\ UNCHANGED stage

Building == phase \notin {"idle", "done", "verified", "released"}

\* The file that is being written is torn.
TornStage ==
    CASE phase = "native"       -> [stage EXCEPT !.native = Torn]
      [] phase = "bridge"       -> [stage EXCEPT !.bridge = Torn]
      [] phase = "bundle wheel" -> [stage EXCEPT !.wheels[source.wheel] = Torn]
      [] phase = "manifest"     -> [stage EXCEPT !.manifest = Torn]
      [] OTHER                  -> stage

TornRelease ==
    CASE phase = "make wheel" -> [release EXCEPT !.wheel[source.wheel] = Torn]
      [] phase = "wheel"      -> [release EXCEPT !.wheel[Pep440[source.release]] = Torn]
      [] phase = "raw"        -> [release EXCEPT !.raw[source.release] = Torn]
      [] phase = "zip"        -> [release EXCEPT !.zip[source.release] = Torn]
      [] phase = "sums"       -> [release EXCEPT !.sums[source.release] = Torn]
      [] OTHER                -> release

\* A step fails or is killed, before it wrote or while it did.
Stop ==
    /\ Building
    /\ \/ UNCHANGED <<stage, release>>
       \/ stage' = TornStage /\ release' = TornRelease
    /\ phase' = "idle" /\ workflow' = FALSE
    /\ UNCHANGED <<source, published>>

\* A build by hand is over, which a developer may verify at any time, or a
\* run of the workflow whose jobs all succeeded.
Finish ==
    /\ phase = "released" \/ (phase = "done" /\ ~workflow)
    /\ phase' = "idle" /\ workflow' = FALSE
    /\ UNCHANGED <<source, stage, release, published>>

Verify ==
    /\ phase = "done" /\ workflow
    /\ IF Accepts(source.release)
       THEN phase' = "verified" /\ workflow' = workflow
       ELSE phase' = "idle" /\ workflow' = FALSE
    /\ UNCHANGED <<source, stage, release, published>>

\* verify_combined_release_assets: these files and no other.
ExactSet(v) ==
    /\ \A u \in Releases \ {v} : release.raw[u] = None /\ release.zip[u] = None /\ release.sums[u] = None
    /\ \A p \in PythonVersions \ {Pep440[v]} : release.wheel[p] = None
    /\ None \notin {Assets(v)[k] : k \in {"raw", "zip", "wheel", "sums"}}

\* The job fails, or it creates the release; one that exists is preserved.
Publish ==
    LET v == source.release IN
    /\ phase = "verified"
    /\ \/ phase' = "idle" /\ UNCHANGED published
       \/ /\ ExactSet(v)
          /\ phase' = "released"
          /\ published' = IF published[v] = None
                          THEN [published EXCEPT ![v] = Assets(v)] ELSE published
    /\ workflow' = FALSE
    /\ UNCHANGED <<source, stage, release>>

Next ==
    \/ Edit \/ Clean \/ Tag
    \/ InstallNative \/ InstallBridge \/ MakeWheel \/ BundleWheel
    \/ CopyRaw \/ CopyWheel \/ WriteManifest \/ WriteZip \/ WriteSums
    \/ Stop \/ Finish \/ Verify \/ Publish

Spec == Init /\ [][Next]_vars

-----------------------------------------------------------------------------
(***************************************************************************)
(* Properties.                                                             *)
(***************************************************************************)
Phases == {"idle", "native", "bridge", "make wheel", "bundle wheel", "raw", "wheel",
           "manifest", "zip", "sums", "done", "verified", "released"}

\* Files hold what belongs into them, or are absent or torn; a build that is
\* past a file finds that file whole.
TypeOK ==
    /\ source \in Sources
    /\ phase \in Phases
    /\ stage.native \in MaybeFile(Binary) /\ stage.bridge \in MaybeFile(Binary)
    /\ stage.wheels \in Wheels
    /\ stage.manifest \in MaybeFile(Manifest)
    /\ \A v \in Releases : release.raw[v] \in MaybeFile(Binary)
    /\ release.wheel \in Wheels

\* What verify_release_assets accepts is one build, whatever builds were
\* killed before and whatever files they left: plugin, bridge and Python
\* code of one revision and of the version asked for, in the wheel, in the
\* ZIP and standalone.
OneBuild(a, v) ==
    LET one == [version |-> v, revision |-> a.raw.revision]
    IN  /\ a.raw = one /\ a.wheel.native = one /\ a.wheel.bridge = one
        /\ a.wheel.revision = one.revision
        /\ a.zip.files.bridge = one
        /\ a.zip.files.wheels[Pep440[v]] = a.wheel

AcceptedIsOneBuild == \A v \in Releases : Accepts(v) => OneBuild(Assets(v), v)

Stable(v) == Pep440[v] = v

\* A build that came to its end is accepted, of a stable release whose
\* versions agree, also over what earlier builds left behind.
FinishedIsAccepted ==
    phase = "done" /\ MetadataOK(source) /\ source.key = Pep440[source.release]
      /\ Stable(source.release)
        => Accepts(source.release)

\* A published release is one build, and its wheel loads on a server: the
\* versions the loaders compare agree, which no single check establishes.
\* (Of a prerelease, whose python_version would have to be stated wrongly,
\* that is not so of scripts.)
PublishedLoads ==
    \A v \in Releases : published[v] # None =>
        /\ OneBuild(published[v], v)
        /\ ProviderLoads(published[v].wheel)
        /\ BridgeLoads(published[v].wheel)
        /\ Stable(v) => AdapterLoads(published[v].wheel)

Atomic == INSTANCE AtomicRelease

\* What is published is, in one step and for good, what the source of its
\* tag determines, as if no other build had ever run or been killed.
Implements == Atomic!Spec

\* "made CI publish complete ZIP/checksum assets and beta prereleases": a
\* finished build of a prerelease is accepted as that of a release is.
PrereleaseIsAccepted ==
    phase = "done" /\ MetadataOK(source) /\ source.key = Pep440[source.release]
        => Accepts(source.release)

\* "Re-running the tagged workflow updates existing assets": after a run whose
\* jobs all succeeded the assets of the release are those this run built.
RerunUpdatesAssets == phase = "released" => published[source.release] = Assets(source.release)
=============================================================================
