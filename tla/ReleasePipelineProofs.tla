------------------------ MODULE ReleasePipelineProofs ------------------------
(***************************************************************************)
(* Proofs about ReleasePipeline, for any releases, sources and revisions,  *)
(* any number of killed builds and any files they leave behind.            *)
(*                                                                         *)
(* A build proceeds over the files of earlier ones, so what is accepted    *)
(* cannot be read off the last build alone.  The invariant says of every   *)
(* wheel, wherever it was left, that its plugin and bridge are of one      *)
(* build and its revision, and of every standalone plugin that its name    *)
(* tells its version; the checks then tie these together.  A build's own   *)
(* files are those of its source from the phase that wrote them on.        *)
(***************************************************************************)
EXTENDS ReleasePipeline, TLAPS

StageType == [native : MaybeFile(Binary), bridge : MaybeFile(Binary),
              manifest : MaybeFile(Manifest), wheels : Wheels]

ReleaseType == [raw : [Releases -> MaybeFile(Binary)], zip : [Releases -> MaybeFile(Zip)],
                sums : [Releases -> MaybeFile(Sums)], wheel : Wheels]

Shape ==
    /\ source \in Sources /\ workflow \in BOOLEAN /\ phase \in Phases
    /\ stage \in StageType /\ release \in ReleaseType
    /\ \E content : published \in [Releases -> content]

\* The plugin and the bridge of a wheel are of one build, and of its revision.
Single(w) == w \in Wheel => w.native = w.bridge /\ w.native.revision = w.revision

\* The name of a standalone plugin tells its version.
Named(b, v) == b \in Binary => b.version = v

Leftovers ==
    /\ \A p \in PythonVersions : Single(stage.wheels[p]) /\ Single(release.wheel[p])
    /\ \A v \in Releases : Named(release.raw[v], v)

\* Phases that are past the writing of a file.
PastSums == {"done", "verified"}
PastZip == {"sums"} \cup PastSums
PastManifest == {"zip"} \cup PastZip
PastWheel == {"manifest"} \cup PastManifest
PastRaw == {"wheel"} \cup PastWheel
PastBundle == {"raw"} \cup PastRaw
PastBridge == {"make wheel", "bundle wheel"} \cup PastBundle
PastNative == {"bridge"} \cup PastBridge

\* A build's files are those of its source once it has written them.
Fresh ==
    LET v == source.release
        name == Pep440[v]
    IN  /\ phase \in PastNative => stage.native = Built
        /\ phase \in PastBridge => stage.bridge = Built
        /\ phase \in PastBundle => stage.wheels[source.wheel] = NewWheel
        /\ phase \in PastRaw => release.raw[v] = Built
        /\ phase \in PastWheel => release.wheel[name] = stage.wheels[name]
        /\ phase \in PastManifest => stage.manifest = [version |-> v, files |-> Files]
        /\ phase \in PastZip => release.zip[v] = [manifest |-> stage.manifest, files |-> Files]
        /\ phase \in PastSums => release.sums[v] =
              [raw |-> release.raw[v], zip |-> release.zip[v], wheel |-> release.wheel[name]]

\* The code in a wheel is that of the source.
OfSource(w) == w \in Wheel => w.plugin = source.plugin /\ w.package = source.package

\* The tagged workflow has only files of a source whose versions agree.
Gated ==
    /\ workflow => /\ phase # "idle" /\ MetadataOK(source)
                   /\ \A p \in PythonVersions :
                         OfSource(stage.wheels[p]) /\ OfSource(release.wheel[p])
    /\ phase = "verified" => workflow /\ Accepts(source.release)

Inv == Shape /\ Leftovers /\ Fresh /\ Gated /\ PublishedLoads

-----------------------------------------------------------------------------
\* What the checks accept, over any leftovers, is one build.
LEMMA AcceptedOne ==
    ASSUME Shape, Leftovers, NEW v \in Releases, Accepts(v)
    PROVE  OneBuild(Assets(v), v) /\ release.wheel[Pep440[v]] \in Wheel
<1> DEFINE a == Assets(v)
<1>1. Pep440[v] \in PythonVersions
  BY ReleaseAssumption DEF ReleaseAssumption
<1>2. /\ a.raw = release.raw[v] /\ a.zip = release.zip[v]
      /\ a.wheel = release.wheel[Pep440[v]]
  BY DEF Assets
<1>3. /\ a.raw \in Binary /\ a.wheel \in Wheel
      /\ a.zip.files.wheels[Pep440[v]] = a.wheel
      /\ a.wheel.native = a.raw /\ a.zip.files.bridge = a.wheel.bridge
  BY DEF Accepts, Whole, Agree
<1>4. a.raw.version = v
  BY <1>2, <1>3 DEF Leftovers, Named
<1>5. a.wheel.native = a.wheel.bridge /\ a.wheel.native.revision = a.wheel.revision
  BY <1>1, <1>2, <1>3 DEF Leftovers, Single
<1>6. a.raw = [version |-> v, revision |-> a.raw.revision]
  BY <1>3, <1>4 DEF Binary
<1> HIDE DEF a
<1>7. OneBuild(a, v)
  BY <1>3, <1>5, <1>6 DEF OneBuild
<1> QED BY <1>2, <1>3, <1>7 DEF a

\* The wheel a publication makes public loads on a server.
LEMMA GatedLoads ==
    ASSUME Inv, phase = "verified"
    PROVE  LET v == source.release
               w == Assets(v).wheel
           IN  /\ v \in Releases /\ OneBuild(Assets(v), v)
               /\ ProviderLoads(w) /\ BridgeLoads(w)
               /\ Stable(v) => AdapterLoads(w)
<1> DEFINE v == source.release
           w == release.wheel[Pep440[v]]
<1>1. v \in Releases /\ Pep440[v] \in PythonVersions
  BY ReleaseAssumption DEF ReleaseAssumption, Inv, Shape
<1>2. Accepts(v) /\ MetadataOK(source) /\ OfSource(w)
  BY <1>1 DEF Inv, Gated
<1>3. OneBuild(Assets(v), v) /\ w \in Wheel /\ Assets(v).wheel = w
  BY <1>1, <1>2, AcceptedOne DEF Inv, Assets
<1>4. w.plugin = v /\ w.package = Pep440[v]
  BY <1>2, <1>3 DEF OfSource, MetadataOK
<1>5. w.declared = v
  BY <1>2, <1>3 DEF Accepts, Agree
<1>6. w.bridge.version = v
  BY <1>3 DEF OneBuild
<1> QED BY <1>1, <1>3, <1>4, <1>5, <1>6 DEF ProviderLoads, BridgeLoads, AdapterLoads, Stable

LEMMA SourceType ==
    ASSUME source \in Sources
    PROVE  /\ source.release \in Releases /\ source.key \in PythonVersions
           /\ source.wheel \in PythonVersions /\ source.package \in PythonVersions
           /\ source.plugin \in Releases /\ source.revision \in Revisions
           /\ Pep440[source.release] \in PythonVersions /\ Built \in Binary
BY ReleaseAssumption DEF ReleaseAssumption, Built, Binary

\* A wheel is built of the source's plugin and bridge.
LEMMA NewWheelGood ==
    ASSUME Shape, Fresh, phase \in {"make wheel", "bundle wheel"}
    PROVE  NewWheel \in Wheel /\ Single(NewWheel) /\ OfSource(NewWheel)
<1>1. stage.native = Built /\ stage.bridge = Built
  BY DEF Fresh, PastNative, PastBridge
<1>2. NewWheel \in Wheel
  BY <1>1, SourceType DEF Shape, NewWheel, Wheel
<1>3. Single(NewWheel)
  <2>1. NewWheel.native = Built /\ NewWheel.bridge = Built
    BY <1>1 DEF NewWheel
  <2>2. NewWheel.revision = source.revision /\ Built.revision = source.revision
    BY DEF NewWheel, Built
  <2> QED BY <2>1, <2>2 DEF Single
<1>4. OfSource(NewWheel)
  BY DEF OfSource, NewWheel
<1> QED BY <1>2, <1>3, <1>4

\* A file that is absent or torn is no wheel and no plugin.
LEMMA NoContent ==
    ASSUME NEW f \in {None, Torn}
    PROVE  f \notin Wheel /\ f \notin Binary
BY FilesAssumption DEF FilesAssumption

LEMMA EmptyTypes == EmptyStage \in StageType /\ EmptyRelease \in ReleaseType
<1>1. [p \in PythonVersions |-> None] \in Wheels
  BY DEF Wheels, MaybeFile
<1> QED BY <1>1 DEF EmptyStage, EmptyRelease, StageType, ReleaseType, MaybeFile

\* rmtree leaves each kind of files as it was or empty.
LEMMA LeftTypes ==
    ASSUME stage \in StageType, release \in ReleaseType, NEW locked
    PROVE  LET s == Left(stage, EmptyStage, locked)
               r == Left(release, EmptyRelease, locked)
           IN  /\ s \in StageType /\ r \in ReleaseType
               /\ s.wheels \in {stage.wheels, EmptyStage.wheels}
               /\ r.wheel \in {release.wheel, EmptyRelease.wheel}
               /\ r.raw \in {release.raw, EmptyRelease.raw}
<1> DEFINE s == Left(stage, EmptyStage, locked)
           r == Left(release, EmptyRelease, locked)
<1>1. DOMAIN stage = {"native", "bridge", "manifest", "wheels"}
  BY DEF StageType
<1>2. DOMAIN release = {"raw", "zip", "sums", "wheel"}
  BY DEF ReleaseType
<1>3. s = [native |-> s.native, bridge |-> s.bridge, manifest |-> s.manifest,
           wheels |-> s.wheels]
  BY <1>1 DEF Left
<1>4. r = [raw |-> r.raw, zip |-> r.zip, sums |-> r.sums, wheel |-> r.wheel]
  BY <1>2 DEF Left
<1>5. /\ s.native \in {stage.native, EmptyStage.native}
      /\ s.bridge \in {stage.bridge, EmptyStage.bridge}
      /\ s.manifest \in {stage.manifest, EmptyStage.manifest}
      /\ s.wheels \in {stage.wheels, EmptyStage.wheels}
  BY <1>1 DEF Left
<1>6. /\ r.raw \in {release.raw, EmptyRelease.raw}
      /\ r.zip \in {release.zip, EmptyRelease.zip}
      /\ r.sums \in {release.sums, EmptyRelease.sums}
      /\ r.wheel \in {release.wheel, EmptyRelease.wheel}
  BY <1>2 DEF Left
<1> HIDE DEF s, r
<1>7. s \in StageType
  BY <1>3, <1>5, EmptyTypes DEF StageType
<1>8. r \in ReleaseType
  BY <1>4, <1>6, EmptyTypes DEF ReleaseType
<1> QED BY <1>5, <1>6, <1>7, <1>8 DEF s, r

-----------------------------------------------------------------------------
LEMMA InitInv == Init => Inv
<1> SUFFICES ASSUME Init PROVE Inv
  OBVIOUS
<1>1. Shape
  BY EmptyTypes DEF Init, Shape, Phases
<1>2. Leftovers
  <2>1. /\ \A p \in PythonVersions : stage.wheels[p] = None /\ release.wheel[p] = None
        /\ \A v \in Releases : release.raw[v] = None
    BY DEF Init, EmptyStage, EmptyRelease
  <2> QED BY <2>1, NoContent DEF Leftovers, Single, Named
<1>3. Fresh
  BY DEF Init, Fresh, PastNative, PastBridge, PastBundle, PastRaw, PastWheel, PastManifest,
         PastZip, PastSums
<1>4. Gated
  BY DEF Init, Gated
<1>5. PublishedLoads
  BY DEF Init, PublishedLoads
<1> QED BY <1>1, <1>2, <1>3, <1>4, <1>5 DEF Inv

\* PublishedLoads is about the published files alone.
LEMMA PublishedKept ==
    ASSUME Inv, UNCHANGED published
    PROVE  PublishedLoads'
BY DEF Inv, PublishedLoads, OneBuild, ProviderLoads, BridgeLoads, AdapterLoads, Stable

\* Nothing is built between two builds, and only leftovers matter.
LEMMA IdleKeeps ==
    ASSUME Inv, UNCHANGED published, source' \in Sources,
           phase' \in {"idle", "native", "released"}, ~workflow', workflow' \in BOOLEAN,
           (stage \in StageType /\ release \in ReleaseType)', Leftovers'
    PROVE  Inv'
<1>1. Shape'
  BY DEF Inv, Shape, Phases
<1>2. Fresh'
  BY DEF Fresh, PastNative, PastBridge, PastBundle, PastRaw, PastWheel, PastManifest,
         PastZip, PastSums
<1>3. Gated'
  BY DEF Gated
<1> QED BY <1>1, <1>2, <1>3, PublishedKept DEF Inv

LEMMA EditInv == ASSUME Inv, Edit PROVE Inv'
<1>1. Leftovers'
  BY DEF Inv, Edit, Leftovers, Single, Named
<1>2. ~workflow
  BY DEF Inv, Gated, Edit
<1> QED BY <1>1, <1>2, IdleKeeps DEF Edit, Inv, Shape

LEMMA CleanInv == ASSUME Inv, Clean PROVE Inv'
<1>1. PICK locked : /\ stage' = Left(stage, EmptyStage, locked)
                    /\ release' = Left(release, EmptyRelease, locked)
  BY DEF Clean
<1>2. /\ stage' \in StageType /\ release' \in ReleaseType
      /\ stage'.wheels \in {stage.wheels, EmptyStage.wheels}
      /\ release'.wheel \in {release.wheel, EmptyRelease.wheel}
      /\ release'.raw \in {release.raw, EmptyRelease.raw}
  BY <1>1, LeftTypes DEF Inv, Shape
<1>3. Leftovers'
  <2>1. ASSUME NEW p \in PythonVersions
        PROVE  Single(stage'.wheels[p]) /\ Single(release'.wheel[p])
    <3>1. EmptyStage.wheels[p] = None /\ EmptyRelease.wheel[p] = None
      BY DEF EmptyStage, EmptyRelease
    <3>2. Single(None) /\ Single(stage.wheels[p]) /\ Single(release.wheel[p])
      BY NoContent DEF Single, Inv, Leftovers
    <3> QED BY <1>2, <3>1, <3>2
  <2>2. ASSUME NEW v \in Releases PROVE Named(release'.raw[v], v)
    <3>1. EmptyRelease.raw[v] = None
      BY DEF EmptyRelease
    <3>2. Named(None, v) /\ Named(release.raw[v], v)
      BY NoContent DEF Named, Inv, Leftovers
    <3> QED BY <1>2, <3>1, <3>2
  <2> QED BY <2>1, <2>2 DEF Leftovers, Single, Named
<1>4. ~workflow
  BY DEF Inv, Gated, Clean
<1> QED BY <1>2, <1>3, <1>4, IdleKeeps DEF Clean, Inv, Shape

\* A runner starts without leftovers, from a source whose versions agree.
LEMMA TagInv == ASSUME Inv, Tag PROVE Inv'
<1>1. /\ \A p \in PythonVersions : stage'.wheels[p] = None /\ release'.wheel[p] = None
      /\ \A v \in Releases : release'.raw[v] = None
  BY DEF Tag, EmptyStage, EmptyRelease
<1>2. Shape'
  BY EmptyTypes DEF Inv, Shape, Tag, Phases
<1>3. Leftovers'
  BY <1>1, NoContent DEF Leftovers, Single, Named
<1>4. Fresh'
  BY DEF Tag, Fresh, PastNative, PastBridge, PastBundle, PastRaw, PastWheel, PastManifest,
         PastZip, PastSums
<1>5. Gated'
  <2>1. \A p \in PythonVersions : OfSource(stage.wheels[p])' /\ OfSource(release.wheel[p])'
    BY <1>1, NoContent DEF OfSource
  <2>2. phase' = "native" /\ MetadataOK(source)'
    BY DEF Tag, MetadataOK
  <2> QED BY <2>1, <2>2 DEF Gated
<1> QED BY <1>2, <1>3, <1>4, <1>5, PublishedKept DEF Tag, Inv

\* A step of a build keeps the gates when it adds no foreign wheel.
LEMMA BuildGated ==
    ASSUME Inv, NEW from, NEW to \in Phases \ {"idle", "verified"}, Step(from, to),
           \A p \in PythonVersions :
              /\ stage'.wheels[p] = stage.wheels[p] \/ OfSource(stage'.wheels[p])
              /\ \/ release'.wheel[p] \in {release.wheel[p], stage.wheels[p]}
                 \/ OfSource(release'.wheel[p])
    PROVE  Gated' /\ PublishedLoads'
<1>1. UNCHANGED <<source, workflow, published>> /\ phase' = to
  BY DEF Step
<1>2. workflow => MetadataOK(source)'
  BY <1>1 DEF Inv, Gated, MetadataOK
<1>3. ASSUME workflow, NEW p \in PythonVersions
      PROVE  OfSource(stage.wheels[p])' /\ OfSource(release.wheel[p])'
  <2>1. OfSource(stage.wheels[p]) /\ OfSource(release.wheel[p])
    BY <1>3 DEF Inv, Gated
  <2>2. OfSource(stage'.wheels[p]) /\ OfSource(release'.wheel[p])
    BY <2>1
  <2> QED BY <1>1, <2>2 DEF OfSource
<1> QED BY <1>1, <1>2, <1>3, PublishedKept DEF Gated

-----------------------------------------------------------------------------
\* cmake --install puts the built plugin into the stage.
LEMMA InstallNativeInv == ASSUME Inv, InstallNative PROVE Inv'
<1> USE DEF Step
<1>0. /\ source \in Sources /\ stage \in StageType /\ release \in ReleaseType
      /\ phase = "native" /\ phase' = "bridge" /\ source' = source
  BY DEF Inv, Shape, InstallNative
<1>1. Shape'
  BY <1>0, SourceType DEF Inv, Shape, InstallNative, Installed, StageType, MaybeFile, Phases
<1>2. Leftovers'
  BY <1>0 DEF Inv, InstallNative, Leftovers, Single, Named, StageType
<1>3. Fresh'
  BY <1>0 DEF InstallNative, Installed, Fresh, Built, StageType, PastNative, PastBridge, PastBundle, PastRaw, PastWheel,
         PastManifest, PastZip, PastSums
<1>4. Gated' /\ PublishedLoads'
  BY <1>0, BuildGated DEF InstallNative, Phases, StageType
<1> QED BY <1>1, <1>2, <1>3, <1>4 DEF Inv

\* ... and the bridge.
LEMMA InstallBridgeInv == ASSUME Inv, InstallBridge PROVE Inv'
<1> USE DEF Step
<1>0. /\ source \in Sources /\ stage \in StageType /\ release \in ReleaseType
      /\ phase = "bridge" /\ phase' = "make wheel" /\ source' = source
  BY DEF Inv, Shape, InstallBridge
<1>1. Shape'
  BY <1>0, SourceType DEF Inv, Shape, InstallBridge, Installed, StageType, MaybeFile, Phases
<1>2. Leftovers'
  BY <1>0 DEF Inv, InstallBridge, Leftovers, Single, Named, StageType
<1>3. Fresh'
  BY <1>0 DEF Inv, InstallBridge, Installed, Fresh, Built, StageType, PastNative, PastBridge, PastBundle, PastRaw, PastWheel,
         PastManifest, PastZip, PastSums
<1>4. Gated' /\ PublishedLoads'
  BY <1>0, BuildGated DEF InstallBridge, Phases, StageType
<1> QED BY <1>1, <1>2, <1>3, <1>4 DEF Inv

\* The command wheel is written to the release directory.
LEMMA MakeWheelInv == ASSUME Inv, MakeWheel PROVE Inv'
<1> USE DEF Step
<1>0. /\ source \in Sources /\ stage \in StageType /\ release \in ReleaseType
      /\ phase = "make wheel" /\ phase' = "bundle wheel" /\ source' = source
  BY DEF Inv, Shape, MakeWheel
<1>a. NewWheel \in Wheel /\ Single(NewWheel) /\ OfSource(NewWheel) /\ source.wheel \in PythonVersions
  BY <1>0, NewWheelGood, SourceType DEF Inv
<1>1. Shape'
  BY <1>0, <1>a DEF Inv, Shape, MakeWheel, ReleaseType, Wheels, MaybeFile, Phases
<1>2. Leftovers'
  <2>1. \A p \in PythonVersions : release'.wheel[p] \in {release.wheel[p], NewWheel}
    BY <1>0, <1>a DEF MakeWheel, ReleaseType, Wheels
  <2>2. release'.raw = release.raw /\ stage' = stage
    BY <1>0 DEF MakeWheel, ReleaseType
  <2> QED BY <1>a, <2>1, <2>2 DEF Inv, Leftovers, Single, Named
<1>3. Fresh'
  BY <1>0 DEF Inv, MakeWheel, Fresh, Built, PastNative, PastBridge, PastBundle, PastRaw, PastWheel,
         PastManifest, PastZip, PastSums
<1>4. Gated' /\ PublishedLoads'
  <2>1. \A p \in PythonVersions : release'.wheel[p] \in {release.wheel[p], NewWheel}
    BY <1>0, <1>a DEF MakeWheel, ReleaseType, Wheels
  <2> QED BY <1>0, <1>a, <2>1, BuildGated DEF MakeWheel, Phases
<1> QED BY <1>1, <1>2, <1>3, <1>4 DEF Inv

\* ... and into the stage.
LEMMA BundleWheelInv == ASSUME Inv, BundleWheel PROVE Inv'
<1> USE DEF Step
<1>0. /\ source \in Sources /\ stage \in StageType /\ release \in ReleaseType
      /\ phase = "bundle wheel" /\ phase' = "raw" /\ source' = source
  BY DEF Inv, Shape, BundleWheel
<1>a. NewWheel \in Wheel /\ Single(NewWheel) /\ OfSource(NewWheel) /\ source.wheel \in PythonVersions
  BY <1>0, NewWheelGood, SourceType DEF Inv
<1>1. Shape'
  BY <1>0, <1>a DEF Inv, Shape, BundleWheel, StageType, Wheels, MaybeFile, Phases
<1>2. Leftovers'
  <2>1. \A p \in PythonVersions : stage'.wheels[p] \in {stage.wheels[p], NewWheel}
    BY <1>0, <1>a DEF BundleWheel, StageType, Wheels
  <2> QED BY <1>a, <2>1 DEF Inv, BundleWheel, Leftovers, Single, Named
<1>3. Fresh'
  <2>1. stage'.wheels[source.wheel] = NewWheel
    BY <1>0, <1>a DEF BundleWheel, StageType, Wheels
  <2>2. stage'.native = stage.native /\ stage'.bridge = stage.bridge
    BY <1>0 DEF BundleWheel, StageType
  <2>3. NewWheel' = NewWheel /\ Built' = Built
    BY <1>0, <2>2 DEF NewWheel, Built
  <2> QED BY <1>0, <2>1, <2>2, <2>3 DEF Inv, Fresh, PastNative, PastBridge, PastBundle, PastRaw, PastWheel,
         PastManifest, PastZip, PastSums
<1>4. Gated' /\ PublishedLoads'
  <2>1. \A p \in PythonVersions : stage'.wheels[p] \in {stage.wheels[p], NewWheel}
    BY <1>0, <1>a DEF BundleWheel, StageType, Wheels
  <2> QED BY <1>0, <1>a, <2>1, BuildGated DEF BundleWheel, Phases
<1> QED BY <1>1, <1>2, <1>3, <1>4 DEF Inv

\* package_release copies the plugin under the name of the release.
LEMMA CopyRawInv == ASSUME Inv, CopyRaw PROVE Inv'
<1> USE DEF Step
<1>0. /\ source \in Sources /\ stage \in StageType /\ release \in ReleaseType
      /\ phase = "raw" /\ phase' = "wheel" /\ source' = source
  BY DEF Inv, Shape, CopyRaw
<1>a. source.release \in Releases /\ stage.native = Built
  BY <1>0, SourceType DEF Inv, Fresh, PastNative, PastBridge, PastBundle
<1>1. Shape'
  BY <1>0, <1>a DEF Inv, Shape, CopyRaw, ReleaseType, StageType, Phases
<1>2. Leftovers'
  <2>1. \A v \in Releases : release'.raw[v] = IF v = source.release THEN Built ELSE release.raw[v]
    BY <1>0, <1>a DEF CopyRaw, ReleaseType
  <2>2. release'.wheel = release.wheel /\ stage' = stage
    BY <1>0 DEF CopyRaw, ReleaseType
  <2> QED BY <2>1, <2>2 DEF Inv, Leftovers, Single, Named, Built
<1>3. Fresh'
  <2>1. release'.raw[source.release] = Built /\ stage' = stage
    BY <1>0, <1>a DEF CopyRaw, ReleaseType
  <2>2. NewWheel' = NewWheel /\ Built' = Built
    BY <1>0, <2>1 DEF NewWheel, Built
  <2> QED BY <1>0, <2>1, <2>2 DEF Inv, Fresh, PastNative, PastBridge, PastBundle, PastRaw, PastWheel,
         PastManifest, PastZip, PastSums
<1>4. Gated' /\ PublishedLoads'
  BY <1>0, BuildGated DEF CopyRaw, Phases, ReleaseType
<1> QED BY <1>1, <1>2, <1>3, <1>4 DEF Inv

\* The bundled wheel becomes the standalone one.
LEMMA CopyWheelInv == ASSUME Inv, CopyWheel PROVE Inv'
<1> USE DEF Step
<1>0. /\ source \in Sources /\ stage \in StageType /\ release \in ReleaseType
      /\ phase = "wheel" /\ phase' = "manifest" /\ source' = source
  BY DEF Inv, Shape, CopyWheel
<1>a. Pep440[source.release] \in PythonVersions
  BY <1>0, SourceType
<1>b. /\ release'.raw = release.raw /\ stage' = stage
      /\ \A p \in PythonVersions : release'.wheel[p] \in {release.wheel[p], stage.wheels[p]}
      /\ release'.wheel[Pep440[source.release]] = stage.wheels[Pep440[source.release]]
  BY <1>0, <1>a DEF CopyWheel, ReleaseType, Wheels
<1>1. Shape'
  BY <1>0, <1>a DEF Inv, Shape, CopyWheel, ReleaseType, StageType, Wheels, Phases
<1>2. Leftovers'
  BY <1>a, <1>b DEF Inv, Leftovers, Single, Named
<1>3. Fresh'
  <2>1. NewWheel' = NewWheel /\ Built' = Built
    BY <1>0, <1>b DEF NewWheel, Built
  <2> QED BY <1>0, <1>a, <1>b, <2>1 DEF Inv, Fresh, PastNative, PastBridge, PastBundle, PastRaw, PastWheel,
         PastManifest, PastZip, PastSums
<1>4. Gated' /\ PublishedLoads'
  BY <1>0, <1>b, BuildGated DEF CopyWheel, Phases
<1> QED BY <1>1, <1>2, <1>3, <1>4 DEF Inv

\* The manifest declares the files of the stage.
LEMMA WriteManifestInv == ASSUME Inv, WriteManifest PROVE Inv'
<1> USE DEF Step
<1>0. /\ source \in Sources /\ stage \in StageType /\ release \in ReleaseType
      /\ phase = "manifest" /\ phase' = "zip" /\ source' = source
  BY DEF Inv, Shape, WriteManifest
<1>a. /\ stage' = [stage EXCEPT !.manifest = [version |-> source.release, files |-> Files]]
      /\ stage'.manifest = [version |-> source.release, files |-> Files]
      /\ stage'.native = stage.native /\ stage'.bridge = stage.bridge
      /\ stage'.wheels = stage.wheels
      /\ [version |-> source.release, files |-> Files] \in Manifest
  BY <1>0, SourceType DEF WriteManifest, Declared, StageType, Manifest, Files, Payload
<1>1. Shape'
  BY <1>0, <1>a DEF Inv, Shape, WriteManifest, StageType, MaybeFile, Phases
<1>2. Leftovers'
  BY <1>a DEF Inv, WriteManifest, Leftovers, Single, Named
<1>3. Fresh'
  <2>1. NewWheel' = NewWheel /\ Built' = Built /\ Files' = Files /\ release' = release
    BY <1>0, <1>a DEF NewWheel, Built, Files, WriteManifest
  <2> QED BY <1>0, <1>a, <2>1 DEF Inv, Fresh, PastNative, PastBridge, PastBundle, PastRaw, PastWheel,
         PastManifest, PastZip, PastSums
<1>4. Gated' /\ PublishedLoads'
  BY <1>0, <1>a, BuildGated DEF WriteManifest, Phases
<1> QED BY <1>1, <1>2, <1>3, <1>4 DEF Inv

\* The ZIP is written with its manifest.
LEMMA WriteZipInv == ASSUME Inv, WriteZip PROVE Inv'
<1> USE DEF Step
<1>0. /\ source \in Sources /\ stage \in StageType /\ release \in ReleaseType
      /\ phase = "zip" /\ phase' = "sums" /\ source' = source
  BY DEF Inv, Shape, WriteZip
<1>a. /\ source.release \in Releases
      /\ [manifest |-> stage.manifest, files |-> Files] \in Zip
  <2>1. Files \in Payload
    BY <1>0 DEF StageType, Files, Payload
  <2>2. stage.manifest = [version |-> source.release, files |-> Files]
    BY <1>0 DEF Inv, Fresh, PastManifest
  <2> QED BY <1>0, <2>1, <2>2, SourceType DEF Manifest, Zip
<1>b. /\ release'.raw = release.raw /\ release'.wheel = release.wheel /\ stage' = stage
      /\ release'.zip[source.release] = [manifest |-> stage.manifest, files |-> Files]
  BY <1>0, <1>a DEF WriteZip, ReleaseType
<1>1. Shape'
  BY <1>0, <1>a DEF Inv, Shape, WriteZip, ReleaseType, MaybeFile, Phases
<1>2. Leftovers'
  BY <1>b DEF Inv, Leftovers, Single, Named
<1>3. Fresh'
  <2>1. NewWheel' = NewWheel /\ Built' = Built /\ Files' = Files
    BY <1>0, <1>b DEF NewWheel, Built, Files
  <2> QED BY <1>0, <1>b, <2>1 DEF Inv, Fresh, PastNative, PastBridge, PastBundle, PastRaw, PastWheel,
         PastManifest, PastZip, PastSums
<1>4. Gated' /\ PublishedLoads'
  BY <1>0, <1>b, BuildGated DEF WriteZip, Phases
<1> QED BY <1>1, <1>2, <1>3, <1>4 DEF Inv

\* The checksums are of the files as they are.
LEMMA WriteSumsInv == ASSUME Inv, WriteSums PROVE Inv'
<1> USE DEF Step
<1>0. /\ source \in Sources /\ stage \in StageType /\ release \in ReleaseType
      /\ phase = "sums" /\ phase' = "done" /\ source' = source
  BY DEF Inv, Shape, WriteSums
<1> DEFINE v == source.release
           sums == [raw |-> release.raw[v], zip |-> release.zip[v], wheel |-> release.wheel[Pep440[v]]]
<1>a. v \in Releases /\ sums \in Sums
  BY <1>0, SourceType DEF ReleaseType, Wheels, Sums
<1>b. /\ release'.raw = release.raw /\ release'.wheel = release.wheel /\ stage' = stage
      /\ release'.zip = release.zip /\ release'.sums[v] = sums
  BY <1>0, <1>a DEF WriteSums, ReleaseType
<1>1. Shape'
  BY <1>0, <1>a DEF Inv, Shape, WriteSums, ReleaseType, MaybeFile, Phases
<1>2. Leftovers'
  BY <1>b DEF Inv, Leftovers, Single, Named
<1>3. Fresh'
  <2>1. NewWheel' = NewWheel /\ Built' = Built /\ Files' = Files
    BY <1>0, <1>b DEF NewWheel, Built, Files
  <2> QED BY <1>0, <1>b, <2>1 DEF Inv, Fresh, PastNative, PastBridge, PastBundle, PastRaw, PastWheel,
         PastManifest, PastZip, PastSums
<1>4. Gated' /\ PublishedLoads'
  BY <1>0, <1>b, BuildGated DEF WriteSums, Phases
<1> QED BY <1>1, <1>2, <1>3, <1>4 DEF Inv

\* A torn file is no wheel and no plugin, whichever a killed step was writing.
LEMMA StopInv == ASSUME Inv, Stop PROVE Inv'
<1>0. /\ source \in Sources /\ stage \in StageType /\ release \in ReleaseType
      /\ source' = source /\ UNCHANGED published
  BY DEF Inv, Shape, Stop
<1>1. /\ source.release \in Releases /\ source.wheel \in PythonVersions
      /\ Pep440[source.release] \in PythonVersions
  BY <1>0, SourceType
<1>2. TornStage \in StageType
  BY <1>0, <1>1 DEF TornStage, StageType, Wheels, MaybeFile
<1>3. TornRelease \in ReleaseType
  BY <1>0, <1>1 DEF TornRelease, ReleaseType, Wheels, MaybeFile
<1>4. \A p \in PythonVersions : /\ TornStage.wheels[p] \in {stage.wheels[p], Torn}
                                /\ TornRelease.wheel[p] \in {release.wheel[p], Torn}
  BY <1>0, <1>1 DEF TornStage, TornRelease, StageType, ReleaseType, Wheels
<1>5. \A v \in Releases : TornRelease.raw[v] \in {release.raw[v], Torn}
  BY <1>0, <1>1 DEF TornRelease, ReleaseType
<1>6. \/ stage' = stage /\ release' = release
      \/ stage' = TornStage /\ release' = TornRelease
  BY DEF Stop
<1>7. Leftovers'
  <2>1. ASSUME NEW p \in PythonVersions
        PROVE  Single(stage'.wheels[p]) /\ Single(release'.wheel[p])
    <3>1. Single(Torn) /\ Single(stage.wheels[p]) /\ Single(release.wheel[p])
      BY NoContent DEF Single, Inv, Leftovers
    <3> QED BY <1>4, <1>6, <3>1
  <2>2. ASSUME NEW v \in Releases PROVE Named(release'.raw[v], v)
    <3>1. Named(Torn, v) /\ Named(release.raw[v], v)
      BY NoContent DEF Named, Inv, Leftovers
    <3> QED BY <1>5, <1>6, <3>1
  <2> QED BY <2>1, <2>2 DEF Leftovers, Single, Named
<1>8. stage' \in StageType /\ release' \in ReleaseType
  BY <1>0, <1>2, <1>3, <1>6
<1> QED BY <1>0, <1>7, <1>8, IdleKeeps DEF Stop

LEMMA FinishInv == ASSUME Inv, Finish PROVE Inv'
<1>1. Leftovers'
  BY DEF Inv, Finish, Leftovers, Single, Named
<1> QED BY <1>1, IdleKeeps DEF Inv, Shape, Finish

\* Only what is accepted is verified.
LEMMA VerifyInv == ASSUME Inv, Verify PROVE Inv'
<1>1. Leftovers' /\ UNCHANGED <<source, stage, release, published>>
  BY DEF Inv, Verify, Leftovers, Single, Named
<1>2. CASE phase' = "idle" /\ workflow' = FALSE
  BY <1>1, <1>2, IdleKeeps DEF Inv, Shape
<1>3. CASE Accepts(source.release) /\ phase' = "verified" /\ workflow' = workflow
  <2>1. Shape'
    BY <1>1, <1>3 DEF Inv, Shape, Phases
  <2>2. Accepts(source.release)'
    BY <1>1, <1>3 DEF Accepts, Assets, Whole, Declares, Agree
  <2>3. NewWheel' = NewWheel /\ Built' = Built /\ Files' = Files
    BY <1>1 DEF NewWheel, Built, Files
  <2>4. Fresh'
    BY <1>1, <1>3, <2>3 DEF Inv, Fresh, Verify, PastNative, PastBridge, PastBundle, PastRaw,
       PastWheel, PastManifest, PastZip, PastSums
  <2>5. Gated'
    BY <1>1, <1>3, <2>2 DEF Inv, Gated, Verify, MetadataOK, OfSource
  <2> QED BY <1>1, <2>1, <2>4, <2>5, PublishedKept DEF Inv
<1> QED BY <1>2, <1>3 DEF Verify

LEMMA PublishInv == ASSUME Inv, Publish PROVE Inv'
<1>1. /\ Leftovers' /\ UNCHANGED <<source, stage, release>>
      /\ phase' \in {"idle", "released"} /\ workflow' = FALSE
  BY DEF Inv, Publish, Leftovers, Single, Named
<1>2. CASE UNCHANGED published
  BY <1>1, <1>2, IdleKeeps DEF Inv, Shape
<1>3. CASE published' = [published EXCEPT ![source.release] = Assets(source.release)]
  <2>1. PublishedLoads'
    <3> SUFFICES ASSUME NEW v \in Releases, published'[v] # None
                 PROVE  /\ OneBuild(published'[v], v)
                        /\ ProviderLoads(published'[v].wheel) /\ BridgeLoads(published'[v].wheel)
                        /\ Stable(v) => AdapterLoads(published'[v].wheel)
      BY DEF PublishedLoads, OneBuild, ProviderLoads, BridgeLoads, AdapterLoads
    <3>1. CASE v # source.release
      <4>1. published'[v] = published[v]
        BY <1>3, <3>1
      <4> QED BY <4>1 DEF Inv, PublishedLoads
    <3>2. CASE v = source.release
      <4>1. published'[v] = Assets(v)
        BY <1>3, <3>2 DEF Inv, Shape
      <4>2. phase = "verified"
        BY DEF Publish
      <4> QED BY <3>2, <4>1, <4>2, GatedLoads
    <3> QED BY <3>1, <3>2
  <2>2. Shape'
    <3>1. PICK content : published \in [Releases -> content]
      BY DEF Inv, Shape
    <3>2. published' \in [Releases -> content \cup {Assets(source.release)}]
      BY <1>3, <3>1
    <3> QED BY <1>1, <3>2 DEF Inv, Shape, Phases
  <2>3. Fresh' /\ Gated'
    BY <1>1 DEF Fresh, Gated, PastNative, PastBridge, PastBundle, PastRaw, PastWheel,
       PastManifest, PastZip, PastSums
  <2> QED BY <1>1, <2>1, <2>2, <2>3 DEF Inv
<1> QED BY <1>2, <1>3 DEF Publish

LEMMA StutterInv == ASSUME Inv, UNCHANGED vars PROVE Inv'
<1> USE DEF vars
<1>1. Shape' /\ Leftovers'
  BY DEF Inv, Shape, Leftovers, Single, Named
<1>2. NewWheel' = NewWheel /\ Built' = Built /\ Files' = Files
  BY DEF NewWheel, Built, Files
<1>3. Fresh'
  BY <1>2 DEF Inv, Fresh
<1>4. Gated'
  BY DEF Inv, Gated, MetadataOK, OfSource, Accepts, Assets, Whole, Declares, Agree
<1> QED BY <1>1, <1>3, <1>4, PublishedKept DEF Inv

LEMMA NextInv == Inv /\ [Next]_vars => Inv'
BY EditInv, CleanInv, TagInv, InstallNativeInv, InstallBridgeInv, MakeWheelInv, BundleWheelInv,
   CopyRawInv, CopyWheelInv, WriteManifestInv, WriteZipInv, WriteSumsInv, StopInv, FinishInv,
   VerifyInv, PublishInv, StutterInv DEF Next

LEMMA InvAlways == Spec => []Inv
BY InitInv, NextInv, PTL DEF Spec

-----------------------------------------------------------------------------
\* Every file is what belongs there, or absent or torn, however many builds
\* were killed.
THEOREM TypeCorrect == Spec => []TypeOK
<1>1. Inv => TypeOK
  BY DEF Inv, Shape, StageType, ReleaseType, TypeOK, Wheels
<1> QED BY InvAlways, <1>1, PTL

\* verify_release_assets accepts only files of one build and of the version
\* asked for, whatever was left in the directories.
THEOREM OneBuildAccepted == Spec => []AcceptedIsOneBuild
<1>1. Inv => AcceptedIsOneBuild
  BY AcceptedOne DEF Inv, AcceptedIsOneBuild
<1> QED BY InvAlways, <1>1, PTL

\* A stable release whose versions agree is accepted once its build came to
\* its end, over any leftovers: package_release and verify_release_assets
\* ask for the same files.
THEOREM FinishedAccepted == Spec => []FinishedIsAccepted
<1>1. ASSUME Inv, phase = "done", MetadataOK(source), source.key = Pep440[source.release],
             Stable(source.release)
      PROVE  Accepts(source.release)
  <2> DEFINE v == source.release
             name == Pep440[v]
             a == Assets(v)
  <2>0. /\ source \in Sources /\ stage \in StageType /\ release \in ReleaseType
        /\ name = v /\ source.wheel = name /\ source.key = v
    BY <1>1 DEF Inv, Shape, MetadataOK, Stable
  <2>1. /\ v \in Releases /\ name \in PythonVersions /\ Built \in Binary
    BY <2>0, SourceType
  <2>2. /\ stage.native = Built /\ stage.bridge = Built
        /\ stage.wheels[name] = NewWheel
        /\ release.raw[v] = Built /\ release.wheel[name] = stage.wheels[name]
        /\ stage.manifest = [version |-> v, files |-> Files]
        /\ release.zip[v] = [manifest |-> stage.manifest, files |-> Files]
        /\ release.sums[v] =
              [raw |-> release.raw[v], zip |-> release.zip[v], wheel |-> release.wheel[name]]
    BY <1>1, <2>0 DEF Inv, Fresh, PastNative, PastBridge, PastBundle, PastRaw, PastWheel,
       PastManifest, PastZip, PastSums
  <2>3. NewWheel \in Wheel
    BY <2>0, <2>2, SourceType DEF NewWheel, Wheel
  <2>4. Files \in Payload /\ Files.bridge = Built /\ Files.wheels[name] = NewWheel
    BY <2>0, <2>2 DEF Files, Payload, StageType
  <2>5. stage.manifest \in Manifest
    BY <2>1, <2>2, <2>4 DEF Manifest
  <2>6. release.zip[v] \in Zip
    BY <2>2, <2>4, <2>5 DEF Zip
  <2>7. release.sums[v] \in Sums
    BY <2>0, <2>1, <2>2, <2>3, <2>6 DEF Sums, MaybeFile
  <2>8. a.raw = Built /\ a.wheel = NewWheel /\ a.zip = release.zip[v] /\ a.sums = release.sums[v]
    BY <2>2 DEF Assets
  <2>9. Whole(a)
    BY <2>1, <2>2, <2>3, <2>6, <2>7, <2>8 DEF Whole
  <2>10. Declares(release.zip[v], v)
    BY <2>2 DEF Declares
  <2>11. a.wheel.declared = v /\ a.wheel.native = Built /\ a.wheel.bridge = Built
    BY <2>0, <2>2, <2>8 DEF NewWheel
  <2>12. a.zip.files.bridge = Built /\ a.zip.files.wheels[name] = NewWheel
    BY <2>2, <2>4, <2>8
  <2> HIDE DEF a
  <2>13. Agree(a, v)
    BY <2>8, <2>11, <2>12 DEF Agree
  <2> QED BY <2>9, <2>10, <2>13 DEF Accepts, a
<1>2. Inv => FinishedIsAccepted
  BY <1>1 DEF FinishedIsAccepted
<1> QED BY InvAlways, <1>2, PTL

\* What the workflow published is one build, and the loaders of its wheel
\* take it, with the exception the property names.
THEOREM PublishedWheelLoads == Spec => []PublishedLoads
<1>1. Inv => PublishedLoads
  BY DEF Inv
<1> QED BY InvAlways, <1>1, PTL

\* A prerelease that states its versions as the gates ask is refused once it
\* is built, whatever else is: the wheel declares the PEP 440 name.
PrereleaseRefused ==
    phase = "done" /\ MetadataOK(source) /\ source.key = Pep440[source.release]
      /\ ~Stable(source.release)
        => ~Accepts(source.release)

THEOREM PrereleaseAlwaysRefused == Spec => []PrereleaseRefused
<1>1. ASSUME Inv, phase = "done", MetadataOK(source), source.key = Pep440[source.release],
             ~Stable(source.release), Accepts(source.release)
      PROVE  FALSE
  <2> DEFINE v == source.release
  <2>1. release.wheel[Pep440[v]] = NewWheel
    BY <1>1 DEF Inv, Fresh, MetadataOK, PastBundle, PastRaw, PastWheel, PastManifest, PastZip,
       PastSums
  <2>2. NewWheel.declared = source.key
    BY DEF NewWheel
  <2>3. Assets(v).wheel.declared = v
    BY <1>1 DEF Accepts, Agree
  <2>4. Assets(v).wheel = release.wheel[Pep440[v]]
    BY DEF Assets
  <2> QED BY <1>1, <2>1, <2>2, <2>3, <2>4 DEF Stable
<1>2. Inv => PrereleaseRefused
  BY <1>1 DEF PrereleaseRefused
<1> QED BY InvAlways, <1>2, PTL

-----------------------------------------------------------------------------
\* A runner's stage holds no wheel but that of its source.
Alone == workflow => \A p \in PythonVersions \ {source.wheel} : stage.wheels[p] = None

LEMMA NextAlone == ASSUME Inv, Alone, [Next]_vars PROVE Alone'
<1>1. CASE Edit \/ Clean
  <2>1. ~workflow /\ workflow' = workflow
    BY <1>1 DEF Inv, Gated, Edit, Clean
  <2> QED BY <2>1 DEF Alone
<1>2. CASE Tag
  BY <1>2 DEF Tag, EmptyStage, Alone
<1>3. CASE InstallNative \/ InstallBridge \/ WriteManifest
  <2>1. stage'.wheels = stage.wheels /\ UNCHANGED <<source, workflow>>
    BY <1>3 DEF InstallNative, InstallBridge, WriteManifest, Step, Inv, Shape, StageType
  <2> QED BY <2>1 DEF Alone
<1>4. CASE BundleWheel
  <2>1. /\ UNCHANGED <<source, workflow>>
        /\ \A p \in PythonVersions \ {source.wheel} : stage'.wheels[p] = stage.wheels[p]
    BY <1>4 DEF BundleWheel, Step, Inv, Shape, StageType, Wheels
  <2> QED BY <2>1 DEF Alone
<1>5. CASE MakeWheel \/ CopyRaw \/ CopyWheel \/ WriteZip \/ WriteSums \/ UNCHANGED vars
  <2>1. stage' = stage /\ UNCHANGED <<source, workflow>>
    BY <1>5 DEF MakeWheel, CopyRaw, CopyWheel, WriteZip, WriteSums, Step, vars
  <2> QED BY <2>1 DEF Alone
<1>6. CASE Stop \/ Finish \/ Verify \/ Publish
  <2>1. \/ ~workflow'
        \/ stage' = stage /\ UNCHANGED <<source, workflow>>
    BY <1>6 DEF Stop, Finish, Verify, Publish
  <2> QED BY <2>1 DEF Alone
<1> QED BY <1>1, <1>2, <1>3, <1>4, <1>5, <1>6 DEF Next

LEMMA AloneAlways == Spec => [](Inv /\ Alone)
<1>1. Init => Alone
  BY DEF Init, Alone
<1> QED BY InitInv, NextInv, NextAlone, <1>1, PTL DEF Spec

\* What a runner verified is what an undisturbed build makes of its source.
LEMMA VerifiedIsBuild ==
    ASSUME Inv, Alone, phase = "verified"
    PROVE  /\ Assets(source.release) = Atomic!Build(source)
           /\ Atomic!Publishable(source)
<1> DEFINE v == source.release
           name == Pep440[v]
           wheels == [p \in PythonVersions |-> IF p = source.wheel THEN NewWheel ELSE None]
<1>1. /\ stage \in StageType /\ release \in ReleaseType /\ source \in Sources
      /\ workflow /\ MetadataOK(source) /\ Accepts(v) /\ source.wheel = name
  BY DEF Inv, Shape, Gated, MetadataOK
<1>2. /\ stage.native = Built /\ stage.bridge = Built
      /\ stage.wheels[name] = NewWheel /\ release.raw[v] = Built
      /\ release.wheel[name] = NewWheel
      /\ release.zip[v] = [manifest |-> [version |-> v, files |-> Files], files |-> Files]
      /\ release.sums[v] =
            [raw |-> release.raw[v], zip |-> release.zip[v], wheel |-> release.wheel[name]]
  BY <1>1 DEF Inv, Fresh, PastNative, PastBridge, PastBundle, PastRaw, PastWheel,
     PastManifest, PastZip, PastSums
<1>3. stage.wheels = wheels
  <2>1. stage.wheels \in [PythonVersions -> MaybeFile(Wheel)]
    BY <1>1 DEF StageType, Wheels
  <2>2. ASSUME NEW p \in PythonVersions PROVE stage.wheels[p] = wheels[p]
    BY <1>1, <1>2 DEF Alone
  <2> HIDE DEF wheels
  <2>3. DOMAIN wheels = PythonVersions /\ wheels = [p \in PythonVersions |-> wheels[p]]
    BY DEF wheels
  <2> QED BY <2>1, <2>2, <2>3
<1>4. NewWheel = [native |-> Built, bridge |-> Built, declared |-> source.key,
                  plugin |-> source.plugin, package |-> source.package,
                  revision |-> source.revision]
  BY <1>2 DEF NewWheel
<1>5. Files = [bridge |-> Built, manifest |-> FALSE, wheels |-> wheels]
  BY <1>2, <1>3 DEF Files
<1>6. Assets(v) = [raw |-> Built, zip |-> release.zip[v], wheel |-> NewWheel,
                   sums |-> [raw |-> Built, zip |-> release.zip[v], wheel |-> NewWheel]]
  BY <1>2 DEF Assets
<1>7. Assets(v) = Atomic!Build(source)
  BY <1>2, <1>4, <1>5, <1>6 DEF Atomic!Build, Built
<1>8. Assets(v).wheel.declared = v
  BY <1>1 DEF Accepts, Agree
<1>9. source.key = v
  BY <1>4, <1>6, <1>8
<1> QED BY <1>1, <1>7, <1>9 DEF Atomic!Publishable, MetadataOK

\* Whatever is built, killed, left behind and built again, the releases are
\* published as if each had been built once, undisturbed and in one step.
THEOREM ImplementsAtomicRelease == Spec => Implements
<1>1. Init => Atomic!Init
  BY DEF Init, Atomic!Init
<1>2. ASSUME Inv, Alone, [Next]_vars PROVE [Atomic!Next]_<<source, published>>
  <2>1. CASE Publish
    <3>1. CASE UNCHANGED published
      BY <2>1, <3>1 DEF Publish
    <3>2. CASE /\ published[source.release] = None
               /\ published' = [published EXCEPT ![source.release] = Assets(source.release)]
      <4>1. phase = "verified" /\ UNCHANGED source
        BY <2>1 DEF Publish
      <4>2. Atomic!Publish
        BY <3>2, <4>1, <1>2, VerifiedIsBuild DEF Atomic!Publish
      <4> QED BY <4>2 DEF Atomic!Next
    <3> QED BY <2>1, <3>1, <3>2 DEF Publish
  <2>2. CASE Edit \/ Tag
    BY <2>2 DEF Edit, Tag, Atomic!Next, Atomic!Checkout
  <2>3. CASE \/ Clean \/ InstallNative \/ InstallBridge \/ MakeWheel \/ BundleWheel
             \/ CopyRaw \/ CopyWheel \/ WriteManifest \/ WriteZip \/ WriteSums
             \/ Stop \/ Finish \/ Verify \/ UNCHANGED vars
    BY <2>3 DEF Clean, InstallNative, InstallBridge, MakeWheel, BundleWheel, CopyRaw, CopyWheel,
       WriteManifest, WriteZip, WriteSums, Step, Stop, Finish, Verify, vars
  <2> QED BY <1>2, <2>1, <2>2, <2>3 DEF Next
<1> QED BY <1>1, <1>2, AloneAlways, PTL DEF Spec, Implements, Atomic!Spec

\* What is published of a version is the build of a source of that version.
BuiltOfSource ==
    \A v \in Releases : published[v] # None =>
        \E s \in Sources : /\ s.release = v /\ Atomic!Publishable(s)
                           /\ published[v] = Atomic!Build(s)

\* So it is in the abstract pipeline, where nothing else can be published.
LEMMA AtomicBuilds == Atomic!Spec => []BuiltOfSource
<1> DEFINE I == /\ source \in Sources /\ BuiltOfSource
                /\ \E content : published \in [Releases -> content]
<1>1. Atomic!Init => I
  <2>1. ASSUME Atomic!Init PROVE BuiltOfSource /\ \E content : published \in [Releases -> content]
    <3>1. published = [v \in Releases |-> None]
      BY <2>1 DEF Atomic!Init
    <3>2. published \in [Releases -> {None}]
      BY <3>1
    <3> QED BY <3>1, <3>2 DEF BuiltOfSource
  <2> QED BY <2>1 DEF Atomic!Init
<1>2. ASSUME I, [Atomic!Next]_<<source, published>> PROVE I'
  <2>1. CASE Atomic!Checkout \/ UNCHANGED <<source, published>>
    <3>1. source' \in Sources /\ published' = published
      BY <1>2, <2>1 DEF Atomic!Checkout
    <3>2. BuiltOfSource'
      BY <1>2, <3>1 DEF BuiltOfSource
    <3> QED BY <1>2, <3>1, <3>2
  <2>2. CASE Atomic!Publish
    <3>1. PICK content : published \in [Releases -> content]
      BY <1>2
    <3>2. published' \in [Releases -> content \cup {Atomic!Build(source)}]
      BY <2>2, <3>1 DEF Atomic!Publish
    <3>3. ASSUME NEW v \in Releases
          PROVE  \/ published'[v] = published[v]
                 \/ v = source.release /\ published'[v] = Atomic!Build(source)
      BY <2>2, <3>1 DEF Atomic!Publish
    <3>4. source \in Sources /\ source' = source /\ Atomic!Publishable(source)
      BY <1>2, <2>2 DEF Atomic!Publish
    <3>5. BuiltOfSource'
      <4>1. ASSUME NEW v \in Releases, published'[v] # None
            PROVE  \E s \in Sources : /\ s.release = v /\ Atomic!Publishable(s)
                                      /\ published'[v] = Atomic!Build(s)
        BY <1>2, <3>3, <3>4, <4>1 DEF BuiltOfSource
      <4> QED BY <4>1 DEF BuiltOfSource
    <3> QED BY <3>2, <3>4, <3>5
  <2> QED BY <1>2, <2>1, <2>2 DEF Atomic!Next
<1>3. I => BuiltOfSource
  OBVIOUS
<1> QED BY <1>1, <1>2, <1>3, PTL DEF Atomic!Spec

\* A published release loads for scripts that use the Python package exactly
\* if it is stable: of a prerelease, one version is always spelt wrongly.
ScriptsLoadStable ==
    \A v \in Releases : published[v] # None =>
        (AdapterLoads(published[v].wheel) <=> Stable(v))

THEOREM ScriptsLoadStableOnly == Spec => []ScriptsLoadStable
<1>1. ASSUME BuiltOfSource, NEW v \in Releases, published[v] # None
      PROVE  AdapterLoads(published[v].wheel) <=> Stable(v)
  <2>1. PICK s \in Sources : /\ s.release = v /\ Atomic!Publishable(s)
                             /\ published[v] = Atomic!Build(s)
    BY <1>1 DEF BuiltOfSource
  <2>2. published[v].wheel.bridge.version = v /\ published[v].wheel.package = Pep440[v]
    BY <2>1 DEF Atomic!Build, Atomic!Publishable
  <2> QED BY <2>2 DEF AdapterLoads, Stable
<1>2. BuiltOfSource => ScriptsLoadStable
  BY <1>1 DEF ScriptsLoadStable
<1> QED BY ImplementsAtomicRelease, AtomicBuilds, <1>2, PTL DEF Implements
=============================================================================
