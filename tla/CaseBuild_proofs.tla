--------------------------- MODULE CaseBuild_proofs ---------------------------
(***************************************************************************)
(* What holds of a compiled case, for every unit and every envelope.  The   *)
(* route of a driver enters the proofs by RouteOrder only: which step comes *)
(* before which.  The invariant CaseInv says what a build has done at each  *)
(* step; its main part is BindingsHeld, by which the bindings that are not  *)
(* on the list any more are in the case with the bytes they declare, but    *)
(* for the one file that is being copied.                                   *)
(* UneditedInv follows the envelope of a unit that nobody edits from the    *)
(* audit through the overlay to the case that is verified.                  *)
(***************************************************************************)
EXTENDS MCCorpus, TLAPS

Step == Routes[build.driver][build.at]

Rebinding == build.driver = "rebind"
Harness   == build.driver = "harness"

BeforeRecord  == {"legacy", "adapter", "overlay", "title", "sanitize", "bindings", "empirical",
                  "prune", "bind", "survey", "record"}
AfterSanitize == {"bindings", "empirical", "prune", "bind", "survey", "record", "preflight",
                  "verify"}
AfterBindings == {"prune", "bind", "survey", "record", "preflight", "verify"}
AfterEach     == {"bind", "survey", "record", "preflight", "verify"}
AfterBind     == {"survey", "record", "preflight", "verify"}
AfterSurvey   == {"record", "preflight", "verify"}

\* The next binding is an evidence file that is open, in a case whose bindings may share
\* their paths.
Copying(b) ==
  /\ Harness /\ build.phase # "check" /\ build.todo # <<>>
  /\ Head(build.todo).kind = "EVIDENCE" /\ Head(build.todo).path = b.path

Held(b) ==
  /\ b.kind = "EVIDENCE" => \E s \in Sources : FrozenAs(case.files[b.path]) = {s}
  /\ ~Harness => case.files[b.path] = b.digest

\* The list is the end of the bindings, and those before it are held.
BindingsHeld ==
  /\ Len(build.todo) <= Len(build.bindings)
  /\ \A i \in 1 .. Len(build.todo) :
       build.todo[i] = build.bindings[i + (Len(build.bindings) - Len(build.todo))]
  /\ \A i \in 1 .. Len(build.bindings) - Len(build.todo) :
       Held(build.bindings[i]) \/ Copying(build.bindings[i])

\* An evidence file is open only if its digest is of one frozen path.
OpenIsFrozen ==
  build.phase # "check" =>
    /\ build.todo # <<>>
    /\ Head(build.todo).kind = "EVIDENCE" =>
         \E s \in Sources : FrozenAs(Head(build.todo).digest) = {s}
    /\ build.phase = "copy" =>
         /\ Head(build.todo).kind = "EVIDENCE" /\ build.source \in Sources
         /\ Rebinding => case.rebound

PathsDiffer(bindings) ==
  \A i, j \in DOMAIN bindings : i # j => bindings[i].path # bindings[j].path

\* What a build has done at each step.
BuildInv ==
  /\ Step = "overlay" => case.adapter # None
  /\ Step \in BeforeRecord /\ ~Rebinding => case.bound = None
  /\ Step \in AfterSanitize /\ build.driver \in Audited => case.meta = "target"
  /\ Step \in AfterBindings /\ ~Harness => PathsDiffer(build.bindings)
  /\ Step # "bind" => build.phase = "check"
  /\ Step = "prune" => build.todo = build.bindings
  /\ Step \in AfterEach => BindingsHeld
  /\ Step = "bind" => OpenIsFrozen
  /\ Step \in AfterBind => build.todo = <<>>
  /\ Step \in AfterSurvey /\ ~Harness => Managed(case.files) \subseteq Bound(build.bindings)

CaseInv == CaseTypeOK /\ BoundManifestIsTrue /\ (Running => BuildInv)

----------------------------------------------------------------------------
(* Routes. *)

LEMMA RoutesTyped ==
  /\ Drivers = {"v08", "harness", "probe", "rebind"}
  /\ Len(Routes["v08"]) = 16 /\ Len(Routes["harness"]) = 13
  /\ Len(Routes["probe"]) = 12 /\ Len(Routes["rebind"]) = 5
BY DEF Drivers, Routes

\* y may follow x on the route of d.
Follows(d, x, y) ==
  /\ y \notin {"audit"}
  /\ y = "verify"    => x = "preflight"
  /\ y = "preflight" => x = (IF d = "harness" THEN "bind" ELSE "record")
  /\ y = "record"    => x = "survey"
  /\ y = "survey"    => x = "bind" /\ d # "harness"
  /\ y = "bind"      => x = (IF d = "harness" THEN "empirical" ELSE "prune")
  /\ y = "prune"     => x = "bindings" /\ d # "harness"
  /\ y = "bindings"  => x = (IF d = "probe" THEN "title" ELSE "sanitize")
  /\ y = "empirical" => x = "sanitize" /\ d = "harness"
  /\ y = "sanitize"  => x = "title"
  /\ y = "title"     => x = "overlay"
  /\ y = "overlay"   => x = "adapter"
  /\ y = "adapter"   => x = "legacy"
  /\ y = "legacy"    => x = "clear"
  /\ x = "bindings"  => y = "prune"
  /\ x = "empirical" => y = "bind"

LEMMA RouteOrder ==
  ASSUME NEW d \in Drivers, NEW i \in 1 .. Len(Routes[d]), i # Len(Routes[d])
  PROVE  Follows(d, Routes[d][i], Routes[d][i + 1])
<1>1. CASE d = "v08"
  <2>1. i \in 1 .. 15
    BY <1>1, RoutesTyped
  <2>2. i \in {1, 2, 3, 4, 5} \/ i \in {6, 7, 8, 9, 10} \/ i \in {11, 12, 13, 14, 15}
    BY <2>1
  <2> QED
    BY <1>1, <2>2 DEF Routes, Follows
<1>2. CASE d = "harness"
  <2>1. i \in 1 .. 12
    BY <1>2, RoutesTyped
  <2> QED
    BY <1>2, <2>1 DEF Routes, Follows
<1>3. CASE d = "probe"
  <2>1. i \in 1 .. 11
    BY <1>3, RoutesTyped
  <2> QED
    BY <1>3, <2>1 DEF Routes, Follows
<1>4. CASE d = "rebind"
  <2>1. i \in 1 .. 4
    BY <1>4, RoutesTyped
  <2> QED
    BY <1>4, <2>1 DEF Routes, Follows
<1> QED
  BY <1>1, <1>2, <1>3, <1>4, RoutesTyped

\* Where the routes begin and end.
LEMMA RouteEnds ==
  ASSUME NEW d \in Drivers
  PROVE  /\ 1 \in 1 .. Len(Routes[d])
         /\ Routes[d][1] \in {"audit", "materialize", "bindings"}
         /\ Routes[d][1] = "bindings" => d = "rebind"
         /\ Routes[d][Len(Routes[d])] \notin {"bindings", "empirical"}
<1>1. CASE d = "v08"
  BY <1>1, RoutesTyped DEF Routes
<1>2. CASE d = "harness"
  BY <1>2, RoutesTyped DEF Routes
<1>3. CASE d = "probe"
  BY <1>3, RoutesTyped DEF Routes
<1>4. CASE d = "rebind"
  BY <1>4, RoutesTyped DEF Routes
<1> QED
  BY <1>1, <1>2, <1>3, <1>4, RoutesTyped

----------------------------------------------------------------------------
(* Types. *)

BuildTyped ==
  /\ build \in [driver : Drivers \cup {None}, at : Nat, bindings : Seq(Bindings),
                 todo : Seq(Bindings), phase : {"check", "copy", "digest"},
                 source : Sources \cup {None}]
  /\ Running => build.driver \in Drivers /\ build.at \in 1 .. Len(Routes[build.driver])

CaseTyped ==
  case \in [files : [Paths -> Bytes \cup {None, Torn}], adapter : Envelopes \cup {None},
            meta : {None, "calibration", "prospective", "target"},
            bound : Seq(Bindings) \cup {None}, rebound : BOOLEAN, cut : BOOLEAN]

LEMMA IdleTyped == Idle \in [driver : Drivers \cup {None}, at : Nat, bindings : Seq(Bindings),
                             todo : Seq(Bindings), phase : {"check", "copy", "digest"},
                             source : Sources \cup {None}] /\ Idle.at = 0
<1>1. <<>> \in Seq(Bindings)
  OBVIOUS
<1> QED
  BY <1>1 DEF Idle

LEMMA NoCaseTyped ==
  NoCase \in [files : [Paths -> Bytes \cup {None, Torn}], adapter : Envelopes \cup {None},
              meta : {None, "calibration", "prospective", "target"},
              bound : Seq(Bindings) \cup {None}, rebound : BOOLEAN, cut : BOOLEAN]
BY DEF NoCase, NoFiles

\* A build that goes on is at the next step of its route.
LEMMA GoesOnward ==
  ASSUME BuildTyped, Running, Goes
  PROVE  /\ BuildTyped'
         /\ Running' =>
              /\ build' = [build EXCEPT !.at = build.at + 1]
              /\ build'.driver = build.driver /\ build'.bindings = build.bindings
              /\ build'.todo = build.todo /\ build'.phase = build.phase
              /\ Follows(build.driver, Step, Step')
<1>1. CASE AtLast
  BY <1>1, IdleTyped DEF Goes, BuildTyped, Running
<1>2. CASE ~AtLast
  <2> DEFINE d == build.driver
             n == Len(Routes[build.driver])
  <2>1. d \in Drivers /\ build.at \in 1 .. n /\ build.at # n /\ n \in Nat
    BY <1>2, RoutesTyped DEF BuildTyped, Running, AtLast
  <2>2. build' = [build EXCEPT !.at = build.at + 1]
    BY <1>2 DEF Goes
  <2>3. /\ build'.driver = d /\ build'.at = build.at + 1 /\ build'.bindings = build.bindings
        /\ build'.todo = build.todo /\ build'.phase = build.phase
    BY <2>2 DEF BuildTyped
  <2>4. build.at + 1 \in 1 .. n
    BY <2>1
  <2>5. BuildTyped'
    BY <2>1, <2>2, <2>3, <2>4 DEF BuildTyped
  <2>6. Follows(d, Step, Step')
    BY <2>1, <2>3, RouteOrder DEF Step
  <2> QED
    BY <2>2, <2>3, <2>5, <2>6
<1> QED
  BY <1>1, <1>2

\* The two steps that read the bindings go on the same way.
LEMMA ReadsOnward ==
  ASSUME BuildTyped, Running, Step \in {"bindings", "empirical"},
         NEW bindings \in Seq(Bindings),
         build' = [build EXCEPT !.at = @ + 1, !.bindings = bindings, !.todo = bindings]
  PROVE  /\ BuildTyped' /\ Running'
         /\ build'.driver = build.driver /\ build'.bindings = bindings
         /\ build'.todo = bindings /\ build'.phase = build.phase
         /\ Follows(build.driver, Step, Step')
<1> DEFINE d == build.driver
           n == Len(Routes[build.driver])
<1>1. d \in Drivers /\ build.at \in 1 .. n /\ build.at # n /\ n \in Nat
  <2>1. d \in Drivers /\ build.at \in 1 .. n
    BY DEF BuildTyped, Running
  <2>2. n \in Nat
    BY <2>1, RoutesTyped
  <2>3. Routes[d][n] \notin {"bindings", "empirical"}
    BY <2>1, RouteEnds
  <2>4. build.at # n
    BY <2>3 DEF Step
  <2> QED
    BY <2>1, <2>2, <2>4
<1>2. /\ build'.driver = d /\ build'.at = build.at + 1 /\ build'.bindings = bindings
      /\ build'.todo = bindings /\ build'.phase = build.phase
  BY DEF BuildTyped
<1>3. build.at + 1 \in 1 .. n /\ build.at + 1 # 0
  BY <1>1
<1>4. BuildTyped' /\ Running'
  <2>1. build.at + 1 \in Nat
    BY <1>1
  <2>2. build' \in [driver : Drivers \cup {None}, at : Nat, bindings : Seq(Bindings),
                   todo : Seq(Bindings), phase : {"check", "copy", "digest"},
                   source : Sources \cup {None}]
    BY <2>1 DEF BuildTyped
  <2> HIDE DEF n
  <2>3. Running'
    BY <1>2, <1>3 DEF Running
  <2> QED
    BY <1>1, <1>2, <1>3, <2>2, <2>3 DEF BuildTyped, n
<1>5. Follows(d, Step, Step')
  BY <1>1, <1>2, RouteOrder DEF Step
<1> QED
  BY <1>2, <1>4, <1>5

\* The parts of a unit have their types.
LEMMA UnitTyped ==
  ASSUME unit \in Units
  PROVE  /\ unit.frozen \in [Sources -> Bytes \cup {None}]
         /\ unit.retained \in [Paths -> Bytes \cup {None}]
         /\ unit.envelopes \subseteq Envelopes
         /\ unit.overlay \in Overlays \cup {None}
BY CaseConstants DEF UnitRecords

LEMMA TypeSplit == CaseTypeOK <=>
  /\ unit \in Units /\ envelope \in unit.envelopes
  /\ repo \in [Sources -> Bytes \cup {None}] /\ legacy \in [Paths -> Bytes \cup {None}]
  /\ CaseTyped /\ BuildTyped
BY DEF CaseTypeOK, CaseTyped, BuildTyped

\* The rest of the bindings, after the next, are bindings.
LEMMA RestTyped ==
  ASSUME BuildTyped, build.todo # <<>>
  PROVE  /\ Head(build.todo) \in Bindings /\ Tail(build.todo) \in Seq(Bindings)
         /\ Head(build.todo).path \in Paths /\ Head(build.todo).digest \in Bytes
<1>1. build.todo \in Seq(Bindings)
  BY DEF BuildTyped
<1>2. Head(build.todo) \in Bindings /\ Tail(build.todo) \in Seq(Bindings)
  BY <1>1
<1> QED
  BY <1>2 DEF Bindings

\* A step inside "bind" or "prune" changes neither the driver nor the position.
Stays ==
  /\ BuildTyped' /\ Running' /\ Step' = Step
  /\ build'.driver = build.driver /\ build'.bindings = build.bindings

LEMMA StaysInBind ==
  ASSUME BuildTyped, Running, NEW todo \in Seq(Bindings),
         NEW phase \in {"check", "copy", "digest"}, NEW source \in Sources \cup {None},
         build' = [build EXCEPT !.todo = todo, !.phase = phase, !.source = source]
  PROVE  Stays /\ build'.todo = todo /\ build'.phase = phase /\ build'.source = source
BY DEF Stays, BuildTyped, Running, Step

LEMMA BindSteps ==
  ASSUME BuildTyped, CaseTyped, repo \in [Sources -> Bytes \cup {None}],
         Running => BuildInv,
         OpenEvidence \/ CopyEvidence \/ SkipBinding \/ RetainQualification \/ CheckBoundDigest
  PROVE  /\ Running /\ Step = "bind" /\ Stays
         /\ build.todo # <<>>
         /\ CaseTyped'
         /\ CaseOnly
<1>1. Running /\ Step = "bind" /\ BuildInv
  BY DEF OpenEvidence, CopyEvidence, SkipBinding, RetainQualification, CheckBoundDigest, NextIs,
         At, Step
<1>2. build.todo # <<>> /\ CaseOnly
  BY <1>1 DEF BuildInv, OpenIsFrozen, OpenEvidence, CopyEvidence, SkipBinding,
              RetainQualification, CheckBoundDigest, NextIs
<1>3. Stays
  <2>1. build.todo \in Seq(Bindings) /\ Tail(build.todo) \in Seq(Bindings)
        /\ build.phase \in {"check", "copy", "digest"} /\ build.source \in Sources \cup {None}
    BY <1>2, RestTyped DEF BuildTyped
  <2>2. \E todo \in Seq(Bindings), phase \in {"check", "copy", "digest"},
           source \in Sources \cup {None} :
          build' = [build EXCEPT !.todo = todo, !.phase = phase, !.source = source]
    <3>1. CASE OpenEvidence
      <4>1. PICK s \in Sources : build' = [build EXCEPT !.phase = "copy", !.source = s]
        BY <3>1 DEF OpenEvidence
      <4>2. build' = [build EXCEPT !.todo = build.todo, !.phase = "copy", !.source = s]
        BY <4>1 DEF BuildTyped
      <4> QED
        BY <2>1, <4>2
    <3>2. CASE CopyEvidence
      <4>1. build' = [build EXCEPT !.todo = build.todo, !.phase = "digest", !.source = None]
        BY <3>2 DEF CopyEvidence, BuildTyped
      <4> QED
        BY <2>1, <4>1
    <3>3. CASE SkipBinding
      <4>1. build' = [build EXCEPT !.todo = Tail(build.todo), !.phase = build.phase,
                                   !.source = build.source]
        BY <3>3 DEF SkipBinding, BuildTyped
      <4> QED
        BY <2>1, <4>1
    <3>4. CASE RetainQualification
      <4>1. build' = [build EXCEPT !.todo = build.todo, !.phase = "digest",
                                   !.source = build.source]
        BY <3>4 DEF RetainQualification, BuildTyped
      <4> QED
        BY <2>1, <4>1
    <3>5. CASE CheckBoundDigest
      <4>1. build' = [build EXCEPT !.todo = Tail(build.todo), !.phase = "check",
                                   !.source = build.source]
        BY <3>5 DEF CheckBoundDigest, BuildTyped
      <4> QED
        BY <2>1, <4>1
    <3> QED
      BY <3>1, <3>2, <3>3, <3>4, <3>5
  <2> QED
    BY <1>1, <2>2, StaysInBind
<1>4. CaseTyped'
  <2>1. CASE OpenEvidence
    <3>1. PICK p \in Paths, r \in BOOLEAN :
            case' = [case EXCEPT !.files = [case.files EXCEPT ![p] = Torn], !.rebound = r]
      <4>1. case' = [case EXCEPT !.files[Head(build.todo).path] = Torn,
                                 !.rebound = @ \/ build.driver = "rebind"]
        BY <2>1 DEF OpenEvidence
      <4>2. (case.rebound \/ build.driver = "rebind") \in BOOLEAN
        OBVIOUS
      <4>3. case' = [case EXCEPT !.files = [case.files EXCEPT ![Head(build.todo).path] = Torn],
                                 !.rebound = (case.rebound \/ build.driver = "rebind")]
        BY <4>1 DEF CaseTyped
      <4> QED
        BY <4>2, <4>3, <1>2, RestTyped
    <3>2. [case.files EXCEPT ![p] = Torn] \in [Paths -> Bytes \cup {None, Torn}]
      BY DEF CaseTyped
    <3> QED
      BY <3>1, <3>2 DEF CaseTyped
  <2>2. CASE CopyEvidence
    <3>1. build.source \in Sources
      BY <1>1, <2>2 DEF CopyEvidence, BuildInv, OpenIsFrozen
    <3> QED
      BY <2>2, <3>1, <1>2, RestTyped DEF CopyEvidence, CaseTyped
  <2>3. CASE UNCHANGED case
    BY <2>3 DEF CaseTyped
  <2> QED
    BY <2>1, <2>2, <2>3 DEF SkipBinding, RetainQualification, CheckBoundDigest
<1> QED
  BY <1>1, <1>2, <1>3, <1>4

\* The steps that only go on, with the case as it is.
Passes ==
  Audit \/ FreezeGate \/ Materialize \/ NoOverlay \/ PruneDone \/ AllBound \/ SurveyManaged
  \/ Preflight \/ Verify

\* The steps that write a part of the case and go on.
Writes ==
  ClearOutput \/ CopyLegacy \/ WriteAdapter \/ ApplyOverlay \/ RetitleCase \/ SanitizeMetadata
  \/ WriteBoundManifest

LEMMA OverlayTyped ==
  ASSUME NEW o \in Overlays, NEW a \in Envelopes, OverlayFits(o, a)
  PROVE  OverlayEdges(o, a) \subseteq Edges /\ a.edges \subseteq Edges
<1>1. o.node \in Nodes /\ a.facts \subseteq Facts /\ a.edges \subseteq Edges
      /\ a.nodes \subseteq Nodes
  BY DEF Overlays, Envelopes
<1>2. \A f \in a.facts : f.id \in o.facts => f.node \in Nodes
  BY <1>1 DEF Facts
<1>3. "USES" \in Relations
  BY DEF Relations
<1> QED
  BY <1>1, <1>2, <1>3 DEF OverlayEdges, Edges

LEMMA WritesTyped ==
  ASSUME CaseTypeOK, Running => BuildInv, Writes
  PROVE  /\ Running /\ Goes /\ CaseOnly /\ CaseTyped'
<1>1. Running /\ Goes /\ CaseOnly
  BY DEF ClearOutput, CopyLegacy, WriteAdapter, ApplyOverlay, RetitleCase, SanitizeMetadata,
         WriteBoundManifest, At, Writes
<1>2. CaseTyped /\ BuildTyped /\ envelope \in Envelopes
      /\ legacy \in [Paths -> Bytes \cup {None}]
  BY TypeSplit, UnitTyped
<1>3. CASE ClearOutput
  BY <1>1, <1>3, NoCaseTyped DEF ClearOutput, CaseTyped
<1>4. CASE CopyLegacy
  BY <1>1, <1>2, <1>4 DEF CopyLegacy, CaseTyped
<1>5. CASE WriteAdapter
  BY <1>1, <1>2, <1>5 DEF WriteAdapter, CaseTyped
<1>6. CASE ApplyOverlay
  <2>1. unit.overlay \in Overlays /\ case.adapter \in Envelopes
    BY <1>1, <1>2, <1>6, UnitTyped, TypeSplit
    DEF ApplyOverlay, CaseTyped, BuildInv, At, Step
  <2> DEFINE e == case.adapter.edges \cup OverlayEdges(unit.overlay, case.adapter)
             a == [case.adapter EXCEPT !.edges = e]
  <2>2. e \subseteq Edges
    BY <1>6, <2>1, OverlayTyped DEF ApplyOverlay
  <2>3. case' = [case EXCEPT !.adapter = a]
    BY <1>2, <1>6 DEF ApplyOverlay, CaseTyped
  <2>4. a \in Envelopes
    <3> HIDE DEF e
    <3> QED
      BY <2>1, <2>2 DEF Envelopes
  <2> HIDE DEF a
  <2> QED
    BY <1>1, <1>2, <2>3, <2>4 DEF CaseTyped
<1>7. CASE RetitleCase
  BY <1>1, <1>2, <1>7 DEF RetitleCase, CaseTyped
<1>8. CASE SanitizeMetadata
  BY <1>1, <1>2, <1>8 DEF SanitizeMetadata, CaseTyped
<1>9. CASE WriteBoundManifest
  <2>1. build.bindings \in Seq(Bindings)
    BY <1>2 DEF BuildTyped
  <2> QED
    BY <1>1, <1>2, <1>9, <2>1 DEF WriteBoundManifest, CaseTyped
<1> QED
  BY <1>1, <1>3, <1>4, <1>5, <1>6, <1>7, <1>8, <1>9 DEF Writes

\* A removal takes a file or a record out of the case and marks it.
Removes == (\E p \in Paths : RemoveFile(p)) \/ (\E r \in Records : RemoveRecord(r))

LEMMA RemovesTyped ==
  ASSUME CaseTyped, Removes
  PROVE  /\ Running /\ Step = "clear" /\ build' = build /\ CaseOnly /\ CaseTyped'
         /\ case'.rebound = case.rebound /\ case'.cut = TRUE
         /\ case'.bound \in {case.bound, None}
         /\ \A p \in Paths : case'.files[p] \in {case.files[p], None}
<1>1. Running /\ Step = "clear" /\ build' = build /\ CaseOnly
  BY DEF Removes, RemoveFile, RemoveRecord, At, Step
<1>2. ASSUME NEW p \in Paths, RemoveFile(p)
      PROVE  /\ CaseTyped' /\ case'.rebound = case.rebound /\ case'.cut = TRUE
             /\ case'.bound = case.bound
             /\ \A q \in Paths : case'.files[q] \in {case.files[q], None}
  <2>1. case' = [case EXCEPT !.files = [case.files EXCEPT ![p] = None], !.cut = TRUE]
    BY <1>2 DEF RemoveFile, CaseTyped
  <2>2. [case.files EXCEPT ![p] = None] \in [Paths -> Bytes \cup {None, Torn}]
    BY DEF CaseTyped
  <2> QED
    BY <2>1, <2>2 DEF CaseTyped
<1>3. ASSUME NEW r \in Records, RemoveRecord(r)
      PROVE  /\ CaseTyped' /\ case'.rebound = case.rebound /\ case'.cut = TRUE
             /\ case'.bound \in {case.bound, None} /\ case'.files = case.files
  <2>1. case' = [case EXCEPT ![r] = None, !.cut = TRUE]
    BY <1>3 DEF RemoveRecord
  <2>2. CASE r = "adapter"
    BY <2>1, <2>2 DEF CaseTyped
  <2>3. CASE r = "meta"
    BY <2>1, <2>3 DEF CaseTyped
  <2>4. CASE r = "bound"
    BY <2>1, <2>4 DEF CaseTyped
  <2> QED
    BY <2>2, <2>3, <2>4 DEF Records
<1> QED
  BY <1>1, <1>2, <1>3 DEF Removes

LEMMA CaseTypeStep ==
  ASSUME CaseTypeOK, Running => BuildInv, [CaseNext]_caseVars
  PROVE  CaseTypeOK'
<1>1. /\ unit \in Units /\ envelope \in unit.envelopes
      /\ repo \in [Sources -> Bytes \cup {None}] /\ legacy \in [Paths -> Bytes \cup {None}]
      /\ CaseTyped /\ BuildTyped
  BY TypeSplit
<1>2. ASSUME unit' = unit, envelope' \in unit.envelopes,
             repo' \in [Sources -> Bytes \cup {None}], legacy' \in [Paths -> Bytes \cup {None}],
             case' = case \/ CaseTyped', build' = build \/ build' = Idle \/ BuildTyped'
      PROVE  CaseTypeOK'
  <2>1. CaseTyped'
    BY <1>1, <1>2 DEF CaseTyped
  <2>2. CASE build' = build
    BY <1>1, <1>2, <2>1, <2>2 DEF CaseTypeOK, CaseTyped, BuildTyped, Running
  <2>3. CASE build' = Idle
    BY <1>1, <1>2, <2>1, <2>3, IdleTyped DEF CaseTypeOK, CaseTyped, Running
  <2>4. CASE BuildTyped'
    BY <1>1, <1>2, <2>1, <2>4 DEF CaseTypeOK, CaseTyped, BuildTyped
  <2> QED
    BY <1>2, <2>2, <2>3, <2>4
<1>3. CASE Passes
  <2>1. Running /\ Goes /\ UNCHANGED <<unit, envelope, repo, case>>
        /\ (legacy' = legacy \/ legacy' = unit.retained)
    BY <1>3 DEF Passes, Audit, FreezeGate, Materialize, NoOverlay, PruneDone, AllBound,
                SurveyManaged, Preflight, Verify, CaseOnly, At
  <2> QED
    BY <1>1, <1>2, <2>1, GoesOnward, UnitTyped
<1>4. CASE Writes
  BY <1>1, <1>2, <1>4, WritesTyped, GoesOnward DEF CaseOnly
<1>5. CASE OpenEvidence \/ CopyEvidence \/ SkipBinding \/ RetainQualification \/ CheckBoundDigest
  BY <1>1, <1>2, <1>5, BindSteps DEF CaseOnly, Stays
<1>6. CASE NormalizeBindings \/ EmpiricalBindings
  <2>1. Running /\ Step \in {"bindings", "empirical"} /\ UNCHANGED <<unit, envelope, repo, legacy, case>>
        /\ build' = [build EXCEPT !.at = @ + 1, !.bindings = envelope.bindings,
                                  !.todo = envelope.bindings]
    BY <1>6 DEF NormalizeBindings, EmpiricalBindings, At, Step
  <2>2. envelope.bindings \in Seq(Bindings)
    BY <1>1, UnitTyped DEF Envelopes
  <2> QED
    BY <1>1, <1>2, <2>1, <2>2, ReadsOnward
<1>7. ASSUME NEW p \in Paths, UnlinkUnbound(p)
      PROVE  CaseTypeOK'
  <2>1. CaseTyped'
    <3>1. (case.rebound \/ build.driver = "rebind") \in BOOLEAN
      OBVIOUS
    <3>2. case' = [case EXCEPT !.files = [case.files EXCEPT ![p] = None],
                               !.rebound = (case.rebound \/ build.driver = "rebind")]
      BY <1>1, <1>7 DEF UnlinkUnbound, CaseTyped
    <3>3. [case.files EXCEPT ![p] = None] \in [Paths -> Bytes \cup {None, Torn}]
      BY <1>1 DEF CaseTyped
    <3> QED
      BY <1>1, <3>1, <3>2, <3>3 DEF CaseTyped
  <2> QED
    BY <1>1, <1>2, <1>7, <2>1 DEF UnlinkUnbound, CaseOnly
<1>16. CASE Removes
  BY <1>1, <1>2, <1>16, RemovesTyped DEF CaseOnly
<1>8. ASSUME NEW d \in Drivers, StartBuild(d)
      PROVE  CaseTypeOK'
  <2>1. build' = [Idle EXCEPT !.driver = d, !.at = 1]
    BY <1>8 DEF StartBuild
  <2>2. build'.driver = d /\ build'.at = 1
    BY <2>1, IdleTyped
  <2>3. build' \in [driver : Drivers \cup {None}, at : Nat, bindings : Seq(Bindings),
                    todo : Seq(Bindings), phase : {"check", "copy", "digest"},
                    source : Sources \cup {None}]
    BY <2>1, IdleTyped
  <2>4. BuildTyped'
    BY <2>2, <2>3, RouteEnds DEF BuildTyped
  <2> QED
    BY <1>1, <1>2, <1>8, <2>4 DEF StartBuild
<1>9. CASE BuildStops
  BY <1>1, <1>2, <1>9 DEF BuildStops, CaseOnly
<1>10. CASE EditEnvelope
  BY <1>1, <1>2, <1>10 DEF EditEnvelope
<1>11. ASSUME NEW s \in Sources, EditSource(s)
       PROVE  CaseTypeOK'
  BY <1>1, <1>2, <1>11 DEF EditSource
<1>12. CASE OtherRemovesCases
  BY <1>1, <1>2, <1>12 DEF OtherRemovesCases, NoFiles
<1>13. ASSUME NEW p \in Paths, OtherExtracts(p)
       PROVE  CaseTypeOK'
  BY <1>1, <1>2, <1>13, UnitTyped DEF OtherExtracts
<1>14. CASE UNCHANGED caseVars
  BY <1>1, <1>2, <1>14 DEF caseVars
<1> QED
  BY <1>3, <1>4, <1>5, <1>6, <1>7, <1>8, <1>9, <1>10, <1>11, <1>12, <1>13, <1>14, <1>16
  DEF CaseNext, Passes, Writes, Removes

----------------------------------------------------------------------------
(* The bindings. *)

LEMMA HeldKept ==
  ASSUME NEW b, Held(b), case'.files = case.files, unit' = unit, build'.driver = build.driver
  PROVE  Held(b)'
BY DEF Held, Harness, FrozenAs

\* Nothing was copied yet.
LEMMA NothingHeld ==
  ASSUME BuildTyped', build'.todo = build'.bindings
  PROVE  BindingsHeld'
<1>1. Len(build'.bindings) \in Nat /\ build'.bindings \in Seq(Bindings)
  BY DEF BuildTyped
<1>2. Len(build'.bindings) - Len(build'.todo) = 0
  BY <1>1
<1>3. \A i \in 1 .. Len(build'.todo) : i + 0 = i
  BY <1>1
<1> QED
  BY <1>1, <1>2, <1>3 DEF BindingsHeld

\* A step that changes neither the list nor a file.
LEMMA BindingsHeldKept ==
  ASSUME BindingsHeld, unit' = unit, case'.files = case.files, build'.driver = build.driver,
         build'.bindings = build.bindings, build'.todo = build.todo, build'.phase = build.phase
  PROVE  BindingsHeld'
<1>1. \A b : Held(b) => Held(b)'
  BY HeldKept
<1>2. \A b : Copying(b) => Copying(b)'
  BY DEF Copying, Harness
<1> QED
  BY <1>1, <1>2 DEF BindingsHeld

\* When the list is empty, each binding is held.
LEMMA AllHeld ==
  ASSUME BuildTyped, BindingsHeld, build.todo = <<>>, NEW b \in ToSet(build.bindings)
  PROVE  Held(b)
<1>1. build.bindings \in Seq(Bindings) /\ Len(build.todo) = 0
  BY DEF BuildTyped
<1>2. PICK i \in DOMAIN build.bindings : b = build.bindings[i]
  BY DEF ToSet
<1>3. i \in 1 .. Len(build.bindings) - Len(build.todo)
  BY <1>1
<1>4. ~Copying(build.bindings[i])
  BY DEF Copying
<1> QED
  BY <1>2, <1>3, <1>4 DEF BindingsHeld

\* The next binding is the first that is not held yet, and its path is not one of a binding
\* before it if the paths differ.
LEMMA NextBinding ==
  ASSUME BuildTyped, BindingsHeld, build.todo # <<>>
  PROVE  LET m == Len(build.bindings) - Len(build.todo) IN
         /\ m \in Nat /\ m + 1 \in DOMAIN build.bindings /\ Head(build.todo) = build.bindings[m + 1]
         /\ Len(Tail(build.todo)) = Len(build.todo) - 1
         /\ \A i \in 1 .. Len(Tail(build.todo)) :
              Tail(build.todo)[i] = build.bindings[i + (m + 1)]
         /\ PathsDiffer(build.bindings) =>
              \A i \in 1 .. m : build.bindings[i].path # Head(build.todo).path
<1> DEFINE m == Len(build.bindings) - Len(build.todo)
<1>1. build.bindings \in Seq(Bindings) /\ build.todo \in Seq(Bindings)
  BY DEF BuildTyped
<1>2. Len(build.todo) \in Nat /\ Len(build.todo) > 0 /\ Len(build.bindings) \in Nat
      /\ Len(build.todo) <= Len(build.bindings)
  BY <1>1 DEF BindingsHeld
<1>3. m \in Nat /\ m + 1 \in DOMAIN build.bindings
  <2>1. \A k, n \in Nat : k > 0 /\ k <= n => n - k \in Nat /\ (n - k) + 1 \in 1 .. n
    OBVIOUS
  <2>2. DOMAIN build.bindings = 1 .. Len(build.bindings)
    BY <1>1
  <2> QED
    BY <1>2, <2>1, <2>2
<1>4. Head(build.todo) = build.todo[1] /\ 1 \in 1 .. Len(build.todo) /\ 1 + m = m + 1
  BY <1>1, <1>2
<1>5. Head(build.todo) = build.bindings[m + 1]
  BY <1>4 DEF BindingsHeld
<1>6. Len(Tail(build.todo)) = Len(build.todo) - 1
  BY <1>1, <1>2
<1>7. ASSUME NEW i \in 1 .. Len(Tail(build.todo))
      PROVE  Tail(build.todo)[i] = build.bindings[i + (m + 1)]
  <2>1. i + 1 \in 1 .. Len(build.todo) /\ Tail(build.todo)[i] = build.todo[i + 1]
    BY <1>1, <1>2, <1>6
  <2>2. (i + 1) + m = i + (m + 1)
    <3>1. i \in Nat
      BY <1>2, <1>6
    <3> HIDE DEF m
    <3> QED
      BY <1>3, <3>1
  <2> QED
    BY <2>1, <2>2 DEF BindingsHeld
<1>8. ASSUME PathsDiffer(build.bindings), NEW i \in 1 .. m
      PROVE  build.bindings[i].path # Head(build.todo).path
  <2>1. i \in DOMAIN build.bindings /\ i # m + 1
    BY <1>1, <1>2, <1>3
  <2> HIDE DEF m
  <2> QED
    BY <1>3, <1>5, <1>8, <2>1 DEF PathsDiffer
<1> QED
  BY <1>3, <1>5, <1>6, <1>7, <1>8

LEMMA ListStands ==
  ASSUME BindingsHeld, build'.todo = build.todo, build'.bindings = build.bindings,
         \A i \in 1 .. Len(build.bindings) - Len(build.todo) :
           Held(build.bindings[i])' \/ Copying(build.bindings[i])'
  PROVE  BindingsHeld'
BY DEF BindingsHeld

LEMMA ListAdvances ==
  ASSUME BuildTyped, BindingsHeld, build.todo # <<>>,
         build'.todo = Tail(build.todo), build'.bindings = build.bindings,
         NEW h, h = Head(build.todo), Held(h)',
         \A i \in 1 .. Len(build.bindings) - Len(build.todo) : Held(build.bindings[i])'
  PROVE  BindingsHeld'
<1> DEFINE m == Len(build.bindings) - Len(build.todo)
<1>1. m \in Nat /\ Len(build.bindings) \in Nat /\ Len(build.todo) \in Nat
  BY NextBinding DEF BuildTyped
<1>2. Len(build'.bindings) - Len(build'.todo) = m + 1 /\ Len(build'.todo) <= Len(build'.bindings)
  <2>1. \A k, n \in Nat : k <= n => n - (k - 1) = (n - k) + 1 /\ k - 1 <= n
    OBVIOUS
  <2>2. Len(build'.todo) = Len(build.todo) - 1 /\ Len(build.todo) <= Len(build.bindings)
    BY NextBinding DEF BindingsHeld
  <2> QED
    BY <1>1, <2>1, <2>2
<1>3. ASSUME NEW i \in 1 .. m + 1
      PROVE  Held(build.bindings[i])'
  <2>1. i \in 1 .. m \/ i = m + 1
    <3>1. m \in Nat
      BY <1>1
    <3> HIDE DEF m
    <3> QED
      BY <3>1
  <2>2. h = build.bindings[m + 1]
    BY NextBinding
  <2>3. CASE i = m + 1
    <3>1. h = build'.bindings[i]
      BY <2>2, <2>3
    <3> QED
      BY <3>1 DEF Held
  <2> QED
    BY <2>1, <2>3
<1>4. \A i \in 1 .. Len(build'.todo) : build'.todo[i] = build'.bindings[i + (m + 1)]
  BY NextBinding
<1> HIDE DEF m
<1> QED
  BY <1>2, <1>3, <1>4 DEF BindingsHeld

LEMMA BindStepsHold ==
  ASSUME CaseTypeOK, Running => BuildInv,
         OpenEvidence \/ CopyEvidence \/ SkipBinding \/ RetainQualification \/ CheckBoundDigest
  PROVE  BindingsHeld' /\ OpenIsFrozen'
<1> DEFINE m == Len(build.bindings) - Len(build.todo)
<1>h. PICK h : h = Head(build.todo)
  OBVIOUS
<1>1. CaseTyped /\ BuildTyped /\ repo \in [Sources -> Bytes \cup {None}]
  BY TypeSplit
<1>2. /\ Running /\ Step = "bind" /\ Stays /\ build.todo # <<>> /\ CaseOnly
  BY <1>1, BindSteps
<1>3. BindingsHeld /\ OpenIsFrozen /\ (~Harness => PathsDiffer(build.bindings))
  BY <1>2 DEF BuildInv, AfterEach, AfterBindings
<1>4. build'.driver = build.driver /\ build'.bindings = build.bindings /\ unit' = unit
  BY <1>2 DEF Stays, CaseOnly
<1>5. h.path \in Paths /\ (Harness <=> Harness') /\ (Rebinding <=> Rebinding')
  BY <1>h, <1>1, <1>2, <1>4, RestTyped DEF Harness, Rebinding
<1>6. \A x : FrozenAs(x)' = FrozenAs(x)
  BY <1>4 DEF FrozenAs
<1>7. \A i \in 1 .. m : ~Harness => build.bindings[i].path # h.path
  BY <1>h, <1>1, <1>2, <1>3, NextBinding
<1>8. \A i \in 1 .. m : Held(build.bindings[i]) \/ Copying(build.bindings[i])
  BY <1>3 DEF BindingsHeld
\* While the file of the next binding changes, the others keep theirs.
<1>9. ASSUME build'.todo = build.todo, build'.phase # "check", h.kind = "EVIDENCE",
             \A p : p # h.path => case'.files[p] = case.files[p]
      PROVE  BindingsHeld'
  <2>1. ASSUME NEW i \in 1 .. m
        PROVE  Held(build.bindings[i])' \/ Copying(build.bindings[i])'
    <3> DEFINE b == build.bindings[i]
    <3>1. CASE b.path = h.path
      BY <1>h, <1>2, <1>4, <1>5, <1>7, <1>9, <3>1 DEF Copying
    <3>2. CASE b.path # h.path
      <4>1. Held(b)
        BY <1>h, <1>8, <3>2 DEF Copying
      <4>2. case'.files[b.path] = case.files[b.path]
        BY <1>9, <3>2
      <4>3. b' = b
        BY <1>4
      <4> QED
        BY <1>4, <1>5, <1>6, <4>1, <4>2, <4>3 DEF Held
    <3> QED
      BY <3>1, <3>2
  <2> QED
    BY <1>3, <1>4, <1>9, <2>1, ListStands
<1>10. CASE OpenEvidence
  <2>1. PICK s \in Sources :
          /\ FrozenAs(h.digest) = {s}
          /\ case' = [case EXCEPT !.files[h.path] = Torn,
                                  !.rebound = @ \/ build.driver = "rebind"]
          /\ build' = [build EXCEPT !.phase = "copy", !.source = s]
    BY <1>h, <1>10 DEF OpenEvidence
  <2>2. h.kind = "EVIDENCE"
    BY <1>h, <1>10 DEF OpenEvidence, NextIs
  <2>3. build'.todo = build.todo /\ build'.phase = "copy" /\ build'.source = s
    BY <1>1, <2>1 DEF BuildTyped
  <2>4. \A p : p # h.path => case'.files[p] = case.files[p]
    BY <1>1, <2>1 DEF CaseTyped
  <2>5. Rebinding => case'.rebound
    BY <1>1, <2>1 DEF CaseTyped, Rebinding
  <2>6. OpenIsFrozen'
    BY <1>h, <1>2, <1>5, <1>6, <2>1, <2>2, <2>3, <2>5 DEF OpenIsFrozen
  <2> QED
    BY <1>9, <2>2, <2>3, <2>4, <2>6
<1>11. CASE CopyEvidence
  <2>1. build.phase = "copy" /\ h.kind = "EVIDENCE"
    BY <1>h, <1>3, <1>11 DEF CopyEvidence, OpenIsFrozen
  <2>2. build'.todo = build.todo /\ build'.phase = "digest"
    BY <1>1, <1>11 DEF CopyEvidence, BuildTyped
  <2>3. \A p : p # h.path => case'.files[p] = case.files[p]
    BY <1>h, <1>1, <1>11 DEF CopyEvidence, CaseTyped
  <2>4. OpenIsFrozen'
    BY <1>h, <1>2, <1>3, <1>6, <2>1, <2>2 DEF OpenIsFrozen
  <2> QED
    BY <1>9, <2>1, <2>2, <2>3, <2>4
<1>12. CASE SkipBinding
  <2>1. build'.todo = Tail(build.todo) /\ build'.phase = "check" /\ case' = case
        /\ Harness /\ h.kind # "EVIDENCE"
    BY <1>h, <1>1, <1>12 DEF SkipBinding, BuildTyped, Harness
  <2>2. \A i \in 1 .. m : Held(build.bindings[i])'
    BY <1>h, <1>4, <1>6, <1>8, <2>1 DEF Copying, Held, Harness
  <2>3. Held(h)'
    BY <1>5, <2>1 DEF Held
  <2>4. OpenIsFrozen'
    BY <2>1 DEF OpenIsFrozen
  <2> QED
    BY <1>h, <1>1, <1>2, <1>3, <1>4, <2>1, <2>2, <2>3, <2>4, ListAdvances
<1>13. CASE RetainQualification
  <2>1. build'.todo = build.todo /\ build'.phase = "digest" /\ case' = case
        /\ ~Harness /\ h.kind = "QUALIFICATION"
    BY <1>h, <1>1, <1>13 DEF RetainQualification, NextIs, BuildTyped, Harness
  <2>2. \A i \in 1 .. m : Held(build.bindings[i])'
    BY <1>4, <1>5, <1>6, <1>8, <2>1 DEF Copying, Held
  <2>3. OpenIsFrozen'
    BY <1>h, <1>2, <2>1 DEF OpenIsFrozen
  <2> QED
    BY <1>3, <1>4, <2>1, <2>2, <2>3, ListStands
<1>14. CASE CheckBoundDigest
  <2>1. build'.todo = Tail(build.todo) /\ build'.phase = "check" /\ case' = case
        /\ build.phase = "digest" /\ case.files[h.path] = h.digest
    BY <1>h, <1>1, <1>14 DEF CheckBoundDigest, BuildTyped
  <2>2. h.kind = "EVIDENCE" => \E s \in Sources : FrozenAs(h.digest) = {s}
    BY <1>h, <1>3, <2>1 DEF OpenIsFrozen
  <2>3. ASSUME NEW i \in 1 .. m
        PROVE  Held(build.bindings[i])'
    <3> DEFINE b == build.bindings[i]
    <3>1. Held(b)
      <4>1. CASE Copying(b)
        BY <1>h, <2>1, <2>2, <4>1 DEF Copying, Held
      <4> QED
        BY <1>8, <4>1
    <3> QED
      BY <1>4, <1>5, <1>6, <2>1, <3>1 DEF Held
  <2>4. Held(h)'
    BY <1>5, <1>6, <2>1, <2>2 DEF Held
  <2>5. OpenIsFrozen'
    BY <2>1 DEF OpenIsFrozen
  <2> QED
    BY <1>h, <1>1, <1>2, <1>3, <1>4, <2>1, <2>3, <2>4, <2>5, ListAdvances
<1> QED
  BY <1>10, <1>11, <1>12, <1>13, <1>14

----------------------------------------------------------------------------
(* The steps of a build. *)

LEMMA PassesBuild ==
  ASSUME CaseTypeOK, Running => BuildInv, Passes, Running'
  PROVE  BuildInv'
<1>1. BuildTyped
  BY TypeSplit
<1>2. Running /\ Goes /\ UNCHANGED <<unit, case>> /\ BuildInv
  BY DEF Passes, Audit, FreezeGate, Materialize, NoOverlay, PruneDone, AllBound,
         SurveyManaged, Preflight, Verify, CaseOnly, At
<1>3. /\ build'.driver = build.driver /\ build'.bindings = build.bindings
      /\ build'.todo = build.todo /\ build'.phase = build.phase
      /\ Follows(build.driver, Step, Step') /\ BuildTyped'
  BY <1>1, <1>2, GoesOnward
<1>4. Step \in {"audit", "gate", "materialize", "overlay", "prune", "bind", "survey", "preflight",
                "verify"}
  BY DEF Passes, Audit, FreezeGate, Materialize, NoOverlay, PruneDone, AllBound,
         SurveyManaged, Preflight, Verify, At, Step
<1>5. Step = "bind" => build.todo = <<>> /\ build.phase = "check"
  <2>1. Step = "bind" => build.todo = <<>>
    BY DEF Passes, Audit, FreezeGate, Materialize, NoOverlay, PruneDone, AllBound,
           SurveyManaged, Preflight, Verify, At, Step
  <2> QED
    BY <1>2, <2>1 DEF BuildInv, OpenIsFrozen
<1>6. Step = "survey" => Managed(case.files) \subseteq Bound(build.bindings)
  <2>1. Step = "survey" => SurveyManaged
    BY DEF Passes, Audit, FreezeGate, Materialize, NoOverlay, PruneDone, AllBound,
           SurveyManaged, Preflight, Verify, At, Step
  <2> QED
    BY <2>1 DEF SurveyManaged, Managed
<1>7. /\ (Rebinding <=> Rebinding') /\ (Harness <=> Harness') /\ build'.phase = "check"
  BY <1>2, <1>3, <1>5 DEF Rebinding, Harness, BuildInv
<1>8. Step' \in AfterEach => BindingsHeld'
  <2>1. CASE Step = "prune"
    BY <1>2, <1>3, <2>1, NothingHeld DEF BuildInv
  <2>2. CASE Step \in AfterEach
    BY <1>2, <1>3, <2>2, BindingsHeldKept DEF BuildInv
  <2>3. CASE Step \notin AfterEach /\ Step # "prune"
    BY <1>3, <1>4, <2>3 DEF AfterEach, Follows
  <2> QED
    BY <2>1, <2>2, <2>3
<1>9. Step' # "prune" /\ Step' # "overlay"
  BY <1>3, <1>4 DEF Follows
<1>10. Step' \in BeforeRecord /\ ~Rebinding' => case'.bound = None
  <2>1. Step' \in BeforeRecord => Step \in BeforeRecord
    BY <1>3, <1>4 DEF Follows, BeforeRecord
  <2> QED
    BY <1>2, <1>7, <2>1 DEF BuildInv
<1>11. Step' \in AfterSanitize /\ build'.driver \in Audited => case'.meta = "target"
  <2>1. Step' \in AfterSanitize => Step \in AfterSanitize
    BY <1>3, <1>4 DEF Follows, AfterSanitize
  <2> QED
    BY <1>2, <1>3, <2>1 DEF BuildInv
<1>12. Step' \in AfterBindings /\ ~Harness' => PathsDiffer(build'.bindings)
  <2>1. Step' \in AfterBindings => Step \in AfterBindings
    BY <1>3, <1>4 DEF Follows, AfterBindings
  <2> QED
    BY <1>2, <1>3, <1>7, <2>1 DEF BuildInv
<1>13. Step' \in AfterBind => build'.todo = <<>>
  <2>1. Step' \in AfterBind => Step \in AfterBind \/ Step = "bind"
    BY <1>3, <1>4 DEF Follows, AfterBind
  <2> QED
    BY <1>2, <1>3, <1>5, <2>1 DEF BuildInv
<1>14. Step' \in AfterSurvey /\ ~Harness' => Managed(case'.files) \subseteq Bound(build'.bindings)
  <2>1. Step' \in AfterSurvey /\ ~Harness => Step \in AfterSurvey \/ Step = "survey"
    BY <1>3, <1>4 DEF Follows, AfterSurvey, Harness
  <2> QED
    BY <1>2, <1>3, <1>6, <1>7, <2>1 DEF BuildInv
<1> QED
  BY <1>7, <1>8, <1>9, <1>10, <1>11, <1>12, <1>13, <1>14 DEF BuildInv, OpenIsFrozen, Managed

LEMMA WritesBuild ==
  ASSUME CaseTypeOK, Running => BuildInv, Writes, Running'
  PROVE  BuildInv'
<1>1. BuildTyped /\ CaseTyped /\ envelope \in Envelopes
  BY TypeSplit, UnitTyped
<1>2. Running /\ Goes /\ unit' = unit /\ BuildInv
  BY WritesTyped DEF CaseOnly
<1>3. /\ build'.driver = build.driver /\ build'.bindings = build.bindings
      /\ build'.todo = build.todo /\ build'.phase = build.phase
      /\ Follows(build.driver, Step, Step') /\ BuildTyped'
  BY <1>1, <1>2, GoesOnward
<1>4. Step \in {"clear", "legacy", "adapter", "overlay", "title", "sanitize", "record"}
  BY DEF Writes, ClearOutput, CopyLegacy, WriteAdapter, ApplyOverlay, RetitleCase,
         SanitizeMetadata, WriteBoundManifest, At, Step
<1>5. /\ (Rebinding <=> Rebinding') /\ (Harness <=> Harness') /\ build'.phase = "check"
  BY <1>2, <1>3, <1>4 DEF Rebinding, Harness, BuildInv
<1>6. CASE WriteBoundManifest
  <2>1. Step = "record" /\ case'.files = case.files /\ case'.meta = case.meta
    BY <1>1, <1>6 DEF WriteBoundManifest, CaseTyped, At, Step
  <2>2. Step' = "preflight" \/ Step' \notin BeforeRecord \cup AfterSanitize
    BY <1>3, <2>1 DEF Follows, BeforeRecord, AfterSanitize
  <2>3. BindingsHeld /\ build.todo = <<>> /\ (~Harness => PathsDiffer(build.bindings))
        /\ (~Harness => Managed(case.files) \subseteq Bound(build.bindings))
        /\ (build.driver \in Audited => case.meta = "target")
    BY <1>2, <2>1 DEF BuildInv, AfterEach, AfterBind, AfterBindings, AfterSurvey, AfterSanitize
  <2>4. BindingsHeld'
    BY <1>2, <1>3, <2>1, <2>3, BindingsHeldKept
  <2>5. Step' \notin {"overlay", "prune", "bind"} /\ Step' \notin BeforeRecord
    BY <1>3, <2>1, <2>2 DEF Follows, BeforeRecord
  <2>6. Managed(case'.files) = Managed(case.files)
    BY <2>1
  <2> QED
    BY <1>3, <1>5, <2>1, <2>3, <2>4, <2>5, <2>6 DEF BuildInv, Managed
<1>7. CASE ~WriteBoundManifest
  <2>1. Step # "record"
    BY <1>7 DEF Writes, ClearOutput, CopyLegacy, WriteAdapter, ApplyOverlay, RetitleCase,
         SanitizeMetadata, WriteBoundManifest, At, Step
  <2>2. Step' \notin AfterBindings \cup AfterEach \cup AfterBind \cup AfterSurvey
    BY <1>3, <1>4, <2>1 DEF Follows, AfterBindings, AfterEach, AfterBind, AfterSurvey
  <2>3. Step' = "overlay" => case'.adapter # None
    <3>1. Step' = "overlay" => WriteAdapter
      BY <1>3, <1>4 DEF Follows, Writes, ClearOutput, CopyLegacy, WriteAdapter, ApplyOverlay,
         RetitleCase, SanitizeMetadata, WriteBoundManifest, At, Step
    <3>2. WriteAdapter => case'.adapter = envelope
      BY <1>1 DEF WriteAdapter, CaseTyped
    <3> QED
      BY <1>1, <3>1, <3>2, CaseConstants
  <2>4. Step' \in BeforeRecord /\ ~Rebinding' => case'.bound = None
    <3>1. CASE ClearOutput
      BY <3>1 DEF ClearOutput, NoCase
    <3>2. CASE ~ClearOutput
      <4>1. case'.bound = case.bound
        BY <1>1, <1>7, <3>2 DEF Writes, CopyLegacy, WriteAdapter, ApplyOverlay, RetitleCase,
           SanitizeMetadata, CaseTyped
      <4>2. Step \in BeforeRecord
        BY <1>7, <3>2 DEF Writes, CopyLegacy, WriteAdapter, ApplyOverlay, RetitleCase,
           SanitizeMetadata, At, Step, BeforeRecord
      <4> QED
        BY <1>2, <1>5, <4>1, <4>2 DEF BuildInv
    <3> QED
      BY <3>1, <3>2
  <2>5. Step' \in AfterSanitize /\ build'.driver \in Audited => case'.meta = "target"
    <3>1. Step' \in AfterSanitize /\ build'.driver \in Audited => Step = "sanitize"
      BY <1>3, <1>4, <2>1 DEF Follows, AfterSanitize, Audited
    <3>2. Step = "sanitize" => SanitizeMetadata
      BY DEF Writes, ClearOutput, CopyLegacy, WriteAdapter, ApplyOverlay,
         RetitleCase, SanitizeMetadata, WriteBoundManifest, At, Step
    <3>3. SanitizeMetadata => case'.meta = "target"
      BY <1>1 DEF SanitizeMetadata, CaseTyped
    <3> QED
      BY <3>1, <3>2, <3>3
  <2> QED
    BY <1>5, <2>2, <2>3, <2>4, <2>5
    DEF BuildInv, AfterBindings, AfterEach, AfterBind, AfterSurvey
<1> QED
  BY <1>6, <1>7

LEMMA ReadsBuild ==
  ASSUME CaseTypeOK, Running => BuildInv, NormalizeBindings \/ EmpiricalBindings
  PROVE  BuildInv'
<1>1. BuildTyped /\ envelope.bindings \in Seq(Bindings)
  BY TypeSplit, UnitTyped DEF Envelopes
<1>2. Running /\ UNCHANGED <<unit, case>> /\ BuildInv
  BY DEF NormalizeBindings, EmpiricalBindings, At
<1>3. /\ (Step = "bindings" /\ PathsDiffer(envelope.bindings)) \/ Step = "empirical"
      /\ build' = [build EXCEPT !.at = @ + 1, !.bindings = envelope.bindings,
                                !.todo = envelope.bindings]
  BY DEF NormalizeBindings, EmpiricalBindings, At, Step, PathsDiffer
<1>4. /\ build'.driver = build.driver /\ build'.bindings = envelope.bindings
      /\ build'.todo = envelope.bindings /\ build'.phase = build.phase
      /\ Follows(build.driver, Step, Step') /\ BuildTyped'
  BY <1>1, <1>2, <1>3, ReadsOnward
<1>5. /\ (Rebinding <=> Rebinding') /\ (Harness <=> Harness') /\ build'.phase = "check"
      /\ (~Rebinding => case.bound = None)
      /\ (build.driver \in Audited => case.meta = "target")
  BY <1>2, <1>3, <1>4 DEF Rebinding, Harness, BuildInv, BeforeRecord, AfterSanitize
<1>6. BindingsHeld'
  BY <1>4, NothingHeld
<1>7. (Step' = "prune" /\ ~Harness /\ Step = "bindings") \/ (Step' = "bind" /\ Harness)
  <2>1. Step \in {"bindings", "empirical"}
    BY <1>3
  <2>2. CASE Step = "bindings"
    <3>1. Step' = "prune" /\ build.driver # "harness"
      BY <1>4, <2>2 DEF Follows
    <3> QED
      BY <2>2, <3>1 DEF Harness
  <2>3. CASE Step = "empirical"
    <3>1. Step' = "bind" /\ build.driver = "harness"
      BY <1>4, <2>3 DEF Follows
    <3> QED
      BY <3>1 DEF Harness
  <2> QED
    BY <2>1, <2>2, <2>3
<1>8. ~Harness' => PathsDiffer(build'.bindings)
  BY <1>3, <1>4, <1>5, <1>7
<1> QED
  BY <1>2, <1>4, <1>5, <1>6, <1>7, <1>8
  DEF BuildInv, OpenIsFrozen, AfterBind, AfterSurvey

LEMMA BindBuild ==
  ASSUME CaseTypeOK, Running => BuildInv,
         OpenEvidence \/ CopyEvidence \/ SkipBinding \/ RetainQualification \/ CheckBoundDigest
  PROVE  /\ BuildInv'
         /\ case'.bound = case.bound
         /\ case'.files # case.files /\ Rebinding => case'.rebound
         /\ case.rebound => case'.rebound
         /\ case'.cut = case.cut
<1>1. BuildTyped /\ CaseTyped /\ repo \in [Sources -> Bytes \cup {None}]
  BY TypeSplit
<1>2. Running /\ Step = "bind" /\ Stays /\ BuildInv
  BY <1>1, BindSteps
<1>3. BindingsHeld' /\ OpenIsFrozen'
  BY BindStepsHold
<1>4. /\ (Rebinding <=> Rebinding') /\ (Harness <=> Harness') /\ Step' = "bind"
      /\ build'.driver = build.driver /\ build'.bindings = build.bindings
  BY <1>2 DEF Rebinding, Harness, Stays
<1>5. /\ case'.bound = case.bound /\ case'.meta = case.meta
      /\ case'.files # case.files /\ Rebinding => case'.rebound
      /\ case.rebound => case'.rebound
      /\ case'.cut = case.cut
  <2>1. CASE OpenEvidence
    BY <1>1, <2>1 DEF OpenEvidence, CaseTyped, Rebinding
  <2>2. CASE CopyEvidence
    <3>1. Rebinding => case.rebound
      BY <1>2, <2>2 DEF CopyEvidence, BuildInv, OpenIsFrozen
    <3>2. case'.rebound = case.rebound /\ case'.bound = case.bound /\ case'.meta = case.meta
          /\ case'.cut = case.cut
      BY <1>1, <2>2 DEF CopyEvidence, CaseTyped
    <3> QED
      BY <3>1, <3>2
  <2>3. CASE case' = case
    BY <2>3
  <2> QED
    BY <2>1, <2>2, <2>3 DEF SkipBinding, RetainQualification, CheckBoundDigest
<1> QED
  BY <1>2, <1>3, <1>4, <1>5
  DEF BuildInv, BeforeRecord, AfterSanitize, AfterBindings, AfterEach, AfterBind, AfterSurvey

LEMMA UnlinkBuild ==
  ASSUME CaseTypeOK, Running => BuildInv, NEW p \in Paths, UnlinkUnbound(p)
  PROVE  /\ BuildInv' /\ Running /\ Step = "prune"
         /\ case'.bound = case.bound
         /\ Rebinding => case'.rebound
<1>1. CaseTyped /\ Running /\ Step = "prune" /\ BuildInv /\ build' = build
  BY TypeSplit DEF UnlinkUnbound, At, Step
<1>2. case'.bound = case.bound /\ case'.meta = case.meta /\ (Rebinding => case'.rebound)
  BY <1>1 DEF UnlinkUnbound, CaseTyped, Rebinding
<1>3. Step' = "prune" /\ (Rebinding <=> Rebinding') /\ (Harness <=> Harness')
  BY <1>1 DEF Step, Rebinding, Harness
<1> QED
  BY <1>1, <1>2, <1>3 DEF BuildInv, AfterEach, AfterBind, AfterSurvey

LEMMA RemovesBuild ==
  ASSUME CaseTypeOK, Running => BuildInv, Removes
  PROVE  BuildInv'
<1>1. Running /\ Step = "clear" /\ build' = build
  BY TypeSplit, RemovesTyped
<1>2. Step' = "clear" /\ BuildInv
  BY <1>1 DEF Step
<1> QED
  BY <1>1, <1>2 DEF BuildInv, BeforeRecord, AfterSanitize, AfterBindings, AfterEach, AfterBind,
     AfterSurvey

\* A removal that stops early leaves some files of the manifest and no others.
LEMMA RemovesKeepTrue ==
  ASSUME CaseTypeOK, BoundManifestIsTrue, Removes
  PROVE  BoundManifestIsTrue'
<1>1. CaseTyped
  BY TypeSplit
<1>2. /\ case'.rebound = case.rebound /\ case'.cut = TRUE
      /\ case'.bound \in {case.bound, None}
      /\ \A p \in Paths : case'.files[p] \in {case.files[p], None}
  BY <1>1, RemovesTyped
<1>3. CASE case'.bound = None
  BY <1>3 DEF BoundManifestIsTrue
<1>4. CASE case'.bound = case.bound /\ case.bound # None /\ ~case.rebound
  <2>1. \A b \in ToSet(case.bound) : b.path \in Paths
    <3>1. case.bound \in Seq(Bindings)
      BY <1>1, <1>4 DEF CaseTyped
    <3>2. ToSet(case.bound) \subseteq Bindings
      BY <3>1 DEF ToSet
    <3> QED
      BY <3>2 DEF Bindings
  <2>2. Managed(case'.files) \subseteq Managed(case.files)
    BY <1>2 DEF Managed
  <2> QED
    BY <1>2, <1>4, <2>1, <2>2 DEF BoundManifestIsTrue
<1> QED
  BY <1>2, <1>3, <1>4 DEF BoundManifestIsTrue

LEMMA StartBuilds ==
  ASSUME NEW d \in Drivers, StartBuild(d)
  PROVE  BuildInv'
<1>1. build' = [Idle EXCEPT !.driver = d, !.at = 1]
  BY DEF StartBuild
<1>2. build'.driver = d /\ build'.at = 1 /\ build'.phase = "check"
  BY <1>1 DEF Idle
<1>3. Step' \in {"audit", "materialize", "bindings"} /\ (Step' = "bindings" => Rebinding')
  BY <1>2, RouteEnds DEF Step, Rebinding
<1>4. Step' = "bindings" => build'.driver \notin Audited
  BY <1>3 DEF Rebinding, Audited
<1> QED
  BY <1>2, <1>3, <1>4
  DEF BuildInv, BeforeRecord, AfterSanitize, AfterBindings, AfterEach, AfterBind, AfterSurvey

\* What the surroundings do to the envelope, the sources and the retained case does not
\* touch what is known of the case.
LEMMA SurroundingsBuild ==
  ASSUME Running => BuildInv, UNCHANGED <<unit, case, build>>
  PROVE  (Running => BuildInv)' /\ (BoundManifestIsTrue => BoundManifestIsTrue')
<1>1. Step' = Step /\ (Rebinding <=> Rebinding') /\ (Harness <=> Harness')
      /\ (Running <=> Running')
  BY DEF Step, Rebinding, Harness, Running
<1>2. BindingsHeld => BindingsHeld'
  BY BindingsHeldKept
<1>3. OpenIsFrozen => OpenIsFrozen'
  BY <1>1 DEF OpenIsFrozen, FrozenAs
<1>4. BuildInv => BuildInv'
  BY <1>1, <1>2, <1>3 DEF BuildInv, Managed
<1> QED
  BY <1>1, <1>4 DEF BoundManifestIsTrue, Managed

----------------------------------------------------------------------------
(* The record of the bindings. *)

LEMMA RecordIsTrue ==
  ASSUME CaseTypeOK, Running => BuildInv, WriteBoundManifest
  PROVE  BoundManifestIsTrue'
<1>1. CaseTyped /\ BuildTyped /\ Running /\ Step = "record" /\ BuildInv
  BY TypeSplit DEF WriteBoundManifest, At, Step
<1>2. case'.files = case.files /\ case'.bound = build.bindings
  BY <1>1 DEF WriteBoundManifest, CaseTyped
<1>3. ~Harness
  <2>1. build.driver \in Drivers /\ build.at \in 1 .. Len(Routes[build.driver])
    BY <1>1 DEF BuildTyped
  <2>2. ASSUME Harness
        PROVE  FALSE
    <3>1. build.at \in 1 .. 13
      BY <2>1, <2>2, RoutesTyped DEF Harness
    <3>2. Routes["harness"][build.at] # "record"
      BY <3>1 DEF Routes
    <3> QED
      BY <1>1, <2>2, <3>2 DEF Step, Harness
  <2> QED
    BY <2>2
<1>4. /\ \A b \in ToSet(build.bindings) : Held(b)
      /\ Managed(case.files) \subseteq Bound(build.bindings)
  BY <1>1, <1>3, AllHeld DEF BuildInv, AfterEach, AfterBind, AfterSurvey
<1>5. \A b \in ToSet(build.bindings) : case.files[b.path] = b.digest
  BY <1>3, <1>4 DEF Held
<1>6. \A b \in ToSet(build.bindings) : b.digest \in Bytes /\ b.path \in Paths
  <2>1. build.bindings \in Seq(Bindings)
    BY <1>1 DEF BuildTyped
  <2>2. ToSet(build.bindings) \subseteq Bindings
    BY <2>1 DEF ToSet
  <2> QED
    BY <2>2 DEF Bindings
<1>7. Bound(build.bindings) \subseteq Managed(case.files)
  BY <1>5, <1>6, CaseConstants DEF Bound, Managed
<1> QED
  BY <1>2, <1>4, <1>5, <1>7 DEF BoundManifestIsTrue, Managed, Bound

----------------------------------------------------------------------------
(* The theorems. *)

LEMMA CaseInitially == CaseInit => CaseInv
<1> SUFFICES ASSUME CaseInit
             PROVE  CaseInv
  OBVIOUS
<1>1. unit \in Units /\ case = NoCase /\ build = Idle
  BY DEF CaseInit
<1>2. CaseTypeOK
  BY <1>1, UnitTyped, IdleTyped, NoCaseTyped DEF CaseInit, CaseTypeOK, Running
<1>3. ~Running /\ BoundManifestIsTrue
  BY <1>1 DEF Idle, Running, BoundManifestIsTrue, NoCase
<1> QED
  BY <1>2, <1>3 DEF CaseInv

LEMMA CaseStep == CaseInv /\ [CaseNext]_caseVars => CaseInv'
<1> SUFFICES ASSUME CaseInv, [CaseNext]_caseVars
             PROVE  CaseInv'
  OBVIOUS
<1>1. CaseTypeOK /\ CaseTyped /\ BoundManifestIsTrue /\ (Running => BuildInv)
  BY TypeSplit DEF CaseInv
<1>2. CaseTypeOK'
  BY <1>1, CaseTypeStep
<1>3. ASSUME case'.files = case.files, case'.bound = case.bound, case'.rebound = case.rebound,
             case'.cut = case.cut
      PROVE  BoundManifestIsTrue'
  BY <1>1, <1>3 DEF BoundManifestIsTrue, Managed
\* A build that changes a file has no manifest, unless it binds again.
<1>4. ASSUME Running, Step \in BeforeRecord, case'.bound = case.bound,
             Rebinding => case'.rebound
      PROVE  BoundManifestIsTrue'
  <2>1. ~Rebinding => case.bound = None
    BY <1>1, <1>4 DEF BuildInv
  <2> QED
    BY <1>4, <2>1 DEF BoundManifestIsTrue
<1>5. CASE Passes
  <2>1. case' = case
    BY <1>5 DEF Passes, Audit, FreezeGate, Materialize, NoOverlay, PruneDone, AllBound,
                SurveyManaged, Preflight, Verify, CaseOnly
  <2> QED
    BY <1>1, <1>2, <1>3, <1>5, <2>1, PassesBuild DEF CaseInv
<1>6. CASE Writes
  <2>1. CASE ClearOutput
    <3>1. BoundManifestIsTrue'
      BY <2>1 DEF ClearOutput, NoCase, BoundManifestIsTrue
    <3> QED
      BY <1>1, <1>2, <1>6, <3>1, WritesBuild DEF CaseInv
  <2>2. CASE CopyLegacy
    <3>1. Running /\ Step = "legacy" /\ case'.bound = case.bound
      BY <1>1, <2>2 DEF CopyLegacy, CaseTyped, At, Step
    <3>2. ~Rebinding
      <4>1. build.driver \in Drivers /\ build.at \in 1 .. Len(Routes[build.driver])
        BY <1>1, <3>1 DEF CaseTypeOK
      <4>2. ASSUME Rebinding
            PROVE  FALSE
        <5>1. build.at \in 1 .. 5
          BY <4>1, <4>2, RoutesTyped DEF Rebinding
        <5>2. Routes["rebind"][build.at] # "legacy"
          BY <5>1 DEF Routes
        <5> QED
          BY <3>1, <4>2, <5>2 DEF Step, Rebinding
      <4> QED
        BY <4>2
    <3>3. BoundManifestIsTrue'
      BY <1>4, <3>1, <3>2 DEF BeforeRecord
    <3> QED
      BY <1>1, <1>2, <1>6, <3>3, WritesBuild DEF CaseInv
  <2>3. CASE WriteAdapter \/ ApplyOverlay \/ RetitleCase \/ SanitizeMetadata
    <3>1. /\ case'.files = case.files /\ case'.bound = case.bound
          /\ case'.rebound = case.rebound /\ case'.cut = case.cut
      BY <1>1, <2>3 DEF WriteAdapter, ApplyOverlay, RetitleCase, SanitizeMetadata, CaseTyped
    <3> QED
      BY <1>1, <1>2, <1>3, <1>6, <3>1, WritesBuild DEF CaseInv
  <2>4. CASE WriteBoundManifest
    <3>1. BoundManifestIsTrue'
      BY <1>1, <2>4, RecordIsTrue
    <3> QED
      BY <1>1, <1>2, <1>6, <3>1, WritesBuild DEF CaseInv
  <2> QED
    BY <1>6, <2>1, <2>2, <2>3, <2>4 DEF Writes
<1>7. CASE OpenEvidence \/ CopyEvidence \/ SkipBinding \/ RetainQualification \/ CheckBoundDigest
  <2>1. BuildInv' /\ case'.bound = case.bound
        /\ (case'.files # case.files /\ Rebinding => case'.rebound)
        /\ (case.rebound => case'.rebound) /\ case'.cut = case.cut
    BY <1>1, <1>7, BindBuild
  <2>2. Running /\ Step = "bind" /\ BuildInv
    BY <1>1, <1>7 DEF OpenEvidence, CopyEvidence, SkipBinding, RetainQualification,
                      CheckBoundDigest, NextIs, At, Step
  <2>3. BoundManifestIsTrue'
    <3>1. CASE ~Rebinding \/ case'.rebound
      BY <1>4, <2>1, <2>2, <3>1 DEF BeforeRecord
    <3>2. CASE Rebinding /\ ~case'.rebound
      BY <1>1, <2>1, <3>2 DEF BoundManifestIsTrue, Managed
    <3> QED
      BY <3>1, <3>2
  <2> QED
    BY <1>2, <2>1, <2>3 DEF CaseInv
<1>8. CASE NormalizeBindings \/ EmpiricalBindings
  <2>1. case' = case
    BY <1>8 DEF NormalizeBindings, EmpiricalBindings
  <2> QED
    BY <1>1, <1>2, <1>3, <1>8, <2>1, ReadsBuild DEF CaseInv
<1>9. ASSUME NEW p \in Paths, UnlinkUnbound(p)
      PROVE  CaseInv'
  BY <1>1, <1>2, <1>4, <1>9, UnlinkBuild DEF CaseInv, BeforeRecord
<1>16. CASE Removes
  BY <1>1, <1>2, <1>16, RemovesBuild, RemovesKeepTrue DEF CaseInv
<1>10. ASSUME NEW d \in Drivers, StartBuild(d)
       PROVE  CaseInv'
  <2>1. case' = case
    BY <1>10 DEF StartBuild
  <2> QED
    BY <1>2, <1>3, <1>10, <2>1, StartBuilds DEF CaseInv
<1>11. CASE BuildStops
  <2>1. case' = case /\ ~Running'
    BY <1>11 DEF BuildStops, Idle, Running
  <2> QED
    BY <1>2, <1>3, <2>1 DEF CaseInv
<1>12. ASSUME UNCHANGED <<unit, case, build>>
       PROVE  CaseInv'
  BY <1>1, <1>2, <1>12, SurroundingsBuild DEF CaseInv
<1>13. CASE EditEnvelope \/ OtherRemovesCases \/ UNCHANGED caseVars
  BY <1>12, <1>13 DEF EditEnvelope, OtherRemovesCases, caseVars
<1>14. ASSUME NEW s \in Sources, EditSource(s)
       PROVE  CaseInv'
  BY <1>12, <1>14 DEF EditSource
<1>15. ASSUME NEW p \in Paths, OtherExtracts(p)
       PROVE  CaseInv'
  BY <1>12, <1>15 DEF OtherExtracts
<1> QED
  BY <1>5, <1>6, <1>7, <1>8, <1>9, <1>10, <1>11, <1>13, <1>14, <1>15, <1>16
  DEF CaseNext, Passes, Writes, Removes

\* The invariant of the builds.
THEOREM CaseInvariant == CaseSpec => []CaseInv
BY CaseInitially, CaseStep, PTL DEF CaseSpec

\* For all units, envelopes and frozen paths the state of a build stays well-formed.
THEOREM CaseTypeCorrect == CaseSpec => []CaseTypeOK
<1>1. CaseInv => CaseTypeOK
  BY DEF CaseInv
<1> QED
  BY <1>1, CaseInvariant, PTL

\* The bound-evidence manifest of a case tells the truth about its files
\* (corpus01_bound_evidence.py:147), wherever builds stop; when it stops in the middle of
\* shutil.rmtree (tools/vbe_compile.py:112), about those that are left.
THEOREM BoundManifestsAreTrue == CaseSpec => []BoundManifestIsTrue
<1>1. CaseInv => BoundManifestIsTrue
  BY DEF CaseInv
<1> QED
  BY <1>1, CaseInvariant, PTL

\* What the verifier gets holds frozen evidence, and in a v0.8 case nothing but what the
\* envelope declares (corpus01_bound_evidence.py:122), for any number of bindings and any
\* interference.
THEOREM VerifiedCasesAreBound == CaseSpec => []VerifiedCaseIsBound
<1>1. CaseInv => VerifiedCaseIsBound
  <2> SUFFICES ASSUME CaseInv, At("verify")
               PROVE  /\ case.meta = "target"
                      /\ \A b \in ToSet(build.bindings) : b.kind = "EVIDENCE" =>
                           \E s \in Sources : FrozenAs(case.files[b.path]) = {s}
                      /\ build.driver = "v08" =>
                           /\ Managed(case.files) = Bound(build.bindings)
                           /\ \A b \in ToSet(build.bindings) : case.files[b.path] = b.digest
    BY DEF VerifiedCaseIsBound
  <2>1. BuildTyped /\ Running /\ Step = "verify" /\ BuildInv
    BY TypeSplit DEF CaseInv, At, Step
  <2>2. build.driver \in Audited
    <3>1. build.driver \in Drivers /\ build.at \in 1 .. Len(Routes[build.driver])
      BY <2>1 DEF BuildTyped
    <3>2. CASE build.driver = "probe"
      <4>1. build.at \in 1 .. 12
        BY <3>1, <3>2, RoutesTyped
      <4>2. Routes["probe"][build.at] # "verify"
        BY <4>1 DEF Routes
      <4> QED
        BY <2>1, <3>2, <4>2 DEF Step
    <3>3. CASE build.driver = "rebind"
      <4>1. build.at \in 1 .. 5
        BY <3>1, <3>3, RoutesTyped
      <4>2. Routes["rebind"][build.at] # "verify"
        BY <4>1 DEF Routes
      <4> QED
        BY <2>1, <3>3, <4>2 DEF Step
    <3> QED
      BY <3>1, <3>2, <3>3, RoutesTyped DEF Audited
  <2>3. /\ case.meta = "target"
        /\ \A b \in ToSet(build.bindings) : Held(b)
        /\ ~Harness => Managed(case.files) \subseteq Bound(build.bindings)
    BY <2>1, <2>2, AllHeld DEF BuildInv, AfterSanitize, AfterEach, AfterBind, AfterSurvey
  <2>4. build.driver = "v08" => \A b \in ToSet(build.bindings) : case.files[b.path] = b.digest
    BY <2>3 DEF Held, Harness
  <2>5. \A b \in ToSet(build.bindings) : b.digest \in Bytes /\ b.path \in Paths
    <3>1. build.bindings \in Seq(Bindings)
      BY <2>1 DEF BuildTyped
    <3>2. ToSet(build.bindings) \subseteq Bindings
      BY <3>1 DEF ToSet
    <3> QED
      BY <3>2 DEF Bindings
  <2>6. build.driver = "v08" => Managed(case.files) = Bound(build.bindings)
    BY <2>3, <2>4, <2>5, CaseConstants DEF Bound, Managed, Harness
  <2> QED
    BY <2>3, <2>4, <2>6 DEF Held
<1> QED
  BY <1>1, CaseInvariant, PTL
----------------------------------------------------------------------------
(* What a build that nobody edits compiles. *)

AfterOverlay == {"title", "sanitize"} \cup AfterSanitize

\* The envelope with the declared edges of the overlay.
Compiled(adapter) ==
  /\ adapter \in Envelopes
  /\ [adapter EXCEPT !.edges = {}] = [envelope EXCEPT !.edges = {}]
  /\ adapter.edges =
       envelope.edges \cup (IF unit.overlay = None THEN {} ELSE unit.overlay.expected)

\* A step works on the envelope that was audited and compiled.
FrozenInv ==
  /\ build.driver \in Audited /\ Step # "audit" => ProvenanceComplete(envelope)
  /\ Step = "overlay" => case.adapter = envelope
  /\ ~Rebinding /\ Step \in AfterOverlay => Compiled(case.adapter)
  /\ build.driver \in Audited /\ Step \in AfterOverlay => ProvenanceComplete(case.adapter)
  /\ Step \in AfterBindings => build.bindings = envelope.bindings
UneditedInv == Running /\ ~unit.edits => FrozenInv

\* More edges reach no less.
LEMMA ReachesMonotone ==
  ASSUME NEW node, NEW roots, NEW E, NEW F, E \subseteq F, Reaches(node, roots, E)
  PROVE  Reaches(node, roots, F)
BY DEF Reaches

\* An overlay that fits a complete envelope leaves it complete: what it adds begins and
\* ends at nodes that are there.
LEMMA OverlayKeepsComplete ==
  ASSUME NEW o, NEW a \in Envelopes, OverlayFits(o, a), ProvenanceComplete(a),
         NEW b \in Envelopes, b.nodes = a.nodes, b.roots = a.roots, b.facts = a.facts,
         b.edges = a.edges \cup OverlayEdges(o, a)
  PROVE  ProvenanceComplete(b)
<1>1. \A edge \in OverlayEdges(o, a) : edge[1] \in a.nodes /\ edge[3] \in a.nodes
  BY DEF OverlayFits, OverlayEdges
<1>2. \A edge \in b.edges : edge[1] \in b.nodes /\ edge[3] \in b.nodes
  BY <1>1 DEF ProvenanceComplete
<1>3. \A f \in b.facts : f.established => f.node \in b.nodes /\ Reaches(f.node, b.roots, b.edges)
  <2>1. a.edges \subseteq b.edges
    OBVIOUS
  <2> QED
    BY <2>1, ReachesMonotone DEF ProvenanceComplete
<1> QED
  BY <1>2, <1>3 DEF ProvenanceComplete

\* Which steps of a route come before the later ones.
LEMMA BeforeLater ==
  ASSUME NEW d \in Drivers, NEW x, NEW y, Follows(d, x, y)
  PROVE  /\ y \in AfterOverlay /\ d # "rebind" => x \in AfterOverlay \/ x = "overlay"
         /\ y \in AfterBindings => x \in AfterBindings \/ x \in {"bindings", "empirical"}
         /\ y = "overlay" => x = "adapter"
         /\ y # "audit"
         /\ y \in AfterOverlay => y # "overlay"
BY DEF Follows, AfterOverlay, AfterSanitize, AfterBindings

\* The case a build goes on with, whatever the step has done to it.
LEMMA FrozenOnward ==
  ASSUME BuildTyped, Running, Goes, Running', FrozenInv, UNCHANGED <<unit, envelope>>,
         Step \notin {"bindings", "empirical"},
         Step = "audit" => ProvenanceComplete(envelope),
         Step = "adapter" => case'.adapter = envelope,
         Step = "overlay" => /\ Compiled(case'.adapter)
                             /\ build.driver \in Audited => ProvenanceComplete(case'.adapter),
         Step \in AfterOverlay => case'.adapter = case.adapter
  PROVE  FrozenInv'
<1>1. /\ build'.driver = build.driver /\ build'.bindings = build.bindings
      /\ Follows(build.driver, Step, Step') /\ build.driver \in Drivers
  BY GoesOnward DEF BuildTyped
<1>2. /\ Step' \in AfterOverlay /\ ~Rebinding => Step \in AfterOverlay \/ Step = "overlay"
      /\ Step' \in AfterBindings => Step \in AfterBindings
      /\ Step' = "overlay" => Step = "adapter"
  BY <1>1, BeforeLater DEF Rebinding
<1>3. \A a : Compiled(a)' <=> Compiled(a)
  BY DEF Compiled
<1>4. build'.driver \in Audited => ProvenanceComplete(envelope')
  BY <1>1 DEF FrozenInv
<1>5. Step' = "overlay" => case'.adapter = envelope'
  BY <1>2
<1>6. ~Rebinding' /\ Step' \in AfterOverlay => Compiled(case'.adapter)
  BY <1>1, <1>2 DEF FrozenInv, Rebinding
<1>7. build'.driver \in Audited /\ Step' \in AfterOverlay => ProvenanceComplete(case'.adapter)
  <2>1. build.driver \in Audited => ~Rebinding
    BY DEF Audited, Rebinding
  <2> QED
    BY <1>1, <1>2, <2>1 DEF FrozenInv
<1>8. Step' \in AfterBindings => build'.bindings = envelope'.bindings
  BY <1>1, <1>2 DEF FrozenInv
<1> QED
  BY <1>4, <1>5, <1>6, <1>7, <1>8 DEF FrozenInv, Compiled, ProvenanceComplete

LEMMA FrozenStays ==
  ASSUME FrozenInv, UNCHANGED <<unit, envelope>>, Step' = Step, build'.driver = build.driver,
         build'.bindings = build.bindings, case'.adapter = case.adapter
  PROVE  FrozenInv'
BY DEF FrozenInv, Compiled, Rebinding, ProvenanceComplete

LEMMA PassesFrozen ==
  ASSUME CaseTypeOK, Running => BuildInv, FrozenInv, Passes, Running' PROVE FrozenInv'
<1>1. BuildTyped /\ envelope \in Envelopes
  BY TypeSplit, UnitTyped
<1>2. Running /\ Goes /\ UNCHANGED <<unit, envelope, case>>
  BY DEF Passes, Audit, FreezeGate, Materialize, NoOverlay, PruneDone, AllBound, SurveyManaged,
         Preflight, Verify, At, CaseOnly
<1>3. Step \notin {"bindings", "empirical", "adapter"}
  BY DEF Passes, Audit, FreezeGate, Materialize, NoOverlay, PruneDone, AllBound, SurveyManaged,
         Preflight, Verify, At, Step
<1>4. Step = "audit" => ProvenanceComplete(envelope)
  BY DEF Passes, Audit, FreezeGate, Materialize, NoOverlay, PruneDone, AllBound, SurveyManaged,
         Preflight, Verify, At, Step, AuditPasses
<1>5. Step = "overlay" => /\ Compiled(case.adapter)
                          /\ build.driver \in Audited => ProvenanceComplete(case.adapter)
  <2> SUFFICES ASSUME Step = "overlay"
               PROVE  /\ Compiled(case.adapter)
                      /\ build.driver \in Audited => ProvenanceComplete(case.adapter)
    OBVIOUS
  <2>1. unit.overlay = None
    BY DEF Passes, Audit, FreezeGate, Materialize, NoOverlay, PruneDone, AllBound, SurveyManaged,
           Preflight, Verify, At, Step
  <2>2. case.adapter = envelope
    BY DEF FrozenInv
  <2>3. build.driver \in Audited => ProvenanceComplete(envelope)
    BY DEF FrozenInv
  <2> QED
    BY <1>1, <2>1, <2>2, <2>3 DEF Compiled
<1> QED
  BY <1>1, <1>2, <1>3, <1>4, <1>5, FrozenOnward

LEMMA WritesFrozen ==
  ASSUME CaseTypeOK, Running => BuildInv, FrozenInv, Writes, Running' PROVE FrozenInv'
<1>1. BuildTyped /\ CaseTyped /\ envelope \in Envelopes /\ unit.overlay \in Overlays \cup {None}
  BY TypeSplit, UnitTyped
<1>2. Running /\ Goes /\ UNCHANGED <<unit, envelope>>
  BY DEF Writes, ClearOutput, CopyLegacy, WriteAdapter, ApplyOverlay, RetitleCase,
         SanitizeMetadata, WriteBoundManifest, At, CaseOnly
<1>3. Step \in {"clear", "legacy", "adapter", "overlay", "title", "sanitize", "record"}
  BY DEF Writes, ClearOutput, CopyLegacy, WriteAdapter, ApplyOverlay, RetitleCase,
         SanitizeMetadata, WriteBoundManifest, At, Step
<1>4. Step = "adapter" => case'.adapter = envelope
  <2>1. Step = "adapter" => WriteAdapter
    BY DEF Writes, ClearOutput, CopyLegacy, WriteAdapter, ApplyOverlay, RetitleCase,
           SanitizeMetadata, WriteBoundManifest, At, Step
  <2> QED
    BY <2>1, <1>1 DEF WriteAdapter, CaseTyped
<1>5. Step \in AfterOverlay => case'.adapter = case.adapter
  <2>1. Step \in AfterOverlay => RetitleCase \/ SanitizeMetadata \/ WriteBoundManifest
    BY DEF Writes, ClearOutput, CopyLegacy, WriteAdapter, ApplyOverlay, RetitleCase,
           SanitizeMetadata, WriteBoundManifest, At, Step, AfterOverlay, AfterSanitize
  <2> QED
    BY <2>1, <1>1 DEF RetitleCase, SanitizeMetadata, WriteBoundManifest, CaseTyped
<1>6. ASSUME Step = "overlay"
      PROVE  /\ Compiled(case'.adapter)
             /\ build.driver \in Audited => ProvenanceComplete(case'.adapter)
  <2>1. ApplyOverlay
    BY <1>6 DEF Writes, ClearOutput, CopyLegacy, WriteAdapter, ApplyOverlay, RetitleCase,
           SanitizeMetadata, WriteBoundManifest, At, Step
  <2> DEFINE o == unit.overlay
             a == case.adapter
             e == a.edges \cup OverlayEdges(o, a)
             b == [a EXCEPT !.edges = e]
  <2>2. a = envelope /\ a \in Envelopes /\ o \in Overlays /\ o # None
    BY <1>1, <1>6, <2>1 DEF FrozenInv, ApplyOverlay
  <2>3. OverlayFits(o, a)
    BY <2>1 DEF ApplyOverlay
  <2>4. case'.adapter = b
    BY <1>1, <2>1 DEF ApplyOverlay, CaseTyped
  <2>5. e \subseteq Edges
    BY <2>2, <2>3, OverlayTyped
  <2>6. e = a.edges \cup o.expected
    BY <2>3 DEF OverlayFits
  <2> HIDE DEF e
  <2>7. b \in Envelopes /\ b.edges = e /\ b.nodes = a.nodes /\ b.roots = a.roots /\ b.facts = a.facts
    BY <2>2, <2>5 DEF Envelopes
  <2>8. [b EXCEPT !.edges = {}] = [a EXCEPT !.edges = {}]
    BY <2>2 DEF Envelopes
  <2>9. Compiled(b)
    BY <2>2, <2>6, <2>7, <2>8 DEF Compiled
  <2>10. build.driver \in Audited => ProvenanceComplete(a)
    BY <1>6, <2>2 DEF FrozenInv
  <2> HIDE DEF b
  <2>11. build.driver \in Audited => ProvenanceComplete(b)
    BY <2>2, <2>3, <2>7, <2>10, OverlayKeepsComplete DEF e
  <2> QED
    BY <2>4, <2>9, <2>11
<1> QED
  BY <1>1, <1>2, <1>3, <1>4, <1>5, <1>6, FrozenOnward

LEMMA ReadsFrozen ==
  ASSUME CaseTypeOK, Running => BuildInv, FrozenInv, NormalizeBindings \/ EmpiricalBindings
  PROVE  FrozenInv'
<1>1. BuildTyped /\ envelope.bindings \in Seq(Bindings)
  BY TypeSplit, UnitTyped DEF Envelopes
<1>2. Running /\ UNCHANGED <<unit, envelope, case>> /\ Step \in {"bindings", "empirical"}
  BY DEF NormalizeBindings, EmpiricalBindings, At, Step
<1>3. build' = [build EXCEPT !.at = @ + 1, !.bindings = envelope.bindings,
                             !.todo = envelope.bindings]
  BY DEF NormalizeBindings, EmpiricalBindings
<1>4. /\ build'.driver = build.driver /\ build'.bindings = envelope.bindings
      /\ Follows(build.driver, Step, Step') /\ build.driver \in Drivers
  BY <1>1, <1>2, <1>3, ReadsOnward DEF BuildTyped
<1>5. /\ Step' \in AfterOverlay /\ ~Rebinding => Step \in AfterOverlay
      /\ Step' # "overlay"
      /\ Step # "audit"
  BY <1>2, <1>4, BeforeLater DEF Rebinding
<1>6. build.driver \in Audited => ~Rebinding
  BY DEF Audited, Rebinding
<1> QED
  BY <1>2, <1>4, <1>5, <1>6 DEF FrozenInv, Compiled, Rebinding, ProvenanceComplete

LEMMA StartFrozen == ASSUME NEW d \in Drivers, StartBuild(d) PROVE FrozenInv'
<1>1. build' = [Idle EXCEPT !.driver = d, !.at = 1]
  BY DEF StartBuild
<1>2. build'.driver = d /\ build'.at = 1
  BY <1>1 DEF Idle
<1>3. Step' = Routes[d][1]
  BY <1>2 DEF Step
<1>4. /\ Step' \in {"audit", "materialize", "bindings"}
      /\ Step' = "bindings" => d = "rebind"
      /\ d \in Audited => Step' = "audit"
  BY <1>3, RouteEnds DEF Audited, Routes
<1> QED
  BY <1>2, <1>4 DEF FrozenInv, Rebinding, Audited, AfterOverlay, AfterSanitize, AfterBindings

LEMMA UneditedStep == ASSUME CaseInv, UneditedInv, [CaseNext]_caseVars PROVE UneditedInv'
<1>1. CaseTypeOK /\ CaseTyped /\ BuildTyped /\ (Running => BuildInv)
  BY TypeSplit DEF CaseInv
<1>2. ASSUME UNCHANGED <<unit, envelope, case, build>> PROVE UneditedInv'
  <2>1. (Running' <=> Running) /\ Step' = Step
    BY <1>2 DEF Running, Step
  <2> QED
    BY <2>1, <1>2, FrozenStays DEF UneditedInv
<1>3. CASE Passes \/ Writes
  <2>1. Running /\ unit' = unit
    BY <1>3 DEF Passes, Audit, FreezeGate, Materialize, NoOverlay, PruneDone, AllBound,
       SurveyManaged, Preflight, Verify, Writes, ClearOutput, CopyLegacy, WriteAdapter,
       ApplyOverlay, RetitleCase, SanitizeMetadata, WriteBoundManifest, At, CaseOnly
  <2> QED
    BY <2>1, <1>1, <1>3, PassesFrozen, WritesFrozen DEF UneditedInv
<1>4. CASE OpenEvidence \/ CopyEvidence \/ SkipBinding \/ RetainQualification \/ CheckBoundDigest
  <2>1. Running /\ Stays /\ CaseOnly
    BY <1>1, <1>4, BindSteps DEF CaseTypeOK
  <2>2. case'.adapter = case.adapter
    BY <1>1, <1>4 DEF OpenEvidence, CopyEvidence, SkipBinding, RetainQualification,
       CheckBoundDigest, CaseTyped
  <2> QED
    BY <2>1, <2>2, FrozenStays DEF UneditedInv, Stays, CaseOnly
<1>5. CASE NormalizeBindings \/ EmpiricalBindings
  <2>1. Running /\ unit' = unit
    BY <1>5 DEF NormalizeBindings, EmpiricalBindings, At
  <2> QED
    BY <2>1, <1>1, <1>5, ReadsFrozen DEF UneditedInv
<1>6. ASSUME NEW p \in Paths, UnlinkUnbound(p) PROVE UneditedInv'
  <2>1. UNCHANGED <<unit, envelope, build>> /\ case'.adapter = case.adapter
    BY <1>1, <1>6 DEF UnlinkUnbound, CaseOnly, CaseTyped
  <2>2. (Running' <=> Running) /\ Step' = Step
    BY <2>1 DEF Running, Step
  <2> QED
    BY <2>1, <2>2, FrozenStays DEF UneditedInv
<1>13. CASE Removes
  <2>1. Running /\ Step = "clear" /\ build' = build /\ CaseOnly
    BY <1>1, <1>13, RemovesTyped
  <2>2. (Running' <=> Running) /\ Step' = Step
    BY <2>1 DEF Running, Step
  <2> QED
    BY <2>1, <2>2 DEF UneditedInv, FrozenInv, AfterOverlay, AfterSanitize, AfterBindings,
       ProvenanceComplete, CaseOnly
<1>7. ASSUME NEW d \in Drivers, StartBuild(d) PROVE UneditedInv'
  BY <1>7, StartFrozen DEF UneditedInv
<1>8. CASE BuildStops
  BY <1>8 DEF BuildStops, Idle, Running, UneditedInv
\* Nobody edits during a build.
<1>9. CASE EditEnvelope
  BY <1>9 DEF EditEnvelope, AuthorMayAct, UneditedInv, Running
<1>10. ASSUME NEW s \in Sources, EditSource(s) PROVE UneditedInv'
  BY <1>2, <1>10 DEF EditSource
<1>11. CASE OtherRemovesCases \/ UNCHANGED caseVars
  BY <1>2, <1>11 DEF OtherRemovesCases, caseVars
<1>12. ASSUME NEW p \in Paths, OtherExtracts(p) PROVE UneditedInv'
  BY <1>2, <1>12 DEF OtherExtracts
<1> QED
  BY <1>3, <1>4, <1>5, <1>6, <1>7, <1>8, <1>9, <1>10, <1>11, <1>12, <1>13
  DEF CaseNext, Passes, Writes, Removes

\* The frozen envelope is what every step of an unedited build works on.
THEOREM UneditedInvariant == CaseSpec => []UneditedInv
<1>1. CaseInit => UneditedInv
  BY DEF CaseInit, UneditedInv, Running, Idle
<1>2. CaseInv /\ UneditedInv /\ [CaseNext]_caseVars => UneditedInv'
  BY UneditedStep
<1> QED
  BY <1>1, <1>2, CaseInvariant, PTL DEF CaseSpec

\* A unit that passed the audit passes the preflight, whatever its provenance graph, its
\* overlay and the bindings are.
THEOREM AuditsPredictPreflights == CaseSpec => []AuditPredictsPreflight
<1>1. UneditedInv => AuditPredictsPreflight
  BY DEF UneditedInv, FrozenInv, AuditPredictsPreflight, At, Step, Running, AfterOverlay,
         AfterSanitize
<1> QED
  BY <1>1, UneditedInvariant, PTL

\* The adapter that the verifier gets is the envelope of the unit with the declared edges
\* of its overlay and nothing else, whatever builds ended early before.
THEOREM AdaptersAreFrozenEnvelopes == CaseSpec => []AdapterIsFrozenEnvelope
<1>1. ASSUME CaseInv, UneditedInv, At("verify"), build.driver = "v08", ~unit.edits
      PROVE  /\ case.adapter.bindings = build.bindings
             /\ [case.adapter EXCEPT !.edges = {}] = [envelope EXCEPT !.edges = {}]
             /\ case.adapter.edges =
                  envelope.edges \cup (IF unit.overlay = None THEN {} ELSE unit.overlay.expected)
  <2>1. Compiled(case.adapter) /\ build.bindings = envelope.bindings
    BY <1>1 DEF UneditedInv, FrozenInv, At, Step, Running, Rebinding, AfterOverlay,
       AfterSanitize, AfterBindings
  <2>2. case.adapter \in Envelopes
    BY <2>1 DEF Compiled
  <2>3. case.adapter.bindings = [case.adapter EXCEPT !.edges = {}].bindings
    BY <2>2 DEF Envelopes
  <2>4. [envelope EXCEPT !.edges = {}].bindings = envelope.bindings
    <3>1. envelope \in Envelopes
      BY <1>1, TypeSplit, UnitTyped DEF CaseInv
    <3> QED
      BY <3>1 DEF Envelopes
  <2> QED
    BY <2>1, <2>3, <2>4 DEF Compiled
<1>2. CaseInv /\ UneditedInv => AdapterIsFrozenEnvelope
  BY <1>1 DEF AdapterIsFrozenEnvelope
<1> QED
  BY <1>2, CaseInvariant, UneditedInvariant, PTL

-----------------------------------------------------------------------------
(* The build of a case beside the enrollment, as MCCorpus composes them. *)

\* A behaviour of the composition is a behaviour of the enrollment and of the build of a
\* case (tools/corpus01_validate.py, tools/corpus01_compile.py), so that what is proved of
\* either holds there too.
THEOREM CorpusRunsItsParts == CorpusSpec => EnrollSpec /\ CaseSpec
<1>1. CorpusInit => EnrollInit /\ CaseInit
  BY DEF CorpusInit
<1>2. [CorpusNext]_<<enrollVars, caseVars, topic>> => [EnrollNext]_enrollVars /\ [CaseNext]_caseVars
  BY DEF CorpusNext
<1> QED
  BY <1>1, <1>2, PTL DEF CorpusSpec, EnrollSpec, CaseSpec
=============================================================================
