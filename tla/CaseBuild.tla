------------------------------ MODULE CaseBuild ------------------------------
(***************************************************************************)
(* How the drivers of the corpus build the case that the verifier gets:     *)
(* tools/corpus01_compile.py (over tools/vbe_compile.py) compiles a unit    *)
(* into a cleared directory that inherits the files of a retained case, may *)
(* apply a provenance overlay, and tools/corpus01_bound_evidence.py makes   *)
(* the evidence surface equal to the bindings of the carrier envelope,      *)
(* file by file and in place.  tools/corpus01_provenance_preflight.py is    *)
(* the last check before the verifier.                                      *)
(*                                                                         *)
(* The envelope and the frozen sources are read again at every step while   *)
(* an author may edit them, the retained case may be rebuilt by another     *)
(* process that runs tools/materialize_case_bundles.py, and a build may     *)
(* stop anywhere.  A digest is represented by the bytes it is of.           *)
(***************************************************************************)
EXTENDS Naturals, Sequences, SequencesExt

CONSTANTS
  Paths,     \* evidence/... and qualification/... below assurance/
  Sources,   \* paths of the repository that a manifest may freeze
  Bytes,     \* contents of files
  Nodes,     \* nodes of provenance graphs
  FactIds,   \* derivation facts
  Units,     \* the units that are built, see UnitRecords
  Torn,      \* content of a file while it is copied
  None

Kinds     == {"EVIDENCE", "QUALIFICATION", "OTHER"}
Relations == {"DERIVES", "USES"}
Edges     == Nodes \X Relations \X Nodes
Bindings  == [id : Nat, kind : Kinds, sealed : BOOLEAN, path : Paths, digest : Bytes]
Facts     == [id : FactIds, established : BOOLEAN, required : BOOLEAN, node : Nodes]
Envelopes ==
  [bindings : Seq(Bindings), nodes : SUBSET Nodes, edges : SUBSET Edges,
   roots : SUBSET Nodes, facts : SUBSET Facts]
Overlays ==
  [envelope : Envelopes, node : Nodes, root : Nodes, facts : SUBSET FactIds,
   expected : SUBSET Edges]

\* envelopes: the versions of the carrier envelope; frozen: the frozen_paths of the
\* manifest; retained: the retained case; edits: may the author act during a build?;
\* shared: may other processes materialize the retained cases meanwhile?
UnitRecords ==
  [accepted : BOOLEAN, envelopes : SUBSET Envelopes,
   frozen : [Sources -> Bytes \cup {None}], retained : [Paths -> Bytes \cup {None}],
   overlay : Overlays \cup {None}, edits : BOOLEAN, shared : BOOLEAN]

ASSUME CaseConstants ==
  /\ Units \subseteq UnitRecords
  /\ {None, Torn} \cap Bytes = {} /\ None # Torn
  /\ None \notin Overlays \cup Envelopes \cup Sources
  /\ \A unit \in Units : None \notin {unit.envelopes}

\* What each driver does with a case, in order.  The probe of the infrastructure
\* acceptance and a re-binding from the command line run the tools without an audit.
Routes  ==
  [v08     |-> <<"audit", "gate", "materialize", "clear", "legacy", "adapter", "overlay", "title",
                 "sanitize", "bindings", "prune", "bind", "survey", "record", "preflight", "verify">>,
   harness |-> <<"audit", "gate", "materialize", "clear", "legacy", "adapter", "overlay", "title",
                 "sanitize", "empirical", "bind", "preflight", "verify">>,
   probe   |-> <<"materialize", "clear", "legacy", "adapter", "overlay", "title",
                 "bindings", "prune", "bind", "survey", "record", "preflight">>,
   rebind  |-> <<"bindings", "prune", "bind", "survey", "record">>]
Drivers == DOMAIN Routes
Audited == {"v08", "harness"}

VARIABLES
  unit,      \* the unit, which stays
  envelope,  \* vbe.envelope.json as it is now
  repo,      \* the files that may be frozen, as they are now
  legacy,    \* the managed files of the retained case below cases/
  case,      \* the compiled case in the driver's work root, and whether its removal or
             \* a new binding has begun since its manifest was written
  build      \* the running build

caseVars == <<unit, envelope, repo, legacy, case, build>>

Records == {"adapter", "meta", "bound"}
NoFiles == [p \in Paths |-> None]
NoCase  == [files |-> NoFiles, adapter |-> None, meta |-> None, bound |-> None,
            rebound |-> FALSE, cut |-> FALSE]
Idle    == [driver |-> None, at |-> 0, bindings |-> <<>>, todo |-> <<>>,
            phase |-> "check", source |-> None]

CaseInit ==
  /\ unit \in Units
  /\ envelope \in unit.envelopes
  /\ repo = unit.frozen
  /\ legacy = unit.retained
  /\ case = NoCase
  /\ build = Idle

Running  == build.at # 0
At(step) == Running /\ Routes[build.driver][build.at] = step
AtLast   == build.at = Len(Routes[build.driver])
Goes     == build' = IF AtLast THEN Idle ELSE [build EXCEPT !.at = @ + 1]
CaseOnly == UNCHANGED <<unit, envelope, repo, legacy>>

----------------------------------------------------------------------------
(* The checks. *)

\* The breadth-first search of the tools finds a root from a node: every set of
\* nodes that has the node and is closed under the edges meets the roots.
Reaches(node, roots, edges) ==
  \A S \in SUBSET Nodes :
    (node \in S /\ \A e \in edges : e[1] \in S => e[3] \in S) => S \cap roots # {}

\* No finding about the provenance of an envelope or a compiled adapter.
ProvenanceComplete(e) ==
  /\ e.roots # {} /\ e.roots \subseteq e.nodes
  /\ \A edge \in e.edges : edge[1] \in e.nodes /\ edge[3] \in e.nodes
  /\ \A f \in e.facts : f.established =>
       f.node \in e.nodes /\ Reaches(f.node, e.roots, e.edges)

Digests(bindings, kind) == {b.digest : b \in {x \in ToSet(bindings) : x.kind = kind}}

\* Mutant: provenance is left to the preflight.
AuditPassesUnreached ==
  /\ \A s \in Sources : unit.frozen[s] # None => repo[s] = unit.frozen[s]
  /\ Digests(envelope.bindings, "EVIDENCE") \cap Digests(envelope.bindings, "QUALIFICATION") = {}
  /\ \A b \in ToSet(envelope.bindings) : b.kind = "QUALIFICATION" => b.sealed

\* The static preflight of a unit, for what a build depends on.
AuditPasses ==
  /\ \A s \in Sources : unit.frozen[s] # None => repo[s] = unit.frozen[s]
  /\ Digests(envelope.bindings, "EVIDENCE") \cap Digests(envelope.bindings, "QUALIFICATION") = {}
  /\ \A b \in ToSet(envelope.bindings) : b.kind = "QUALIFICATION" => b.sealed
  /\ ProvenanceComplete(envelope)

FrozenAs(digest) == {s \in Sources : unit.frozen[s] = digest}

----------------------------------------------------------------------------
(* Compilation. *)

StartBuild(d) ==
  /\ ~Running
  /\ d = "rebind" => case.adapter # None
  /\ build' = [Idle EXCEPT !.driver = d, !.at = 1]
  /\ UNCHANGED <<unit, envelope, repo, legacy, case>>

Audit ==
  /\ At("audit") /\ AuditPasses
  /\ Goes /\ UNCHANGED <<unit, envelope, repo, legacy, case>>

FreezeGate ==
  /\ At("gate") /\ unit.accepted
  /\ \A s \in Sources : unit.frozen[s] # None => repo[s] = unit.frozen[s]
  /\ Goes /\ UNCHANGED <<unit, envelope, repo, legacy, case>>

Materialize ==
  /\ At("materialize") /\ legacy' = unit.retained
  /\ Goes /\ UNCHANGED <<unit, envelope, repo, case>>

\* shutil.rmtree removes one entry after the other, in any order; failing or killed in
\* between (BuildStops) it leaves the others.
RemoveFile(p) ==
  /\ At("clear") /\ unit.accepted /\ case.files[p] # None
  /\ case' = [case EXCEPT !.files[p] = None, !.cut = TRUE]
  /\ UNCHANGED build /\ CaseOnly

RemoveRecord(r) ==
  /\ At("clear") /\ unit.accepted /\ case[r] # None
  /\ case' = [case EXCEPT ![r] = None, !.cut = TRUE]
  /\ UNCHANGED build /\ CaseOnly

\* Mutant: the bound-evidence manifest of an earlier build may stay.
ClearOutputButManifest ==
  /\ At("clear") /\ unit.accepted
  /\ case.files = NoFiles /\ case.adapter = None /\ case.meta = None
  /\ case' = [NoCase EXCEPT !.bound = case.bound]
  /\ Goes /\ CaseOnly

ClearOutput ==
  /\ At("clear") /\ unit.accepted
  /\ case.files = NoFiles /\ \A r \in Records : case[r] = None
  /\ case' = NoCase
  /\ Goes /\ CaseOnly

\* Files that another materialization has removed and not yet extracted are not there.
CopyLegacy ==
  /\ At("legacy")
  /\ case' = [case EXCEPT !.files = legacy]
  /\ Goes /\ CaseOnly

WriteAdapter ==
  /\ At("adapter")
  /\ case' = [case EXCEPT !.adapter = envelope, !.meta = "calibration"]
  /\ Goes /\ CaseOnly

OverlayEdges(o, adapter) ==
  {<<f.node, "USES", o.node>> : f \in {x \in adapter.facts : x.id \in o.facts}}

\* Mutant: the added edges are not compared with the declared ones.
OverlayFitsAnyEdges(o, adapter) ==
  /\ o.envelope = envelope
  /\ {o.node, o.root} \subseteq adapter.nodes
  /\ <<o.node, "DERIVES", o.root>> \in adapter.edges
  /\ \A f \in adapter.facts : f.id \in o.facts =>
       f.established /\ f.required /\ f.node \in adapter.nodes

OverlayFits(o, adapter) ==
  /\ o.envelope = envelope
  /\ {o.node, o.root} \subseteq adapter.nodes
  /\ <<o.node, "DERIVES", o.root>> \in adapter.edges
  /\ \A id \in o.facts : \E f \in adapter.facts : f.id = id
  /\ \A f \in adapter.facts : f.id \in o.facts =>
       f.established /\ f.required /\ f.node \in adapter.nodes
  /\ OverlayEdges(o, adapter) \ adapter.edges = o.expected

NoOverlay == At("overlay") /\ unit.overlay = None /\ UNCHANGED case /\ Goes /\ CaseOnly

ApplyOverlay ==
  /\ At("overlay") /\ unit.overlay # None
  /\ OverlayFits(unit.overlay, case.adapter)
  /\ case' = [case EXCEPT !.adapter.edges = @ \cup OverlayEdges(unit.overlay, case.adapter)]
  /\ Goes /\ CaseOnly

RetitleCase ==
  /\ At("title")
  /\ case' = [case EXCEPT !.meta = "prospective"]
  /\ Goes /\ CaseOnly

SanitizeMetadata ==
  /\ At("sanitize")
  /\ case' = [case EXCEPT !.meta = "target"]
  /\ Goes /\ CaseOnly

----------------------------------------------------------------------------
(* Bound evidence. *)

\* The envelope is read again; every check of the bindings comes before the first
\* change of a file.
NormalizeBindings ==
  /\ At("bindings") /\ case.adapter # None
  /\ LET bindings == envelope.bindings IN
       /\ bindings # <<>>
       /\ \A i, j \in DOMAIN bindings : i # j =>
            bindings[i].id # bindings[j].id /\ bindings[i].path # bindings[j].path
       /\ build' = [build EXCEPT !.at = @ + 1, !.bindings = bindings, !.todo = bindings]
  /\ UNCHANGED <<unit, envelope, repo, legacy, case>>

\* The harness takes the bindings as they are.
EmpiricalBindings ==
  /\ At("empirical")
  /\ build' = [build EXCEPT !.at = @ + 1, !.bindings = envelope.bindings,
                            !.todo = envelope.bindings]
  /\ UNCHANGED <<unit, envelope, repo, legacy, case>>

Bound(bindings) == {b.path : b \in ToSet(bindings)}

\* Files are unlinked one at a time.
UnlinkUnbound(p) ==
  /\ At("prune") /\ case.files[p] # None /\ p \notin Bound(build.bindings)
  /\ case' = [case EXCEPT !.files[p] = None, !.rebound = @ \/ build.driver = "rebind"]
  /\ UNCHANGED build /\ CaseOnly

PruneDone ==
  /\ At("prune") /\ \A p \in Paths : case.files[p] # None => p \in Bound(build.bindings)
  /\ UNCHANGED case /\ Goes /\ CaseOnly

NextIs(kind) ==
  At("bind") /\ build.todo # <<>> /\ Head(build.todo).kind = kind /\ build.phase = "check"

\* copyfile truncates the destination and then writes it.
OpenEvidence ==
  /\ NextIs("EVIDENCE")
  /\ LET b == Head(build.todo) IN \E s \in Sources :
       /\ FrozenAs(b.digest) = {s}
       /\ IF build.driver = "harness" THEN repo[s] # None ELSE repo[s] = b.digest
       /\ case' = [case EXCEPT !.files[b.path] = Torn,
                               !.rebound = @ \/ build.driver = "rebind"]
       /\ build' = [build EXCEPT !.phase = "copy", !.source = s]
  /\ CaseOnly

CopyEvidence ==
  /\ At("bind") /\ build.phase = "copy" /\ repo[build.source] # None
  /\ case' = [case EXCEPT !.files[Head(build.todo).path] = repo[build.source]]
  /\ build' = [build EXCEPT !.phase = "digest", !.source = None]
  /\ CaseOnly

\* The harness copies the EVIDENCE bindings of the envelope and nothing else.
SkipBinding ==
  /\ At("bind") /\ build.driver = "harness" /\ build.phase = "check"
  /\ build.todo # <<>> /\ Head(build.todo).kind # "EVIDENCE"
  /\ build' = [build EXCEPT !.todo = Tail(@)]
  /\ UNCHANGED case /\ CaseOnly

RetainQualification ==
  /\ NextIs("QUALIFICATION") /\ build.driver # "harness" /\ Head(build.todo).sealed
  /\ case.files[Head(build.todo).path] # None
  /\ build' = [build EXCEPT !.phase = "digest"]
  /\ UNCHANGED case /\ CaseOnly

\* Mutant: what was copied is not hashed.
CheckNoDigest ==
  /\ At("bind") /\ build.phase = "digest"
  /\ build' = [build EXCEPT !.phase = "check", !.todo = Tail(@)]
  /\ UNCHANGED case /\ CaseOnly

CheckBoundDigest ==
  /\ At("bind") /\ build.phase = "digest"
  /\ case.files[Head(build.todo).path] = Head(build.todo).digest
  /\ build' = [build EXCEPT !.phase = "check", !.todo = Tail(@)]
  /\ UNCHANGED case /\ CaseOnly

AllBound ==
  /\ At("bind") /\ build.todo = <<>>
  /\ UNCHANGED case /\ Goes /\ CaseOnly

SurveyManaged ==
  /\ At("survey") /\ \A p \in Paths : case.files[p] # None => p \in Bound(build.bindings)
  /\ UNCHANGED case /\ Goes /\ CaseOnly

WriteBoundManifest ==
  /\ At("record")
  /\ case' = [case EXCEPT !.bound = build.bindings, !.rebound = FALSE, !.cut = FALSE]
  /\ Goes /\ CaseOnly

----------------------------------------------------------------------------
(* The end of a build. *)

Preflight ==
  /\ At("preflight") /\ ProvenanceComplete(case.adapter)
  /\ UNCHANGED case /\ Goes /\ CaseOnly

\* The verifier reads the case; the work root stays.
Verify ==
  /\ At("verify")
  /\ UNCHANGED case /\ Goes /\ CaseOnly

\* A check fails, a file operation raises, or the process is killed.
BuildStops ==
  /\ Running
  /\ build' = Idle /\ UNCHANGED case /\ CaseOnly

----------------------------------------------------------------------------
(* The surroundings. *)

AuthorMayAct == unit.edits \/ ~Running

EditEnvelope ==
  /\ AuthorMayAct /\ envelope' \in unit.envelopes \ {envelope}
  /\ UNCHANGED <<unit, repo, legacy, case, build>>

EditSource(s) ==
  /\ AuthorMayAct /\ unit.frozen[s] # None
  /\ \E b \in (Bytes \cup {None}) \ {repo[s]} : repo' = [repo EXCEPT ![s] = b]
  /\ UNCHANGED <<unit, envelope, legacy, case, build>>

OtherRemovesCases ==
  /\ unit.shared /\ legacy' = NoFiles
  /\ UNCHANGED <<unit, envelope, repo, case, build>>

OtherExtracts(p) ==
  /\ unit.shared /\ legacy' = [legacy EXCEPT ![p] = unit.retained[p]]
  /\ UNCHANGED <<unit, envelope, repo, case, build>>

CaseNext ==
  \/ \E d \in Drivers : StartBuild(d)
  \/ Audit \/ FreezeGate \/ Materialize
  \/ \E p \in Paths : RemoveFile(p)
  \/ \E r \in Records : RemoveRecord(r)
  \/ ClearOutput \/ CopyLegacy \/ WriteAdapter \/ NoOverlay \/ ApplyOverlay \/ RetitleCase
  \/ SanitizeMetadata
  \/ NormalizeBindings \/ EmpiricalBindings
  \/ \E p \in Paths : UnlinkUnbound(p)
  \/ PruneDone \/ OpenEvidence \/ CopyEvidence \/ SkipBinding \/ RetainQualification \/ CheckBoundDigest
  \/ AllBound \/ SurveyManaged \/ WriteBoundManifest
  \/ Preflight \/ Verify \/ BuildStops
  \/ EditEnvelope
  \/ \E s \in Sources : EditSource(s)
  \/ OtherRemovesCases
  \/ \E p \in Paths : OtherExtracts(p)

CaseSpec == CaseInit /\ [][CaseNext]_caseVars

----------------------------------------------------------------------------
(* Properties. *)

Managed(files) == {p \in Paths : files[p] # None}

CaseTypeOK ==
  /\ unit \in Units
  /\ envelope \in unit.envelopes
  /\ repo \in [Sources -> Bytes \cup {None}]
  /\ legacy \in [Paths -> Bytes \cup {None}]
  /\ case \in [files : [Paths -> Bytes \cup {None, Torn}], adapter : Envelopes \cup {None},
                meta : {None, "calibration", "prospective", "target"},
                bound : Seq(Bindings) \cup {None}, rebound : BOOLEAN, cut : BOOLEAN]
  /\ build \in [driver : Drivers \cup {None}, at : Nat, bindings : Seq(Bindings),
                 todo : Seq(Bindings), phase : {"check", "copy", "digest"},
                 source : Sources \cup {None}]
  /\ Running => build.driver \in Drivers /\ build.at \in 1 .. Len(Routes[build.driver])

\* Every empirical file a verifier gets holds bytes that exactly one frozen path has,
\* whatever was edited, inherited or half copied meanwhile, and the report describes the
\* target; a v0.8 case moreover has no managed file but the declared ones, with the
\* declared bytes (the gates and the digest check after each copy,
\* tools/corpus01_bound_evidence.py:122-172).
VerifiedCaseIsBound ==
  At("verify") =>
    /\ case.meta = "target"
    /\ \A b \in ToSet(build.bindings) : b.kind = "EVIDENCE" =>
         \E s \in Sources : FrozenAs(case.files[b.path]) = {s}
    /\ build.driver = "v08" =>
         /\ Managed(case.files) = Bound(build.bindings)
         /\ \A b \in ToSet(build.bindings) : case.files[b.path] = b.digest

\* A compiled case with a BOUND_EVIDENCE_MANIFEST has the surface the manifest records,
\* wherever builds stop: the manifest is written last.  When it is found in a case whose
\* removal was broken off, files may be missing, but none is there that it does not
\* declare and none has other bytes.  While a case is bound again in place, from the
\* command line, the old manifest claims nothing, until the new one is written.
BoundManifestIsTrue ==
  case.bound # None /\ ~case.rebound =>
    /\ Managed(case.files) \subseteq Bound(case.bound)
    /\ \A b \in ToSet(case.bound) :
         \/ case.files[b.path] = b.digest
         \/ case.cut /\ case.files[b.path] = None

\* When nobody edits during a build, a unit that passed the audit passes the preflight,
\* which searches the compiled adapter with code of its own; and it does so without the
\* edges of an overlay, which an audited build therefore never needs.
AuditPredictsPreflight ==
  At("preflight") /\ build.driver \in Audited /\ ~unit.edits =>
    ProvenanceComplete(case.adapter) /\ ProvenanceComplete(envelope)

\* The adapter a verifier gets declares the bindings that were applied, and differs from
\* the frozen envelope by the declared edges of the overlay only.
AdapterIsFrozenEnvelope ==
  At("verify") /\ build.driver = "v08" /\ ~unit.edits =>
    /\ case.adapter.bindings = build.bindings
    /\ [case.adapter EXCEPT !.edges = {}] = [envelope EXCEPT !.edges = {}]
    /\ case.adapter.edges =
         envelope.edges \cup (IF unit.overlay = None THEN {} ELSE unit.overlay.expected)
=============================================================================
