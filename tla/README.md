# RISU Verify in TLA+

This directory is a verification development of the Python code in `src/` and
`tools/`: TLA+ modules that model it, TLC runs that check them on small
instances, and TLAPS proofs of theorems that hold for every instance.
`PROJECT.json` lists the runs, the mutant of every property, the source lines
each definition stands for, the findings and the hazards. All paths below are
relative to the root of the repository.

Contents: 1 the system, 2 the modules, 3 the runs, 4 fairness, 5 the proofs,
6 findings, 7 what is not modelled, 8 plan.

## 1. The system: inventory

The program verifies *cases*. A case directory holds `case.json`, an assurance
directory (adapter, source contract, evidence), and optionally pinned
predeclaration and provenance files. A frozen core, a vendored archive, produces
a certificate from the assurance directory and checks it with an independent
consumer. Around this pipeline stand an exporter for a browser workbench, the
mechanical life of a prospective corpus (enrollment, case compilation, seal, gate,
primary execution), a control that mutates known cases to test the detector, and
two self-contained engines (E0 and E1) with a machine-first pipeline and a blind
examination around them.

| component | state it keeps | operations | behaviours that are hard | what makes it correct |
|---|---|---|---|---|
| pipeline, `src/risu_verify.py` | an output directory per case (certificate, logs, report, Markdown, run manifest), `risu.lock.json` | `verify`, `lock`, `check`, `init`, `self-test` | every step reads files again; invocations share the default output directory; failed and killed runs leave artifacts behind; the checkout moves | only a certificate the consumer accepted is reported, locked or matched; no gate is skipped; a manifest describes one run; the tool never rejects its own lock |
| exporter, `tools/export_workbench_bundle.py` | bundle and comparison files | `run`, `compare` | three passes over files that a verification may rewrite; edited or damaged bundle files | what is packaged agrees and comes from one run |
| seal, `tools/corpus01_seal.py` | `PRIMARY_RUN_MANIFEST.json`, `UNIT_SEAL.json` | `seal_unit`, the handler of `main` | reads tree and git step by step; the handler deletes files; the author edits, commits and amends | a seal pins bytes of its freeze commit, accepted ones if the author waits, and stands beside its manifest |
| gate and v0.8 primary, `tools/corpus01_primary_gate.py`, `tools/corpus01_primary_v08.py` | the work root `.risu/corpus01-v08/<unit>` | `main`, `execute` | stale or edited manifests, amended freeze commits, a reused work root that is removed entry by entry | a primary observes exactly what was sealed; a work root holds one execution |
| unit harness, `tools/corpus01_unit_harness.py` | manifests, observations, bundles | `audit`, `build-manifest`, `run` | audit findings derived from many files | as for seal and primary |
| provenance replay, `tools/provenance_verify.py` | none | `derive`, `verify` | classes derived from receipts | the declared class is the derived one |
| bound evidence and compilation, `tools/corpus01_bound_evidence.py`, `corpus01_compile.py`, `corpus01_provenance_preflight.py`, `materialize_case_bundles.py`, `vbe_compile.py` | a compiled case directory, the retained cases below `cases/` | `apply_bound_evidence`, `apply_provenance_overlay`, `main` | files removed, copied and rewritten in place; a source checked and then read again; retained cases rebuilt while they are copied | a verifier gets the frozen bytes and no others; a bound-evidence manifest is true; the adapter is the frozen envelope |
| corpus validation, `tools/corpus01_validate.py` | the pool, screening log, enrollment and ledgers it accepts | `validate_*`, `main` | the log and the units refer to a pool that may be edited; caps, order and the end of screening interact | an enrollment is the first eligible candidates; completion is final |
| mutation control, `tools/unit002_mutation_control.py`, `unit002_mutation_control_correction001.py` | `MATRIX_RESULT.json` | `main` of both executors | a detector that errs in some part of its reports; a result annotated that another execution left | a promoted detector said nothing wrong in what is scored, and a sound one is promoted |
| blind acquisition, `tools/unit003_blind_acquire.py` | a packet directory, the first seal record | `build_selection`, `acquire_packet`, `write_first_seal_record` | a crash half way, a retry | a sealed packet is complete and was selected without its outcome |
| E0 engine, `risu_e0/engine.py`, `graph.py`, `cegar.py`, `adapters.py`, `tools/risu_e0_witness_check.py` | a consequence graph and a model | `evaluate_vbe`, `find_collapse_witness`, `find_relational_witness`, `shrink_witness`, `refinement_requests` | precedence of reasons; two hand-written models of a calibration | a witness exists exactly when information collapses and passes the checker; stability is evidenced; the engine agrees with the core |
| E0 machine-first, `risu_e0/machine_first.py` | eight artifacts and a seal | `build_semantic_outputs`, `write_semantic_outputs`, `verify_output_dir` | nine writes, none atomic | only a complete set of one run verifies |
| E1 engine, `risu_e1/engine.py` | none between runs | `_build_alias_closure`, `assemble_material_roles`, `predict` | a fixpoint over facts in any order | the aliases are exactly the reachable names; preservation needs a comparison of two versions |

Interaction is through files, digests and exit codes: the primary runs
`risu-verify verify` as a subprocess and accepts exit 0, 10 and 20; the exporter
reads the output directory of the pipeline; the seal pins the manifest that the
primary reads later; enrollment decides which units are compiled, and the static
preflight of the harness is the audit of every driver. The mutation control compiles with
`vbe_compile.py` and runs the pipeline; E0's adapters describe the same
instances by hand. Nothing locks the files.

## 2. The modules

| module | role |
|---|---|
| `VerifyRun` | the pipeline: `verify`, `lock`, `check` |
| `AssuranceGate` | what the pipeline promises, abstractly |
| `VerifyRunRefines` | the refinement mapping from the first to the second |
| `VerifyRun_proofs` | theorems and proofs, the refinement included |
| `WorkbenchExport` | the exporter, composed with `VerifyRun` |
| `WorkbenchExport_proofs` | theorems and proofs |
| `UnitLifecycle` | seal, gate and v0.8 primary, next to an author and git |
| `UnitLifecycle_proofs` | theorems and proofs |
| `BlindExam` | blind acquisition, machine-first run and first seal record |
| `HeldOutExam` | what an examination promises, abstractly |
| `BlindExamRefines` | the refinement mapping from the first to the second |
| `BlindExam_proofs` | theorems and proofs, the refinement included |
| `Enrollment` | the corpus from its pool to the complete enrollment |
| `Enrollment_proofs` | theorems and proofs |
| `CaseBuild` | compilation of a case, overlay, bound evidence, preflight |
| `CaseBuild_proofs` | theorems and proofs |
| `VbeProgram` | the target programs `vbe_compile.py` generates and what they do, shared by the next two |
| `MutationControl` | the paired mutation control of the detector |
| `MutationControl_proofs` | theorems and proofs |
| `E0Engine` | consequence graph, witnesses, prediction, calibrations |
| `E1Engine` | alias closure, roles and prediction |
| `Engines_proofs` | theorems and proofs about both engines and the programs |
| `MCVerifyRun`, `MCWorkbenchExport`, `MCUnitLifecycle`, `MCBlindExam`, `MCCorpus`, `MCEngines` | instances for TLC |

Definitions whose comment begins with *Mutant* are plausible defects of the
definition that follows them. No specification uses them; they show that the
properties can fail.

A digest is represented by the content it is a digest of, throughout: two
contents with one digest are outside the model, and so is tampering with
SHA-256. An absent file is `None`, a file cut short by a killed process `Torn`.

### VerifyRun

`rev` is the revision the checkout is at, and `Case[rev]` what the tool finds
there: the facts about the files that the gates test, each an independent value,
so that a predeclaration file may differ from its pin or a provenance replay may
fail. `out[d]` holds the five artifacts of output directory `d`, `lockFile` the
semantic lock, `run[p]` the local variables of invocation `p` (its program
counter, the resolved case `meta`, the certificate it parsed, the digest it
computed), and `accepted` the history of what the consumer accepted.

One action stands for one stretch of `perform_verify` that reads or writes one
thing: `Open` (core pin and `resolve_case`), `VerifyCaseProvenance`,
`VerifyPredeclaration`, `Produce` and `Consume` (the two core subprocesses),
`WriteLogs`, `LoadCertificate` and `DigestCertificate` (two further reads of
`certificate.json`), `WriteReport`, `WriteMarkdown`, `WriteManifest`. The
subcommand ends it: `VerifyExit`, `ApproveLock` and `WriteLock`, or `CheckLock`.
Error paths are the `ELSE` branches, with the exit code of the code: 30 for every
`fail`, 40 for a lock mismatch, 1 for an exception no handler catches. `Crash`
kills an invocation at any step and may tear the file it was writing. `Checkout`
moves the tree to another revision, `EditLock` replaces the lock file by one the
tool did not write (a regression relabelled as a gate, a v0.1 lock, a broken
seal). The core is external: `Core[a]` says what producer and consumer do with
assurance content `a`; the certificate of `a` is named `a`, as the producer is
deterministic.

### AssuranceGate and VerifyRunRefines

`AssuranceGate` knows certificates, not files: a certificate is accepted, a run
derives its verdict from an accepted certificate, a verdict is published.
`VerifyRunRefines` maps `published` to the certificate the report of a directory
commits to and `verdict` to the certificate a run has parsed.

### WorkbenchExport

Extends `VerifyRun` by one exporter process. `validate_run_dir` reads the
directory in three passes (parse, hash and compare, embed); each read is an
action, `ParseReport` to `EmbedArtifact`. `LoadBundleFile` takes a side of a
comparison from a file: the bundle `run` wrote, or one of `EarlierBundles` (good,
status edited, artifact damaged, artifacts of two runs mixed). `ValidBundle` is
`validate_run_bundle`, which binds report and certificate and neither Markdown
nor logs. The pipeline's actions are taken unchanged.

### UnitLifecycle

`repo` is the sequence of commits with their trees and ancestors, `head` the
commit HEAD resolves to, `work` the working tree with the five things the tools
tell apart: the unit's frozen inputs, the rest of the tracked tree, manifest,
seal, and archived result. `sealer` and `primary` are the two tools, `workRoot`
what a primary leaves. `way` says how the unit is worked on and stays: hand edits
of generated files or none, an author who acts while a tool runs or waits,
primaries in any checkout or in clean ones; a property names the ways it needs as
its premise. `Science[i]` says what the tools find in inputs `i`:
audit and corpus validator pass, acceptance recorded, compiles, exit code of the
verification.

Every check, subprocess and write of `seal_unit`, `build_primary_manifest` and
`execute` is an action; what one of them reads of the tree or of git it reads in one
step. `ReAudit` (the second audit, which runs the compile probe), `RequireAccepted` and
`BuildManifest` (hashes, compared with the freeze commit) are three steps of one call
(`tools/corpus01_unit_harness.py:607`, `:615`, `:626`), and an author who does not wait
can put other inputs in place for the first two and take them back: the seal then pins
frozen inputs that the audit never saw. `SealedInputsAreFrozen` therefore claims the
audit only for an author who waits. `RemoveFromWorkRoot` removes one entry of the work
root, as `shutil.rmtree` does, and `KillPrimary` may come between two of them;
`ClearWorkRoot` goes on when nothing is left. `GatePasses` is `corpus01_primary_gate.py`: freeze commit an
ancestor of HEAD, frozen bytes equal now and at the freeze, acceptance, no other
path changed since, no result yet. `SealFails` is the handler of `main`, which
deletes both outputs; `SealStepRaises` is a step that fails for a reason outside
the unit. Provenance overlays, which only unit 001 has, are left out. `Author` edits, commits, amends and checks out; `EditManifest` is
the hand edit that `corpus/0.1/INFRASTRUCTURE_V08.md` forbids and nothing
prevents. A write of a JSON file in the work root is one step, not torn.

### BlindExam

Two tools meet in a packet directory and an output directory:
`tools/unit003_blind_acquire.py` (`select`, `acquire`, `record`) and
`tools/risu_e0_machine_first.py` over `risu_e0/machine_first.py`. `packet[d]` and
`output[d]` are the directories of examination `d`, `selection` and `record` the
two files beside them, `acquirer` and `tool` the processes. A `MACHINE_INPUT.json`
is the run id and the selection it was made from: its rows hold the digests of the
selected blobs, so an evidence file is `"exact"` or some other bytes. An artifact
is what it was derived from (`Derived`): of the eight, those in `RunOnly` depend on
the run id only, because every obligation of the discovery core is open, and the
rest on the evidence as well. A seal is the input whose artifacts it lists.

`Acquire`, `RequireEmptyDirectory`, `AcquireRow` and `WriteMachineInput` are
`acquire_packet`: one test for emptiness, one step per fetch, which may fail, and
`MACHINE_INPUT.json` last. `LoadInput`, `LoadRow` and `CloseLoad` are
`load_machine_packet`, which the machine-first tool runs twice (`loads`) and the
recorder once. `WriteArtifact` and `WriteSeal` are `write_semantic_outputs`;
`RequirePresent`, `ReadSeal`, `HashArtifact`, `CompareHashes` and `ReadManifest`
are `verify_output_dir`, each read a step of its own; `CopyArtifact` and
`WriteRecord` end `record`. A kill may tear the file being written. Three
histories: `begun` (packets a run has loaded), `admitted` (inputs artifacts were
built from), `emitted` (the first seal of a directory that verified).

Constants name the circumstances: `Overlap` (tools side by side), `OwnOutput` (the
operator gives a tool the two directories of one examination), `HandEdits`.
`Selections` is what `verify_selection` accepts, which is more than the one
`Policy` of the pinned tree: it has no tree to compare with. `ClearPacket` is the
operator emptying a directory after a failed acquisition, before a run has begun.
Left out: what artifacts say, the timing sidecar, which no tool reads, and the
refusal of `select` in a clone that holds blobs, which changes nothing.

### HeldOutExam and BlindExamRefines

`HeldOutExam` knows examinations and packets, not tools and files: an examination is
begun with one packet for good, a seal of it is the seal of that packet or was cut
short in writing, its first verified seal stays, and only a verified examination is
attested, by its packet, its seal and its artifacts. `BlindExamRefines` takes as the packet an
examination was begun with the one a machine-first run has loaded and closed
(`begun`), as its seal `E0_OUTPUT_SEAL.json`, as verified the history `emitted`, and
reads off the record what it attests: the third part, the packet the listed artifact
digests are derived from, is `Torn` if they are of no packet. A packet before the
first load, a selection and everything a process holds are below the abstraction.

### Enrollment

`pool`, `log`, `units` and `summary` are the four files the validator reads, each
abstracted to what it distinguishes. CI runs the validator on every commit, so a
step is *adopted* when `Valid` (all of `corpus01_validate.py`) holds in the state it
leaves: `Adopted` is a conjunct of every action. What is appended may be wrong in
every way the code tests, and `AddCandidate`, `DropCandidate` and `MoveCandidate`
edit the pool, which nothing pins. `Stream` is the eligible stream under the
organization cap, in which the place of a row is its `Rank` among those `Taken`, `SummaryOf` the counts a complete enrollment records,
`LedgerValid` the friction ledger of a unit.

Checking showed that the cap branch of the stream is dead on the way to
completion: an eligible candidate beyond the cap of its organization makes the
order of the stream and the count of eligible rows disagree, so the enrollment
can no longer complete. `CompletedEnrollmentIsFirstEligible` states the outcome:
surplus candidates must have been rejected with a reason.

### CaseBuild

`case` is the compiled case (files below the managed prefixes, adapter, metadata,
bound-evidence manifest), `legacy` the retained case below `cases/`, `repo` the
files a manifest may freeze, `envelope` the carrier envelope, `build` the running
driver with its position in `Routes[driver]`. The routes are the orders in which the
v0.8 primary, the v0.1 harness, the infrastructure probe and a re-binding from the
command line call the same tools. Each read or write of one file is an action:
`RemoveFile` and `RemoveRecord` are the entries that `shutil.rmtree` removes, in any
order, before `ClearOutput` goes on; `UnlinkUnbound` removes one file, `OpenEvidence` truncates the destination,
`CopyEvidence` fills it with what the source holds *then*, `CheckBoundDigest`
hashes it. `BuildStops` ends a build anywhere, whether a check fails, a file
operation raises or the process is killed. `unit.edits` and `unit.shared` say whether the author acts
during a build and whether another process runs
`materialize_case_bundles.py` (`OtherRemovesCases`, `OtherExtracts`). `Reaches` is
the reference definition of the breadth-first search: every closed set of nodes
meets the roots.

Two things became visible. An audited build never needs its overlay, because the
audit demands complete provenance of the envelope alone
(`AuditPredictsPreflight`). And a bound-evidence manifest can say more than is there in
two ways: while a case is bound again in place from the command line the old manifest
is stale until the end, which `BoundManifestIsTrue` excludes by name (`case.rebound`),
and a removal that is broken off can leave it beside evidence that is gone
(`case.cut`), when it holds of the files that are left.

### VbeProgram, MutationControl, E0Engine

A *VBE instance* has a domain of versions, an anchor, a reviewed version, admissible
worlds and one of three target patterns. The reviewed version is a literal, which is
the anchor, or a coordinate with a domain of its own, and a literal is modelled as a
coordinate with the anchor as its only value. The source compares current and reviewed
version of a world (`RequiredIn`), the targets compare the current one with the
anchor. `ProgramOf` is the target that `vbe_compile.py`
generates, as names of its four expressions, and `EffectOf` evaluates it in a
world; what the frozen core concludes from it (`Mismatches`, `Discriminates`) is
external. `MutationControl` runs the control with a detector given by its faulty
`Parts` (status, exactness, discrimination, effects, witness): it says anything in
those, in every verification anew, and what a sound one says in the others; with all
parts faulty it is an arbitrary detector. `deceived` is the history of reports that
differ from every sound one in what the control scores. What it does not score deceives
nobody: `check_positive` (`tools/unit002_mutation_control.py:321`) ignores the
discrimination of a localized mutant and the exactness of a collapsed discriminator, so
a detector that errs only there is promoted. `E0Engine` is one client's session: a
calibration with the graph and the model of `adapters.py`, or a machine-first
session in which the client observes, answers refinement requests and declares.
`EvaluateVbe` computes an answer, every revision drops it. Its adapter knows the anchor
only (`SourceShows`, `risu_e0/adapters.py:67`) and every version of the domain, so its
model and the generated program may differ where a reviewed coordinate has another value
than the anchor or a version occurs in no admissible world; `CalibrationIsSound` is about the
other instances (`SeenAlike`), which all those of the repository are. `Shrunk` and
`CheckerAccepts` are translated from two files that share no code.

The plain executor can never promote: its comparison of paths rejects the
semantic cells (the second part of `PromotedWasSound`), which is why a corrected executor
exists, and why its annotation of a result another execution left is harmless.

### E1Engine

A packet is the record of typed facts that the extractors find. `Propagate` takes
one flow (an assignment, or one argument of a call), `EndPass` ends a pass and
starts another one if something was added. `Predict` assembles the roles and
predicts; `Acquire` replaces the packet by a wider one after a request. Declared
effect and stale outcome are supported by the same branches
(`risu_e1/engine.py:128`), which `Supported` keeps.

## 3. The runs

`EditsDuringRun` says whether the checkout may move while a tool runs: most
promises need it to rest, and the runs say which.

| run | configuration | shows |
|---|---|---|
| gates | `verify`, `lock` and `check`, one invocation at a time in one directory, eight revisions, four foreign lock files, killed at any point | no gate is skipped and nothing it found in the directory is taken for its own (`SemanticExitIsWarranted`), reports and manifests are coherent (`ReportsBacked`, `ManifestCoherent`), locks are honest both ways (`MatchIsBacked`, `NoSpuriousMismatch`, `LockWritesBacked`), `TypeOK` |
| pair | a `lock` and a `check` side by side, the checkout moving | `ImplementsGate`, and every invocation ends (`EveryRunEnds`) |
| shared | two `verify` invocations share a directory | violates `ReportsBacked`, see 6 |
| export | `run` over directories that finished, failed and killed verifications left, `compare` while a verification rewrites the directory | `RunBundlesAgree`, `ComparisonsAgree` |
| export_race | `run` while a verification rewrites the directory | violates `RunBundlesBind`, see 6 |
| unit | seals and primaries in three ways of working: an author's own checkout with hand edits, a busy author who acts while a tool runs, the workflow that starts primaries in clean checkouts; tools killed at every step, removals included | `PrimaryRanOnSealedInputs`, `WorkRootOfOneExecution`; `SealedInputsAreFrozen`; `SealPinsItsManifest`, `CheckedOutSealPinsManifest`; `TypeOK` |
| unit_uncommitted | primaries in any checkout | violates `CommittedSealPinsManifest`, see 6 |
| unit_reseal | the seal tool over an existing seal | violates `RefusalKeepsSeal`, see 6 |
| exam_steps | one acquirer, one run and one recorder side by side | `RecordBinds`, `ExitZeroNamesACompleteSet`, `PacketImmutableOnceBegun`, `EmittedSealStands`, and all of it together as a refinement, `ImplementsExam`; `TypeOK` |
| exam_crowd | two runs in one output directory, the packet edited by hand | `VerifiedIsOneRun` |
| corpus | an enrollment of three out of five candidates over a changing pool; twelve units that are built in different circumstances by four drivers | `CompletedEnrollmentIsFirstEligible`, `CompletionIsFinal`, `ScreenedStaysInFront`; `VerifiedCaseIsBound`, `BoundManifestIsTrue`, `AuditPredictsPreflight`, `AdapterIsFrozenEnvelope` |
| engines | the mutation control with a sound detector and with ones that say anything in D, in the witness, or in status and exactness, under three plans; every calibration over three versions with three reviewed domains and three sets of admissible worlds, and machine-first sessions over five models; E1 over packets of up to three flows | `PromotedWasSound`, `SoundIsPromoted`; `PredictionIsWarranted`, `WitnessStandsAlone`, `CalibrationIsSound`; `AliasesAreReachable`, `PreservationIsCompared`, `PredictionIsReached`; `EnginesTypeOK`, the three type invariants together |

`corpus` and `engines` check components that share no state. Their instance modules
hold all the variables, fix a `topic` at the start and step one component only, so
a behaviour is one of one component.

Bounds and why they are enough:

- Revisions. The eight of `gates` make each gate fail alone: a preserving and a
  regressing case, one refused by the consumer, one refused by the producer after
  writing, an edited predeclaration, a failing provenance replay, a wrong core
  pin, a missing adapter. The regressing one has pins of its own, so locks differ
  in them. The incomplete status is the second revision of `export`. The foreign
  locks are a relabelled regression, a v0.1 lock and one whose digest is wrong.
- Invocations. Runs interact only through a directory, the lock and the
  checkout; two are the least that share them. An invocation may be started
  again without limit, so sequences of any length in one directory are covered.
- `MaxExports = 1`: the exporter keeps nothing between exports but its output
  files; what earlier exports left is `EarlierBundles`. After the last export
  nothing is left to see, so the pipeline stops as well (hence
  `CHECK_DEADLOCK FALSE` in these two configurations and in no other). An
  invocation is killed before an export and not during one (`NobodyKilled`):
  while the exporter reads, a killed invocation looks like a slow one.
  `QuietGoals = {"run"}`: `run` promises what it does for a directory at rest.
- `MaxCommits` is 2 or 3: a freeze commit and a commit of seal and manifest, an
  amended commit, or a second freeze. Seals and primaries repeat without limit.
- Unit contents: accepted with a valid outcome, accepted with a failing
  verification (exit 30), accepted in spite of an audit finding, not accepted;
  two of them in each way of working.
- Enrollment: `Target = 3` with `OrgCap = 2` of three organizations. Two candidates
  of the first organization fill its cap and the third of them is surplus, so the
  cap, the diversity and the order all decide; a fifth candidate can only come in
  by a change of the pool.
- Cases: two evidence paths and one for a qualification, two frozen sources, two
  contents. The units differ in one circumstance each from a plain one: edits, a
  shared retained case, two envelopes, two sources of one digest, a damaged
  qualification, two bindings of one path, incomplete provenance with and without
  an overlay, an overlay that expects the wrong edges. Builds repeat without limit.
- Engines: three versions make a domain in which the anchor is missing, alone or one of
  several; each part a baseline or a mutant is scored on is faulty in one of the
  detectors, but for the effects, whose values are too many to enumerate (errors in
  any parts together, effects included, are what `PromotionsAreSound` is about); two coordinates leave one to be shrunk away; a third flow lets an
  alias arrive in a later pass than the one that could have used it.
- Examinations: two or three artifacts, one of them independent of the evidence,
  are the least that a verification can mix up; two run ids make two packets
  differ, and two evidence files leave a packet half acquired. `exam_crowd` needs
  no evidence, as the packet is edited between the loads of two runs, and treats
  the two runs as symmetric. Acquisitions, runs and recordings repeat without
  limit. `RecordBinds` leaves one exception open: `record` reads three artifacts
  again after it has verified them, and when a repeated run is killed in between,
  the copy it takes may be torn.

## 4. Fairness

There are two liveness properties. `EveryRunEnds`: `FairSpec` has weak fairness of
`Step(p)` for each invocation: a started process is scheduled by the operating
system as long as it can take a step. Each step is an unconditional stretch of
the program, with no wait but for the two subprocesses of the frozen core, which
are assumed to end. Nothing is assumed about starts, crashes, edits or
checkouts. The run `pair` is checked under `FairSpec`.

`PredictionIsReached`: `E1Spec` has weak fairness of the loop of one Python
function and of the prediction after it, which nothing can interrupt. That the
loop ends is what the property shows, not what it assumes: a pass that adds
something is followed by another one, and only finitely many names can be added.
Nothing is assumed about the acquisition of more evidence. No other run states
fairness.

## 5. The proofs

All proofs are checked by tlapm with SMT (Z3), Zenon and LS4, for every value of
the constants that satisfies the named assumptions `ConstantsTyped`,
`ExportConstants`, `UnitConstants`, `ExamConstants`, `EnrollmentConstants`,
`CaseConstants`, `NoneIsNoVersion`, `ControlConstants`, `E0Constants` and
`E1Constants`, which TLC evaluates in the runs. A premise that only some ways of
working satisfy is a hypothesis of the theorem and is named below. Every invariant
was checked by TLC on a run before it was proved.

**VerifyRun_proofs.** `TypeCorrect` proves `TypeOK` from the inductive invariant
`TypeInv`, which adds `ReadSoFar`: past each read the corresponding local variable
holds a value, without which the report could not be typed. The next four
theorems need `PrivateDirs` (no two invocations write to one output directory),
which is exactly what the run `shared` lacks. They share the invariant
`BackedInv`: for each run, what holds of its local variables and of its own
directory at each program counter (`RunBacked`: after `Consume` the checked
certificate is the one on disk and accepted; after each read the local copy
equals it; after each write the file is the one written by this run), for each
directory, that a readable report (`ReportBacked`) and a readable manifest
(`ManifestBacked`) are backed. The properties alone are not inductive: that a
manifest is coherent depends on what the run that writes it knows about the other
files at that moment. The frame lemmas (`BackedFrame`, `RecordFrame`) say that a
step of one run leaves the others' part alone, and this is where private
directories are used.

- `ReportsAreBacked`, `ManifestsAreCoherent`: `ReportsBacked` and
  `ManifestCoherent`, with crashes, failures and edits during runs.
- `MatchesAreBacked`: `MatchIsBacked`, whatever is in the lock file.
- `LockWritesAreBacked`: the action property `LockWritesBacked`.
- `SemanticExitsAreWarranted`: `SemanticExitIsWarranted`, if moreover the checkout
  rests while an invocation is active (`~EditsDuringRun`). `WarrantInv` collects what
  each program counter has established of the one revision a run works on: which
  gates it has passed, that producer and consumer judged the certificate of *this*
  case, that the manifest about to be relied on is the one this run wrote. Without
  the premise the manifest can name inputs nobody verified.
- `MismatchesAreReal`: `NoSpuriousMismatch`, with no premise at all: it is about
  `make_lock` and `compare_lock` on the same report, which agree on every field.
- `PipelineImplementsGate`: `Spec => ImplementsGate` with private directories. Every
  action maps to `Accept`, `Derive`, `Publish`, `Forget` or a stutter; `BackedInv`
  supplies that a parsed certificate is an accepted one.
- `InvocationsDescend`: whatever changes an active invocation, a step of its own or its
  death, lowers `StepsLeft`, the number of steps it has at most before it. No step goes
  back, so at most thirteen steps lead to an exit code. This is the half of
  `EveryRunEnds` that can be proved here, for any number of invocations: what TLC adds
  is that an invocation which the system keeps scheduling has a next step.

**WorkbenchExport_proofs.** The exporter beside any number of verifications. The
bounds of its runs (`MaxExports`, `NobodyKilled`) are not used.

- `ExportTypeCorrect`: types, with what is parsed and loaded at each step.
- `ComparisonsOfAgreeingRuns`: `ComparisonsAgree`, with private directories and
  `EarlierBundlesAgree`. The files of a directory change between the exporter's reads,
  so nothing holds of the directory; `EmbeddedInv` says that each embedded file was
  backed *when it was read*. `accepted` only grows, so it stays backed, and then the
  bindings that `validate_run_bundle` tests leave no room for two runs. That function
  tests digests and the bindings of the manifest, not whether a consumer
  ever accepted the certificate, so bundle files of earlier sessions have to be
  assumed to agree, whatever damage it can detect they may have.
- `RunBundlesOfOneRun`: `RunBundlesAgree`, with private directories, for an exporter
  that reads only directories nobody writes to (`"run" \in QuietGoals`); that
  the premise is needed is what the run `export_race` shows. `QuietInv` says what has
  been read by each step of the three passes; `FilesStay`, that a manifest is
  never without Markdown and logs, supplies the files no binding covers.

**UnitLifecycle_proofs.** `UnitTypeCorrect` proves `TypeOK` with `SetSoFar` (a
tool's local variables are set when a step uses them). The premise of each property
names the ways of working it is about, and no more:

| theorem | property | needs | invariant |
|---|---|---|---|
| `SealsAreFrozen` | `SealedInputsAreFrozen` | no hand edits | `FrozenInv`: every manifest in the tree, in a commit or in the tool's hands was computed from its freeze commit, which stays what it is because the repository only grows (`RepoGrows`), and, if nobody acts meanwhile, its inputs passed the steps before |
| `PrimariesRunOnSealedInputs` | `PrimaryRanOnSealedInputs` | nobody acts while a tool runs | `AloneInv`: what each tool knows of the tree at each step, and that every seal anywhere pins a manifest in `sealed` |
| `CommittedSealsPinManifests` | `CheckedOutSealPinsManifest` | the same, and a clean checkout | `AloneInv` |
| `SealsPinTheirManifests` | `SealPinsItsManifest` | nobody acts while a tool runs, no hand edits | `AloneInv` and `PinnedInv` |
| `WorkRootsAreOfOneExecution` | `WorkRootOfOneExecution` | nothing | `RootInv`: the contents of the work root at each step; while it is removed it has what the last execution left, or less |

**BlindExam_proofs.** Every set of artifacts, selections, directories and
processes, from `ExamConstants`:

| theorem | property | needs | invariant |
|---|---|---|---|
| `ExamTypeCorrect` | `TypeOK` | nothing | `TypeInv`: with `Usable`, what a process has read by each step |
| `ExamVerifiedIsOneRun` | `VerifiedIsOneRun` | nothing | `SealInv`: every seal in a directory and in a process is an admitted input, and past `CompareHashes` what was read is the set of that input |
| `ExamPacketImmutable` | `PacketImmutableOnceBegun` | no hand edits, one acquirer | `PacketInv`: a directory is filled only while `MACHINE_INPUT.json` is missing, and no run begins before it is there |
| `ExamEmittedSealStands` | `EmittedSealStands` | the same, and `OwnOutput` | `EmitInv`: from its second load on a run holds the packet of its directory, so every seal of an output directory is that packet |
| `ExamRecordBinds` | `RecordBinds` | the same | `HoldInv`: what any process holds is the packet of its directory as it now is; `CopyInv`: what a recorder copies is derived from that packet, and once the directory was found complete nothing is missing again, though a run that is killed may tear it |
| `ExamImplementsPromise` | `ImplementsExam` | the same | all of the above but `CopyInv`, and `AttestInv`: what is being recorded has verified |
| `ExamExitZero` | `ExitZeroNamesACompleteSet` | no hand edits, one acquirer, runs one after the other (`RunnersApart`) | `Written`: a run has written what it has passed, and while it is at work nobody else writes (`Alone`) |

The protocol (`EXAM_PROTOCOL_EFFECTIVE_001.json:22` and `:24` in
`experiments/unit003-blind-machine-first/`) calls packet and emitted seal
immutable without condition. The tools alone do not make them so: the packet
directory is tested for emptiness once (`tools/unit003_blind_acquire.py:338`), and
`write_semantic_outputs` (`risu_e0/machine_first.py:451`) writes into any
directory. One acquisition at a time and one output directory for each
examination are what the operator has to keep, and the theorems say that this
is enough.
`ExamImplementsPromise` maps each action to `Begin`, `Seal`, `Verify`, `Attest`,
`Destroy` or a stutter, with one lemma for each: closing the first load begins an
examination (`CloseLoadBegins`), writing or tearing a seal is `Seal`
(`RunSeals`), the last read of a verification is `Verify` (`ManifestVerifies`), a
record attests (`RecordAttests`) or is destroyed (`KilledRecordDestroys`). `AttestInv` is
what the properties so far did not need: no recorder gets to its record in a directory
whose seal never verified.
`ExamExitZero` needs no `OwnOutput`: a run that reports success has read its own
writing back, into whichever directory it was pointed. The frame lemmas (`ToolFrame`, `SealFrame`, `EmitFrame`) reduce a step to the one
record it changes; `ToolMoves` and `ToolWrites` say once, for all actions of a tool,
what it may change of itself and of an output directory.

**Enrollment_proofs.** `EnrollTypeCorrect`, `ScreeningIsIrrevocable`,
`FrozenIsTimed`, `CompletionStays` and `CompletedIsFirstEligible`, for every pool,
target and cap. A step is adopted only in a valid state, so the invariant is
`Lawful`, what the validator says. Completion is final because a log that
stopped in time with its last row eligible has exactly `Target` eligible rows, and
with one more that ends it would have one more (`StopsOnce`, by the cardinality of
finite sets). `CompletedIsFirstEligible` is a matter of counting as well
(`FullStreamIsAll`): `Target` units are a prefix of the stream, so at least `Target`
of the `Target` eligible rows were taken, hence all, and places in the stream are
ranks in the log, which are different for different rows (`RankInjective`). The cap of
an organization carries over from units to rows by that injection.

**CaseBuild_proofs.** `CaseTypeCorrect`, `BoundManifestsAreTrue` and
`VerifiedCasesAreBound`, for any number of bindings, paths and sources and whatever
authors and other processes do meanwhile. `CaseInv` says what a build has done at each
step of its route (`BuildInv`); routes enter the proof only by `RouteOrder`, which
step comes before which. Its core is `BindingsHeld`: the bindings that are no longer on
the list are in the case with frozen bytes, except the one file that is being copied
(`Copying`), because the harness, which does not ask for distinct paths, may write
over a file it copied before; in the other drivers the bindings have distinct paths
and nothing written is touched again. `BoundManifestIsTrue` needs in addition that a case has no
manifest between its clearing and the writing of the record; what is removed of an
earlier case only takes files away, and sets `case.cut`.

`AuditsPredictPreflights` and `AdaptersAreFrozenEnvelopes` prove
`AuditPredictsPreflight` and `AdapterIsFrozenEnvelope`, both of which are about units
nobody edits during a build. `FrozenInv` follows the envelope along the route: past
the audit its provenance is complete, the adapter is the envelope when the overlay is
fitted and the envelope with the declared edges afterwards, and the bindings used are
those of the envelope. An overlay never breaks what the audit found, because more
edges reach no less (`ReachesMonotone`, `OverlayKeepsComplete`), and so an
audited build never stops at the provenance search of its preflight.

`CorpusRunsItsParts` says that a behaviour of the composition the run `corpus` checks
is one of the enrollment and one of the build, so all theorems about either hold of it.

**Engines_proofs.** E0: `E0Inv` says that an answer is one of `Predictions` for the
graph and the model of the session *now*, and that a calibration is never revised.
The rest is about the operators: a model with a collapse has a smallest one (well-foundedness of
the natural numbers, `LeastMember`), it has none exactly if the observations
determine the consequences (`NoCollapseIsDetermined`), a shrunk witness passes
the checker (`ShrunkWitness`), and a collapse of a calibration's model names a world
which the generated program gets wrong (`CollapseIsMismatch`). `CalibrationsAgree`
needs that the anchor is the only reviewed version (`RequiredAtAnchor`: then the source
requires what the adapter takes it to show) and that every version has its admissible
world; the other instances are where the two hand-written models part. The models may have any number of worlds, with the same,
finitely many coordinates.

E1: `E1Inv` adds `PassedFlowsAreClosed` to
`AliasesAreReachable`: while a pass has changed nothing, the flows it has passed are
closed, so at its end all are. That no smaller set would do is an invariant of
each step by monotonicity (`AlongIsMonotone`). `PreservationIsCompared` follows
with the aliases themselves as the closed set in which the other version is not.

`ClosureDescends`, for finitely many names: every step of the loop ends it or lowers,
lexicographically, `PassesLeft` (twice the names not yet found, and one more when
another pass is due) and `FlowsLeft`. A pass that changed nothing is the last one, and
a pass that changed something has found a name. Like `InvocationsDescend`, this is
the half of a liveness property, `PredictionIsReached`, that needs no fairness.

**MutationControl_proofs.** `ControlTypeCorrect`, `PromotionsAreSound` and
`SoundDetectorsArePromoted`, for every plan, domain of versions, pattern and detector. A
promotion compares seven counts with the full score, so the invariant relates counts
to places: `Due` is what a faultless execution has counted by now, no count exceeds
it (`CountsAreDue`), and an execution that was ever deceived is behind it or about to
be, when the verifications under way are scored (`DeceivedIsBehind`). Counts never
catch up, hence no promotion. That a deceiving report is never scored as a pass is
about the operators, and nothing is assumed of the reports: on a preserved seed a
baseline that passes says what a sound one says (`SoundIsPreserved`), the worlds a
localized mutant gets wrong are exactly those away from the anchor, so that a witness
which passes is one that a sound report can have (`LossIsMismatch`,
`LocalizedAgrees`), a collapsed discriminator does not discriminate (`CollapseAgrees`),
and an unchanged target has to repeat the baseline (`UnchangedAgrees`,
`BaselinesTell`). On seeds that are not preserved a detector may be promoted that
reports them so, which is why the theorem asks for preserved ones, as the two of
`experiments/unit002-m/CANONICAL_RESULT.md:21` are. In the other direction
`NothingIsMissed`: with fit seeds and a sound detector the counts are exactly `Due`.

`EnginesTypeCorrect` proves `EnginesTypeOK`, and `EnginesRunTheirParts` that the composition
the run `engines` checks implements `ControlSpec` and `E0Spec`. The E1 engine is not
started in the behaviours about the other two, so for it the invariant is stated of
its own topic (`E1Kept`).

Not proved: the liveness properties `EveryRunEnds` and `PredictionIsReached`
themselves. Their variants are (`InvocationsDescend`, `ClosureDescends`); that weak
fairness makes the steps happen needs ENABLED, which is out of the prover's reach, so
TLC checks them. Nor the properties of the four runs that are expected to be violated.
Every invariant and every action property of the passing runs, and both refinements,
have their theorem. Recursion over data does not occur in the modules with theorems:
`Reaches` and the closure are stated by closed sets.

## 6. Findings

1. `shared`: two invocations of one case use the same default output directory
   (`src/risu_verify.py:522`) and the report re-reads `certificate.json` (line
   548), so a status may be derived from a certificate no consumer accepted;
   `docs/ARCHITECTURE.md:64` says otherwise.
2. `export_race`: `run` embeds a third read of the artifacts and never validates
   the bundle it built; `docs/WORKBENCH_HANDOFF.md:24` promises a refusal.
   `compare` validates and does refuse (`ComparisonsAgree` in the run `export`).
3. `unit_uncommitted`: the v0.8 primary reads seal and manifest from the working
   tree and does not ask git for them; `corpus/0.1/INFRASTRUCTURE_V08.md:61` says
   the committed ones are compared.
4. `unit_reseal`: starting the seal tool over an existing seal refuses, asks the
   author to remove the outputs, and deletes them itself
   (`tools/corpus01_seal.py:66` and `:215`).

## 7. Not modelled, and why

- Rendering of reports, terminal output, wording of errors: no property is about
  them.
- `init` and `self-test` of the pipeline: `init` writes a draft into an empty
  directory; `self-test` calls functions modelled here on fixtures.
- The frozen core, external: a vendored archive, called as two subprocesses.
- The browser workbench: presentation of exported bundles.
- Verifiers of archived results (`tools/unit001_*`, `unit002m_*`, `unit002r_*`,
  meta-theory, differential and schema checks): straight-line recomputation that
  no other part reads while it runs.
- `risu_e0/baselines.py` (comparators that no prediction uses), the extractors of E0
  and E1 (regular expressions and `ast` over source text: a packet of facts is what
  the model starts from), E1's acquisition (one fetch by commit, as in unit 003).
- Fields that the validator and the static preflight compare one by one with a
  copy of themselves, and the safety of member names in bundles.
- In `BlindExam`, how `select` ranks paths: its result is one step.
- Torn files in the work root of a primary and in the exporter's inputs beyond
  those the pipeline tears, and a seal or manifest torn by a kill of the seal tool.
- A producer that exits with 0 and writes nothing: `Core` says which certificate an
  accepted assurance content leaves.
- A second acquirer of one packet, and a run that is pointed at the output directory
  of another examination, where `OwnOutput` excludes it: `exam_steps` and the theorems
  name both as circumstances, and nothing is claimed beyond them.
- The detail in which the two provenance searches of audit and preflight could differ:
  both are modelled by what they compute, reachability (`Reaches`).

## 8. Plan

Done, in this order: `VerifyRun`, `AssuranceGate` and the refinement with their
proofs; `WorkbenchExport`; `UnitLifecycle` and `BlindExam` with their proofs;
`Enrollment`, `CaseBuild`, `MutationControl`, `E0Engine` and `E1Engine`, with
their proofs; then the proofs of the exporter and of the control, `HeldOutExam` with the
refinement, and the variants of the two liveness properties. Eight modules hold proofs.

Next, in order of weight:

1. `SelectionPolicy`: eligibility, ranking and cut of `build_selection`, and what
   `verify_selection` can tell of them without the tree.
2. `ProvenanceReplay`: the replay classes `tools/provenance_verify.py` derives.
3. The packaging of the v0.1 bundle by the unit harness, next to the work root of
   `UnitLifecycle`.
