---------------------------- MODULE UnitLifecycle ----------------------------
(***************************************************************************)
(* One unit of the prospective corpus from author acceptance to its primary *)
(* execution: tools/corpus01_seal.py writes PRIMARY_RUN_MANIFEST.json and   *)
(* UNIT_SEAL.json for a freeze commit, the author commits them, and         *)
(* tools/corpus01_primary_v08.py checks seal, manifest and freeze (with     *)
(* tools/corpus01_primary_gate.py) before it compiles and verifies.         *)
(*                                                                         *)
(* Both tools read a git repository and its working tree again at every     *)
(* step.  Commits, amended commits, checkouts, uncommitted edits, edits of  *)
(* the generated files and killed tools come in between.                    *)
(***************************************************************************)
EXTENDS Naturals, Sequences

CONSTANTS
  Inputs,          \* contents of the unit's frozen paths
  Science,         \* [Inputs -> Facts]: what the tools find in them
  Others,          \* contents of the rest of the tracked tree
  Ways,            \* how the unit may be worked on, see WayRecords
  None

Files == {"inputs", "other", "manifest", "seal", "result"}

ValidExits == {0, 10, 20}
Facts ==
  [accepted : BOOLEAN, audit : BOOLEAN, corpus : BOOLEAN, compiles : BOOLEAN,
   exit : ValidExits \cup {30}]

Manifests == [freeze : Nat, inputs : Inputs, allowed : SUBSET Files]
Seals     == [freeze : Nat, manifest : Manifests]
Trees ==
  [inputs : Inputs, other : Others, manifest : Manifests \cup {None},
   seal : Seals \cup {None}, result : {"recorded", None}]
RootFiles == {"observation", "bundle", "result"}
Outcomes == [manifest : Manifests, inputs : Inputs, exit : ValidExits]

SealPcs ==
  {"idle", "clean", "audit", "manifest", "accept", "hash", "extend", "gate", "probe", "seal"}
PrimaryPcs ==
  {"idle", "seal", "audit", "corpus", "gate", "clear", "compile", "verify", "observe",
   "bundle", "result"}

\* Does somebody edit the generated manifest?  May the author act while a tool runs?
\* Is a primary only started in a clean checkout (CI)?  Which contents come up, and,
\* as a bound, how many commits?
WayRecords ==
  [handEdits : BOOLEAN, duringRun : BOOLEAN, fresh : BOOLEAN,
   inputs : SUBSET Inputs, others : SUBSET Others, commits : Nat]

ASSUME UnitConstants ==
  /\ Science \in [Inputs -> Facts]
  /\ Ways \subseteq WayRecords
  /\ None \notin Inputs \cup Manifests \cup Seals \cup Outcomes

VARIABLES
  way,       \* the way this unit is worked on, which stays
  repo,      \* the commits: their tree, and their history including themselves
  head,      \* the commit HEAD resolves to
  work,      \* the working tree
  sealer,    \* the seal tool: program counter and resolved freeze commit
  primary,   \* the primary runner: program counter and what it has read
  workRoot,  \* .risu/corpus01-v08/<unit>: observation, bundle, HARNESS_RESULT
  sealed     \* history: the manifests a completed seal pinned

vars == <<way, repo, head, work, sealer, primary, workRoot, sealed>>

IdleSealer  == [pc |-> "idle", freeze |-> None, manifest |-> None]
IdlePrimary == [pc |-> "idle", manifest |-> None, compiled |-> None, exit |-> None]
EmptyRoot   == [f \in RootFiles |-> None]

HandEdits      == way.handEdits
EditsDuringRun == way.duringRun
FreshCheckout  == way.fresh

Init ==
  /\ way \in Ways
  /\ \E i \in way.inputs, o \in way.others :
       work = [inputs |-> i, other |-> o, manifest |-> None, seal |-> None, result |-> None]
  /\ repo = <<[tree |-> work, past |-> {1}]>>
  /\ head = 1
  /\ sealer = IdleSealer /\ primary = IdlePrimary
  /\ workRoot = EmptyRoot
  /\ sealed = {}

-----------------------------------------------------------------------------
Committed == repo[head].tree
Clean == work = Committed
Changed(c, d) == {f \in Files : repo[c].tree[f] # repo[d].tree[f]}
Quiet == sealer.pc = "idle" /\ primary.pc = "idle"

SealerAt(pc)  == sealer.pc = pc
PrimaryAt(pc) == primary.pc = pc
SealerGoes(pc)  == sealer' = [sealer EXCEPT !.pc = pc]
PrimaryGoes(pc) == primary' = [primary EXCEPT !.pc = pc]
OnlySealer  == UNCHANGED <<repo, head, primary, workRoot>>
OnlyPrimary == UNCHANGED <<repo, head, work, sealer, sealed>>

\* corpus01_primary_gate.py on the manifest file m.
GatePasses(m) ==
  /\ m.freeze \in repo[head].past
  /\ work.inputs = m.inputs
  /\ repo[m.freeze].tree.inputs = m.inputs
  /\ Science[work.inputs].accepted
  /\ Changed(m.freeze, head) \subseteq m.allowed \cup {"manifest"}
  /\ work.result = None /\ Committed.result = None

-----------------------------------------------------------------------------
(* tools/corpus01_seal.py *)

\* A failure the tool handles: main deletes the seal and the manifest, whoever
\* wrote them.
SealFails ==
  /\ sealer' = IdleSealer
  /\ work' = [work EXCEPT !.manifest = None, !.seal = None]
  /\ UNCHANGED sealed

StartSeal ==
  /\ SealerAt("idle") /\ (EditsDuringRun \/ Quiet)
  /\ \E c \in DOMAIN repo : sealer' = [IdleSealer EXCEPT !.pc = "clean", !.freeze = c]
  /\ OnlySealer /\ UNCHANGED <<work, sealed>>

\* Mutant: outputs of an earlier seal are not looked for.
RequireCleanHeadOverOutputs ==
  /\ SealerAt("clean")
  /\ IF sealer.freeze = head /\ Clean
       THEN SealerGoes("audit") /\ UNCHANGED <<work, sealed>>
       ELSE SealFails
  /\ OnlySealer

\* require_clean_authoring_head
RequireCleanHead ==
  /\ SealerAt("clean")
  /\ IF sealer.freeze = head /\ work.manifest = None /\ work.seal = None /\ Clean
       THEN SealerGoes("audit") /\ UNCHANGED <<work, sealed>>
       ELSE SealFails
  /\ OnlySealer

SealAudit ==
  /\ SealerAt("audit")
  /\ IF Science[work.inputs].audit
       THEN SealerGoes("manifest") /\ UNCHANGED <<work, sealed>>
       ELSE SealFails
  /\ OnlySealer

NewManifest == [freeze |-> sealer.freeze, inputs |-> work.inputs, allowed |-> {"manifest"}]

\* build_primary_manifest audits once more, reads the acceptance after that, and then
\* hashes each frozen path as it is by then.
ReAudit ==
  /\ SealerAt("manifest")
  /\ IF Science[work.inputs].audit
       THEN SealerGoes("accept") /\ UNCHANGED <<work, sealed>>
       ELSE SealFails
  /\ OnlySealer

RequireAccepted ==
  /\ SealerAt("accept")
  /\ IF Science[work.inputs].accepted
       THEN SealerGoes("hash") /\ UNCHANGED <<work, sealed>>
       ELSE SealFails
  /\ OnlySealer

\* The bytes of each path are compared with the freeze commit when they are read, so
\* what is hashed are the inputs of that commit, however reads and edits mix.
BuildManifest ==
  /\ SealerAt("hash")
  /\ IF work.inputs = repo[sealer.freeze].tree.inputs
       THEN /\ work' = [work EXCEPT !.manifest = NewManifest]
            /\ sealer' = [sealer EXCEPT !.pc = "extend", !.manifest = NewManifest]
            /\ UNCHANGED sealed
       ELSE SealFails
  /\ OnlySealer

\* seal_unit writes the manifest it got once more, with the seal's path allowed.
ExtendManifest ==
  /\ SealerAt("extend")
  /\ work' = [work EXCEPT !.manifest = [sealer.manifest EXCEPT !.allowed = {"manifest", "seal"}]]
  /\ SealerGoes("gate")
  /\ OnlySealer /\ UNCHANGED sealed

SealGate ==
  /\ SealerAt("gate")
  /\ IF work.manifest # None /\ GatePasses(work.manifest)
       THEN SealerGoes("probe") /\ UNCHANGED <<work, sealed>>
       ELSE SealFails
  /\ OnlySealer

\* Materialization, a temporary compilation and the provenance preflight.
SealProbe ==
  /\ SealerAt("probe")
  /\ IF Science[work.inputs].compiles
       THEN SealerGoes("seal") /\ UNCHANGED <<work, sealed>>
       ELSE SealFails
  /\ OnlySealer

\* Mutant: the seal lists the hashes of the frozen paths as they are at the end.
WriteSealRehashed ==
  LET m == [work.manifest EXCEPT !.inputs = work.inputs] IN
  /\ SealerAt("seal")
  /\ IF work.manifest = None
       THEN SealFails
       ELSE /\ work' = [work EXCEPT !.manifest = m,
                                    !.seal = [freeze |-> sealer.freeze, manifest |-> m]]
            /\ sealed' = sealed \cup {m}
            /\ sealer' = IdleSealer
  /\ OnlySealer

\* The seal hashes the manifest file as it is now.
WriteSeal ==
  /\ SealerAt("seal")
  /\ IF work.manifest = None
       THEN SealFails
       ELSE /\ work' = [work EXCEPT !.seal = [freeze |-> sealer.freeze, manifest |-> work.manifest]]
            /\ sealed' = sealed \cup {work.manifest}
            /\ sealer' = IdleSealer
  /\ OnlySealer

\* Any step may raise for a reason outside the unit: git or a subprocess fails, a
\* bundle does not materialize, files left by earlier tools make the tree unclean.
SealStepRaises == ~SealerAt("idle") /\ SealFails /\ OnlySealer

KillSealer ==
  /\ ~SealerAt("idle")
  /\ sealer' = IdleSealer
  /\ OnlySealer /\ UNCHANGED <<work, sealed>>

-----------------------------------------------------------------------------
(* tools/corpus01_primary_v08.py *)

PrimaryFails == primary' = IdlePrimary /\ UNCHANGED workRoot

StartPrimary ==
  /\ PrimaryAt("idle") /\ (EditsDuringRun \/ Quiet) /\ (FreshCheckout => Clean)
  /\ work.manifest # None
  /\ primary' = [IdlePrimary EXCEPT !.pc = "seal", !.manifest = work.manifest]
  /\ OnlyPrimary /\ UNCHANGED workRoot

\* Mutants: a missing seal is not refused; only its freeze commit is compared.
VerifySealIfPresent ==
  /\ PrimaryAt("seal")
  /\ IF /\ work.seal # None => work.seal.freeze = primary.manifest.freeze
        /\ work.seal # None => work.seal.manifest = work.manifest
       THEN PrimaryGoes("audit") /\ UNCHANGED workRoot
       ELSE PrimaryFails
  /\ OnlyPrimary

VerifySealFreezeOnly ==
  /\ PrimaryAt("seal")
  /\ IF work.seal # None /\ work.seal.freeze = primary.manifest.freeze
       THEN PrimaryGoes("audit") /\ UNCHANGED workRoot
       ELSE PrimaryFails
  /\ OnlyPrimary

\* verify_seal: the seal pins the manifest file as it is now.
VerifySeal ==
  /\ PrimaryAt("seal")
  /\ IF /\ work.seal # None
        /\ work.seal.freeze = primary.manifest.freeze
        /\ work.seal.manifest = work.manifest
       THEN PrimaryGoes("audit") /\ UNCHANGED workRoot
       ELSE PrimaryFails
  /\ OnlyPrimary

PrimaryAudit ==
  /\ PrimaryAt("audit")
  /\ IF Science[work.inputs].audit
       THEN PrimaryGoes("corpus") /\ UNCHANGED workRoot
       ELSE PrimaryFails
  /\ OnlyPrimary

CorpusValidate ==
  /\ PrimaryAt("corpus")
  /\ IF Science[work.inputs].corpus
       THEN PrimaryGoes("gate") /\ UNCHANGED workRoot
       ELSE PrimaryFails
  /\ OnlyPrimary

PrimaryGate ==
  /\ PrimaryAt("gate")
  /\ IF work.manifest # None /\ GatePasses(work.manifest)
       THEN PrimaryGoes("clear") /\ UNCHANGED workRoot
       ELSE PrimaryFails
  /\ OnlyPrimary

\* Mutant: an earlier work root is not removed.
KeepWorkRoot ==
  /\ PrimaryAt("clear")
  /\ PrimaryGoes("compile")
  /\ OnlyPrimary /\ UNCHANGED workRoot

\* shutil.rmtree(work_root) removes one entry after the other, in any order; killed or
\* failing in between (KillPrimary) it leaves the others.
RemoveFromWorkRoot ==
  /\ PrimaryAt("clear")
  /\ \E f \in RootFiles : workRoot[f] # None /\ workRoot' = [workRoot EXCEPT ![f] = None]
  /\ OnlyPrimary /\ UNCHANGED primary

ClearWorkRoot ==
  /\ PrimaryAt("clear") /\ workRoot = EmptyRoot
  /\ PrimaryGoes("compile")
  /\ OnlyPrimary /\ UNCHANGED workRoot

\* corpus01_compile, metadata sanitation, bound evidence and the preflight.
Compile ==
  /\ PrimaryAt("compile")
  /\ IF Science[work.inputs].compiles /\ Science[work.inputs].accepted
       THEN /\ primary' = [primary EXCEPT !.pc = "verify", !.compiled = work.inputs]
            /\ UNCHANGED workRoot
       ELSE PrimaryFails
  /\ OnlyPrimary

\* Mutant: every exit code of the verifier is taken for an outcome.
VerifyAnyExit ==
  /\ PrimaryAt("verify")
  /\ primary' = [primary EXCEPT !.pc = "observe", !.exit = Science[primary.compiled].exit]
  /\ OnlyPrimary /\ UNCHANGED workRoot

\* risu-verify on the compiled case; any exit but 0, 10 and 20 is a failure.
Verify ==
  LET code == Science[primary.compiled].exit IN
  /\ PrimaryAt("verify")
  /\ IF code \in ValidExits
       THEN primary' = [primary EXCEPT !.pc = "observe", !.exit = code] /\ UNCHANGED workRoot
       ELSE PrimaryFails
  /\ OnlyPrimary

Outcome ==
  [manifest |-> primary.manifest, inputs |-> primary.compiled, exit |-> primary.exit]

WriteObservation ==
  /\ PrimaryAt("observe")
  /\ workRoot' = [workRoot EXCEPT !.observation = Outcome]
  /\ PrimaryGoes("bundle")
  /\ OnlyPrimary

\* The bundle is packed from the files in the work root.
BuildBundle ==
  /\ PrimaryAt("bundle")
  /\ workRoot' = [workRoot EXCEPT !.bundle = workRoot.observation]
  /\ PrimaryGoes("result")
  /\ OnlyPrimary

WriteResult ==
  /\ PrimaryAt("result")
  /\ workRoot' = [workRoot EXCEPT !.result = Outcome]
  /\ primary' = IdlePrimary
  /\ OnlyPrimary

\* Killed, or a step raised: either way the work root stays as it is.
KillPrimary ==
  /\ ~PrimaryAt("idle")
  /\ primary' = IdlePrimary
  /\ OnlyPrimary /\ UNCHANGED workRoot

-----------------------------------------------------------------------------
(* The author, git and the working tree *)

AuthorMay == EditsDuringRun \/ Quiet
OnlyTree == UNCHANGED <<repo, head, sealer, primary, workRoot, sealed>>

EditInputs == AuthorMay /\ OnlyTree /\ \E i \in way.inputs : work' = [work EXCEPT !.inputs = i]
EditOther  == AuthorMay /\ OnlyTree /\ \E o \in way.others : work' = [work EXCEPT !.other = o]

\* Both generated files are removed, as the seal tool asks for a fresh seal.
RemoveOutputs ==
  AuthorMay /\ OnlyTree /\ work' = [work EXCEPT !.manifest = None, !.seal = None]

\* Hashes or allowed paths of the manifest are changed by hand.
EditManifest ==
  /\ HandEdits /\ AuthorMay /\ OnlyTree
  /\ work.manifest # None
  /\ work' = [work EXCEPT !.manifest = [@ EXCEPT !.inputs = work.inputs, !.allowed = Files]]

\* The result of a primary is archived in the unit directory.
RecordResult ==
  /\ AuthorMay /\ OnlyTree
  /\ workRoot.result # None
  /\ work' = [work EXCEPT !.result = "recorded"]

Commit(past) ==
  /\ repo' = Append(repo, [tree |-> work, past |-> past \cup {Len(repo) + 1}])
  /\ head' = Len(repo) + 1
  /\ UNCHANGED <<work, sealer, primary, workRoot, sealed>>

GitCommit ==
  /\ AuthorMay /\ ~Clean /\ Len(repo) < way.commits
  /\ Commit(repo[head].past)

\* git commit --amend: the old HEAD is no ancestor of the new one.
GitAmend ==
  /\ AuthorMay /\ ~Clean /\ Len(repo) < way.commits
  /\ Commit(repo[head].past \ {head})

GitCheckout ==
  /\ AuthorMay /\ Clean
  /\ \E c \in DOMAIN repo \ {head} : head' = c /\ work' = repo[c].tree
  /\ UNCHANGED <<repo, sealer, primary, workRoot, sealed>>

SealTool ==
  \/ StartSeal \/ RequireCleanHead \/ SealAudit \/ ReAudit \/ RequireAccepted \/ BuildManifest
  \/ ExtendManifest \/ SealGate \/ SealProbe \/ WriteSeal \/ SealStepRaises \/ KillSealer
PrimaryRunner ==
  \/ StartPrimary \/ VerifySeal \/ PrimaryAudit \/ CorpusValidate \/ PrimaryGate
  \/ RemoveFromWorkRoot \/ ClearWorkRoot \/ Compile \/ Verify \/ WriteObservation
  \/ BuildBundle \/ WriteResult \/ KillPrimary
Author ==
  \/ EditInputs \/ EditOther \/ RemoveOutputs \/ EditManifest \/ RecordResult
  \/ GitCommit \/ GitAmend \/ GitCheckout

Next == (SealTool \/ PrimaryRunner \/ Author) /\ UNCHANGED way

Spec == Init /\ [][Next]_vars
-----------------------------------------------------------------------------
(* Properties *)

TypeOK ==
  /\ way \in Ways
  /\ repo \in Seq([tree : Trees, past : SUBSET Nat])
  /\ head \in DOMAIN repo
  /\ work \in Trees
  /\ sealer \in [pc : SealPcs, freeze : Nat \cup {None}, manifest : Manifests \cup {None}]
  /\ primary \in [pc : PrimaryPcs, manifest : Manifests \cup {None},
                  compiled : Inputs \cup {None}, exit : ValidExits \cup {None}]
  /\ workRoot \in [RootFiles -> Outcomes \cup {None}]
  /\ sealed \subseteq Manifests

\* What a completed seal pinned are inputs of its freeze commit, also when the author
\* edits, commits and amends while the tool runs, unless somebody edits a generated
\* manifest.  They passed the audit and were accepted if the author waits: one who does
\* not can have other inputs in place while those are looked at.
SealedInputsAreFrozen ==
  ~HandEdits => \A m \in sealed :
    /\ m.freeze \in DOMAIN repo
    /\ m.inputs = repo[m.freeze].tree.inputs
    /\ EditsDuringRun \/ (Science[m.inputs].accepted /\ Science[m.inputs].audit)

\* UNIT_SEAL.json never stands without the manifest it pins, in the working tree
\* and in every commit, however often seals fail, are killed or are started over
\* (nobody edits the generated files, and the author waits while a tool runs).
SealPinsItsManifest ==
  ~HandEdits /\ ~EditsDuringRun => \A t \in {work} \cup {repo[c].tree : c \in DOMAIN repo} :
    t.seal # None => t.seal.manifest = t.manifest /\ t.seal.freeze = t.manifest.freeze

\* A primary observation was made from the inputs of the freeze commit, under a
\* manifest that a completed seal pinned, with nothing else of the tracked tree
\* changed since, whatever was edited, amended or checked out before the primary
\* started, manifests included.
PrimaryRanOnSealedInputs ==
  ~EditsDuringRun /\ primary.pc = "bundle" =>
    LET m == workRoot.observation.manifest IN
      /\ m \in sealed
      /\ workRoot.observation.inputs = repo[m.freeze].tree.inputs
      /\ m.freeze \in repo[head].past
      /\ Changed(m.freeze, head) \subseteq {"manifest", "seal"}

\* HARNESS_RESULT.json, the bundle and the observation in a work root, as many of them
\* as there are, are those of one execution, also after executions that were killed or
\* failed there, in the middle of removing what an earlier one left included.
WorkRootOfOneExecution ==
  \A f, g \in RootFiles : workRoot[f] # None /\ workRoot[g] # None => workRoot[f] = workRoot[g]

\* A primary that passed every gate has a seal and a manifest at HEAD, and the
\* seal pins that manifest (corpus/0.1/INFRASTRUCTURE_V08.md:61).
CommittedSealPinsManifest ==
  primary.pc = "clear" =>
    /\ Committed.seal # None
    /\ Committed.seal.manifest = Committed.manifest
    /\ primary.manifest = Committed.manifest

\* The same where a primary starts in a clean checkout that nobody touches meanwhile,
\* as the workflow makes one.
CheckedOutSealPinsManifest ==
  FreshCheckout /\ ~EditsDuringRun => CommittedSealPinsManifest

\* A seal that is refused because its outputs exist leaves them alone: the
\* message asks the author to remove them (tools/corpus01_seal.py:66).
RefusalKeepsSeal ==
  [][SealerAt("clean") /\ work.seal # None => work'.seal = work.seal]_vars
=============================================================================
