------------------------- MODULE UnitLifecycle_proofs -------------------------
(* Theorems about seals and primaries, for every repository and unit. *)
EXTENDS UnitLifecycle, SequenceTheorems, TLAPS

Commits == [tree : Trees, past : SUBSET Nat]

\* A value that a tool uses at a step was set by an earlier one.
SetSoFar ==
  /\ sealer.pc # "idle" => sealer.freeze \in DOMAIN repo
  /\ sealer.pc = "extend" => sealer.manifest \in Manifests
  /\ primary.pc # "idle" => primary.manifest \in Manifests
  /\ primary.pc \in {"verify", "observe", "bundle", "result"} => primary.compiled \in Inputs
  /\ primary.pc \in {"observe", "bundle", "result"} => primary.exit \in ValidExits

TypeInv == TypeOK /\ SetSoFar

SealerTypes ==
  [pc : SealPcs, freeze : Nat \cup {None}, manifest : Manifests \cup {None}]
PrimaryTypes ==
  [pc : PrimaryPcs, manifest : Manifests \cup {None}, compiled : Inputs \cup {None},
   exit : ValidExits \cup {None}]
RootTypes == [RootFiles -> Outcomes \cup {None}]

-----------------------------------------------------------------------------
(* What each side of the system leaves alone *)

LEMMA SealToolFrame ==
  ASSUME SealTool PROVE UNCHANGED <<repo, head, primary, workRoot>>
BY DEF SealTool, StartSeal, RequireCleanHead, SealAudit, ReAudit, RequireAccepted, BuildManifest,
       ExtendManifest, SealGate, SealProbe, WriteSeal, SealStepRaises, KillSealer, OnlySealer

LEMMA PrimaryRunnerFrame ==
  ASSUME PrimaryRunner PROVE UNCHANGED <<repo, head, work, sealer, sealed>>
BY DEF PrimaryRunner, StartPrimary, VerifySeal, PrimaryAudit, CorpusValidate, PrimaryGate,
       RemoveFromWorkRoot, ClearWorkRoot, Compile, Verify, WriteObservation, BuildBundle,
       WriteResult, KillPrimary, OnlyPrimary

LEMMA AuthorFrame ==
  ASSUME Author PROVE AuthorMay /\ UNCHANGED <<sealer, primary, workRoot, sealed>>
BY DEF Author, EditInputs, EditOther, RemoveOutputs, EditManifest, RecordResult, GitCommit,
       GitAmend, GitCheckout, Commit, OnlyTree

LEMMA WayStays ==
  ASSUME way' = way
  PROVE  /\ HandEdits' = HandEdits /\ EditsDuringRun' = EditsDuringRun
         /\ FreshCheckout' = FreshCheckout
BY DEF HandEdits, EditsDuringRun, FreshCheckout

LEMMA NextWay == [Next]_vars => way' = way
BY DEF Next, vars

\* The repository only grows, and a commit stays what it was.
LEMMA RepoGrows ==
  ASSUME TypeOK, NEW past, Commit(past)
  PROVE  /\ DOMAIN repo' = DOMAIN repo \cup {head'} /\ head' \in Nat
         /\ \A c \in DOMAIN repo : repo'[c] = repo[c]
         /\ repo'[head'].tree = work /\ repo'[head'].past = past \cup {head'}
         /\ head' \notin DOMAIN repo
<1> DEFINE x == [tree |-> work, past |-> past \cup {Len(repo) + 1}]
<1>1. repo \in Seq(Commits)
  BY DEF TypeOK, Commits
<1>2. repo' = Append(repo, x) /\ head' = Len(repo) + 1
  BY DEF Commit
<1>3. /\ DOMAIN repo = 1 .. Len(repo) /\ Len(repo) \in Nat
      /\ DOMAIN repo' = 1 .. Len(repo) + 1
      /\ \A c \in 1 .. Len(repo) : repo'[c] = repo[c]
      /\ repo'[Len(repo) + 1] = x
  BY <1>1, <1>2
<1> QED
  BY <1>2, <1>3

-----------------------------------------------------------------------------
(* Types *)

LEMMA Shapes ==
  /\ IdleSealer \in SealerTypes /\ IdleSealer.pc = "idle"
  /\ IdlePrimary \in PrimaryTypes /\ IdlePrimary.pc = "idle"
  /\ EmptyRoot \in RootTypes
  /\ "observation" \in RootFiles /\ "bundle" \in RootFiles /\ "result" \in RootFiles
BY DEF IdleSealer, IdlePrimary, EmptyRoot, RootFiles, SealerTypes, PrimaryTypes, RootTypes, SealPcs, PrimaryPcs

LEMMA TypeSplit ==
  TypeOK <=> /\ way \in Ways
             /\ repo \in Seq(Commits) /\ head \in DOMAIN repo /\ work \in Trees
             /\ sealer \in SealerTypes /\ primary \in PrimaryTypes
             /\ workRoot \in RootTypes /\ sealed \subseteq Manifests
BY DEF TypeOK, Commits, SealerTypes, PrimaryTypes, RootTypes

LEMMA TypeInit == Init => TypeInv
<1> SUFFICES ASSUME Init PROVE TypeInv
  OBVIOUS
<1>1. work \in Trees
  <2>1. PICK i \in way.inputs, o \in way.others :
          work = [inputs |-> i, other |-> o, manifest |-> None, seal |-> None, result |-> None]
    BY DEF Init
  <2>2. i \in Inputs /\ o \in Others
    BY UnitConstants DEF WayRecords, Init
  <2> QED
    BY <2>1, <2>2 DEF Trees
<1>2. repo \in Seq(Commits) /\ DOMAIN repo = {1}
  <2>1. [tree |-> work, past |-> {1}] \in Commits
    BY <1>1 DEF Commits
  <2> QED
    BY <2>1 DEF Init
<1>3. TypeOK
  BY <1>1, <1>2, Shapes, TypeSplit DEF Init
<1> QED
  BY <1>3, Shapes DEF Init, TypeInv, SetSoFar

LEMMA TreeTyped ==
  ASSUME work \in Trees
  PROVE  /\ \A i \in Inputs : [work EXCEPT !.inputs = i] \in Trees
         /\ \A o \in Others : [work EXCEPT !.other = o] \in Trees
         /\ \A m \in Manifests : [work EXCEPT !.manifest = m] \in Trees
         /\ \A s \in Seals : [work EXCEPT !.seal = s] \in Trees
         /\ [work EXCEPT !.manifest = None, !.seal = None] \in Trees
         /\ [work EXCEPT !.result = "recorded"] \in Trees
BY DEF Trees

LEMMA SealToolTyped == ASSUME TypeInv, SealTool, way' = way PROVE TypeInv'
<1> USE DEF SealerAt, SealerGoes
<1>1. /\ way \in Ways /\ repo \in Seq(Commits) /\ head \in DOMAIN repo /\ work \in Trees
      /\ sealer \in SealerTypes /\ primary \in PrimaryTypes
      /\ workRoot \in RootTypes /\ sealed \subseteq Manifests /\ SetSoFar
  BY TypeSplit DEF TypeInv
<1>2. UNCHANGED <<repo, head, primary, workRoot>>
  BY SealToolFrame
<1>d. DOMAIN repo \subseteq Nat
  BY <1>1
<1>s. SUFFICES /\ work' \in Trees /\ sealed' \subseteq Manifests /\ sealer' \in SealerTypes
               /\ sealer'.pc # "idle" => sealer'.freeze \in DOMAIN repo
               /\ sealer'.pc = "extend" => sealer'.manifest \in Manifests
  BY <1>1, <1>2, TypeSplit DEF TypeInv, TypeOK, SetSoFar, Commits, SealerTypes, PrimaryTypes, RootTypes
<1>3. CASE SealFails
  BY <1>3, <1>1, Shapes, TreeTyped DEF SealFails
<1>4. CASE StartSeal
  <2>1. PICK c \in DOMAIN repo : sealer' = [IdleSealer EXCEPT !.pc = "clean", !.freeze = c]
    BY <1>4 DEF StartSeal
  <2>2. sealer' \in SealerTypes /\ sealer'.pc = "clean" /\ sealer'.freeze = c
    BY <2>1, <1>d DEF IdleSealer, SealerTypes, SealPcs
  <2> QED
    BY <2>2, <1>1, <1>4 DEF StartSeal
<1>5. CASE \E pc \in {"audit", "manifest", "accept", "hash", "gate", "probe", "seal"} :
             /\ sealer.pc # "idle"
             /\ sealer' = [sealer EXCEPT !.pc = pc]
             /\ work' \in Trees /\ UNCHANGED sealed
  BY <1>5, <1>1 DEF SealerTypes, SealPcs, SetSoFar
<1>6. NewManifest \in Manifests \/ sealer.pc = "idle"
  BY <1>1, <1>d DEF NewManifest, Manifests, SetSoFar, Trees, Files
<1>7. CASE BuildManifest
  <2>1. CASE SealFails
    BY <2>1, <1>3
  <2>2. CASE ~SealFails
    <3>1. /\ work' = [work EXCEPT !.manifest = NewManifest] /\ sealed' = sealed
          /\ sealer' = [sealer EXCEPT !.pc = "extend", !.manifest = NewManifest]
          /\ sealer.pc = "hash"
      BY <1>7, <2>2 DEF BuildManifest
    <3>2. NewManifest \in Manifests
      BY <1>6, <3>1
    <3>3. /\ sealer' \in SealerTypes /\ sealer'.pc = "extend" /\ sealer'.freeze = sealer.freeze
          /\ sealer'.manifest = NewManifest
      BY <3>1, <3>2, <1>1 DEF SealerTypes, SealPcs
    <3> QED
      BY <3>1, <3>2, <3>3, <1>1, TreeTyped DEF SetSoFar
  <2> QED
    BY <2>1, <2>2
<1>8. CASE ExtendManifest
  <2>1. [sealer.manifest EXCEPT !.allowed = {"manifest", "seal"}] \in Manifests
    BY <1>8, <1>1 DEF ExtendManifest, SetSoFar, Manifests, Files
  <2>2. work' \in Trees
    BY <2>1, <1>8, <1>1, TreeTyped DEF ExtendManifest
  <2> QED
    BY <2>2, <1>5, <1>8 DEF ExtendManifest
<1>9. CASE WriteSeal
  <2>1. CASE work.manifest = None
    BY <2>1, <1>9, <1>3 DEF WriteSeal
  <2>2. CASE work.manifest # None
    <3> DEFINE s == [freeze |-> sealer.freeze, manifest |-> work.manifest]
    <3>1. work.manifest \in Manifests /\ sealer.freeze \in Nat
      BY <2>2, <1>1, <1>9, <1>d DEF Trees, SetSoFar, WriteSeal
    <3>2. s \in Seals
      BY <3>1 DEF Seals
    <3>3. work' = [work EXCEPT !.seal = s] /\ sealed' = sealed \cup {work.manifest}
          /\ sealer' = IdleSealer
      BY <2>2, <1>9 DEF WriteSeal
    <3> QED
      BY <3>1, <3>2, <3>3, <1>1, TreeTyped, Shapes
  <2> QED
    BY <2>1, <2>2
<1>10. CASE \/ RequireCleanHead \/ SealAudit \/ ReAudit \/ RequireAccepted \/ SealGate
            \/ SealProbe
  BY <1>10, <1>3, <1>5, <1>1 DEF RequireCleanHead, SealAudit, ReAudit, RequireAccepted, SealGate,
     SealProbe
<1>11. CASE SealStepRaises
  BY <1>11, <1>3 DEF SealStepRaises
<1>12. CASE KillSealer
  BY <1>12, <1>1, Shapes DEF KillSealer
<1> QED
  BY <1>4, <1>7, <1>8, <1>9, <1>10, <1>11, <1>12 DEF SealTool

LEMMA OutcomeTyped ==
  ASSUME TypeInv, primary.pc \in {"observe", "bundle", "result"}
  PROVE  Outcome \in Outcomes
BY DEF Outcome, Outcomes, TypeInv, SetSoFar

LEMMA PrimaryRunnerTyped == ASSUME TypeInv, PrimaryRunner, way' = way PROVE TypeInv'
<1> USE DEF PrimaryAt, PrimaryGoes
<1>1. /\ way \in Ways /\ repo \in Seq(Commits) /\ head \in DOMAIN repo /\ work \in Trees
      /\ sealer \in SealerTypes /\ primary \in PrimaryTypes
      /\ workRoot \in RootTypes /\ sealed \subseteq Manifests /\ SetSoFar
  BY TypeSplit DEF TypeInv
<1>2. UNCHANGED <<repo, head, work, sealer, sealed>>
  BY PrimaryRunnerFrame
<1> DEFINE Set(q) ==
      /\ q.pc # "idle" => q.manifest \in Manifests
      /\ q.pc \in {"verify", "observe", "bundle", "result"} => q.compiled \in Inputs
      /\ q.pc \in {"observe", "bundle", "result"} => q.exit \in ValidExits
<1>s. SUFFICES primary' \in PrimaryTypes /\ Set(primary)' /\ workRoot' \in RootTypes
  BY <1>1, <1>2, TypeSplit DEF TypeInv, TypeOK, SetSoFar, Commits, SealerTypes, PrimaryTypes, RootTypes
<1>0. Set(primary)
  BY <1>1 DEF SetSoFar
<1>3. CASE primary' = IdlePrimary /\ workRoot' \in RootTypes
  BY <1>3, Shapes
<1>4. CASE PrimaryFails
  BY <1>4, <1>3, <1>1 DEF PrimaryFails
<1>5. CASE \E pc \in {"audit", "corpus", "gate", "clear", "compile"} :
             /\ primary.pc # "idle" /\ primary' = [primary EXCEPT !.pc = pc]
             /\ workRoot' \in RootTypes
  BY <1>5, <1>0, <1>1 DEF PrimaryTypes, PrimaryPcs
<1>6. CASE StartPrimary
  <2>1. work.manifest \in Manifests
    BY <1>1, <1>6 DEF StartPrimary, Trees
  <2>2. primary' = [IdlePrimary EXCEPT !.pc = "seal", !.manifest = work.manifest]
    BY <1>6 DEF StartPrimary
  <2>3. primary' \in PrimaryTypes /\ primary'.pc = "seal" /\ primary'.manifest = work.manifest
    BY <2>1, <2>2 DEF IdlePrimary, PrimaryTypes, PrimaryPcs
  <2> QED
    BY <2>1, <2>3, <1>1, <1>6 DEF StartPrimary
<1>7. CASE VerifySeal \/ PrimaryAudit \/ CorpusValidate \/ PrimaryGate
  BY <1>7, <1>4, <1>5, <1>1 DEF VerifySeal, PrimaryAudit, CorpusValidate, PrimaryGate
<1>8. CASE RemoveFromWorkRoot
  <2>1. PICK f \in RootFiles : workRoot' = [workRoot EXCEPT ![f] = None]
    BY <1>8 DEF RemoveFromWorkRoot
  <2>2. workRoot' \in RootTypes
    BY <2>1, <1>1 DEF RootTypes
  <2> QED
    BY <2>2, <1>8, <1>0, <1>1 DEF RemoveFromWorkRoot
<1>14. CASE ClearWorkRoot
  BY <1>14, <1>5, <1>1 DEF ClearWorkRoot
<1>9. CASE Compile
  <2>1. CASE PrimaryFails
    BY <2>1, <1>4
  <2>2. CASE ~PrimaryFails
    <3>1. primary' = [primary EXCEPT !.pc = "verify", !.compiled = work.inputs]
          /\ workRoot' = workRoot /\ primary.pc = "compile"
      BY <2>2, <1>9 DEF Compile
    <3>2. work.inputs \in Inputs
      BY <1>1 DEF Trees
    <3>3. /\ primary' \in PrimaryTypes /\ primary'.pc = "verify"
          /\ primary'.manifest = primary.manifest /\ primary'.compiled = work.inputs
      BY <3>1, <3>2, <1>1 DEF PrimaryTypes, PrimaryPcs
    <3> QED
      BY <3>1, <3>2, <3>3, <1>0, <1>1
  <2> QED
    BY <2>1, <2>2
<1>10. CASE Verify
  <2> DEFINE code == Science[primary.compiled].exit
  <2>1. CASE PrimaryFails
    BY <2>1, <1>4
  <2>2. CASE ~PrimaryFails
    <3>1. /\ primary' = [primary EXCEPT !.pc = "observe", !.exit = code] /\ code \in ValidExits
          /\ workRoot' = workRoot /\ primary.pc = "verify"
      BY <2>2, <1>10 DEF Verify
    <3>3. /\ primary' \in PrimaryTypes /\ primary'.pc = "observe" /\ primary'.exit = code
          /\ primary'.manifest = primary.manifest /\ primary'.compiled = primary.compiled
      BY <3>1, <1>1 DEF PrimaryTypes, PrimaryPcs
    <3> QED
      BY <3>1, <3>3, <1>0, <1>1
  <2> QED
    BY <2>1, <2>2
<1>11. CASE WriteObservation \/ BuildBundle
  <2>1. \E pc \in {"bundle", "result"} :
          primary' = [primary EXCEPT !.pc = pc] /\ primary.pc \in {"observe", "bundle"}
    BY <1>11 DEF WriteObservation, BuildBundle
  <2>2. primary' \in PrimaryTypes /\ Set(primary)'
    BY <2>1, <1>0, <1>1 DEF PrimaryTypes, PrimaryPcs
  <2>3. workRoot' \in RootTypes
    BY <1>11, <1>1, OutcomeTyped, Shapes DEF WriteObservation, BuildBundle, RootTypes
  <2> QED
    BY <2>2, <2>3
<1>12. CASE WriteResult
  <2>1. workRoot' \in RootTypes
    BY <1>12, <1>1, OutcomeTyped DEF WriteResult, RootTypes
  <2> QED
    BY <2>1, <1>12, <1>3 DEF WriteResult
<1>13. CASE KillPrimary
  BY <1>13, <1>3, <1>1 DEF KillPrimary
<1> QED
  BY <1>6, <1>7, <1>8, <1>9, <1>10, <1>11, <1>12, <1>13, <1>14 DEF PrimaryRunner

LEMMA AuthorTyped == ASSUME TypeInv, Author, way' = way PROVE TypeInv'
<1>1. /\ way \in Ways /\ repo \in Seq(Commits) /\ head \in DOMAIN repo /\ work \in Trees
      /\ sealer \in SealerTypes /\ primary \in PrimaryTypes
      /\ workRoot \in RootTypes /\ sealed \subseteq Manifests /\ SetSoFar
  BY TypeSplit DEF TypeInv
<1>2. UNCHANGED <<sealer, primary, workRoot, sealed>>
  BY AuthorFrame
<1>s. SUFFICES /\ repo' \in Seq(Commits) /\ head' \in DOMAIN repo' /\ work' \in Trees
               /\ DOMAIN repo \subseteq DOMAIN repo'
  BY <1>1, <1>2, TypeSplit DEF TypeInv, TypeOK, SetSoFar, Commits, SealerTypes, PrimaryTypes, RootTypes
<1>w. way.inputs \subseteq Inputs /\ way.others \subseteq Others
  BY <1>1, UnitConstants DEF WayRecords
<1>3. CASE EditInputs \/ EditOther \/ RemoveOutputs \/ RecordResult
  BY <1>3, <1>1, <1>w, TreeTyped DEF EditInputs, EditOther, RemoveOutputs, RecordResult, OnlyTree
<1>4. CASE EditManifest
  <2>1. [work.manifest EXCEPT !.inputs = work.inputs, !.allowed = Files] \in Manifests
    BY <1>4, <1>1 DEF EditManifest, Trees, Manifests
  <2> QED
    BY <2>1, <1>4, <1>1, TreeTyped DEF EditManifest, OnlyTree
<1>5. ASSUME NEW past, past \subseteq Nat, Commit(past)
      PROVE  /\ repo' \in Seq(Commits) /\ head' \in DOMAIN repo' /\ work' = work
             /\ DOMAIN repo \subseteq DOMAIN repo'
  <2>1. DOMAIN repo' = DOMAIN repo \cup {head'}
    BY <1>5, RepoGrows DEF TypeInv
  <2>2. [tree |-> work, past |-> past \cup {Len(repo) + 1}] \in Commits
    <3>1. Len(repo) + 1 \in Nat
      BY <1>1
    <3>2. past \cup {Len(repo) + 1} \in SUBSET Nat
      BY <3>1, <1>5
    <3> QED
      BY <3>2, <1>1 DEF Commits
  <2> QED
    BY <2>1, <2>2, <1>1, <1>5 DEF Commit
<1>e. \A c \in DOMAIN repo : repo[c].past \subseteq Nat /\ repo[c].tree \in Trees
  <2> SUFFICES ASSUME NEW c \in DOMAIN repo PROVE repo[c] \in Commits
    BY DEF Commits
  <2> QED
    BY <1>1, ElementOfSeq
<1>6. repo[head].past \subseteq Nat
  BY <1>1, <1>e
<1>7. CASE GitCommit \/ GitAmend
  BY <1>7, <1>5, <1>6, <1>1 DEF GitCommit, GitAmend
<1>8. CASE GitCheckout
  BY <1>8, <1>1, <1>e DEF GitCheckout
<1> QED
  BY <1>3, <1>4, <1>7, <1>8 DEF Author

LEMMA NextTyped == TypeInv /\ [Next]_vars => TypeInv'
<1>1. TypeInv /\ UNCHANGED vars => TypeInv'
  BY DEF vars, TypeInv, TypeOK, SetSoFar
<1> QED
  BY <1>1, SealToolTyped, PrimaryRunnerTyped, AuthorTyped DEF Next

\* The state stays well-formed, and each tool uses at a step only what an earlier
\* step of it has set, for every repository and however often tools are killed.
THEOREM UnitTypeCorrect == Spec => []TypeOK
<1>1. Spec => []TypeInv
  BY TypeInit, NextTyped, PTL DEF Spec
<1> QED
  BY <1>1, PTL DEF TypeInv

-----------------------------------------------------------------------------
(* What a seal pins *)

\* The manifest m lists inputs of its freeze commit, which passed the checks of the seal
\* tool if the author waited for it.
Checked(i) == EditsDuringRun \/ (Science[i].accepted /\ Science[i].audit)

FrozenBy(m) ==
  /\ m.freeze \in DOMAIN repo
  /\ m.inputs = repo[m.freeze].tree.inputs
  /\ Checked(m.inputs)

\* Nobody edits a manifest, so every one there is was computed by the tool.
FrozenInv ==
  /\ work.manifest # None => FrozenBy(work.manifest)
  /\ \A c \in DOMAIN repo : repo[c].tree.manifest # None => FrozenBy(repo[c].tree.manifest)
  /\ sealer.pc = "extend" => FrozenBy(sealer.manifest)
  /\ sealer.pc \in {"accept", "hash"} => EditsDuringRun \/ Science[work.inputs].audit
  /\ sealer.pc = "hash" => Checked(work.inputs)
  /\ \A m \in sealed : FrozenBy(m)

LEMMA FrozenInit == Init => FrozenInv
<1> SUFFICES ASSUME Init PROVE FrozenInv
  OBVIOUS
<1>1. work.manifest = None /\ DOMAIN repo = {1} /\ repo[1].tree = work
  BY DEF Init
<1> QED
  BY <1>1 DEF Init, IdleSealer, FrozenInv

LEMMA CommitsTyped ==
  ASSUME TypeOK
  PROVE  \A c \in DOMAIN repo : repo[c].past \subseteq Nat /\ repo[c].tree \in Trees
<1> SUFFICES ASSUME NEW c \in DOMAIN repo PROVE repo[c] \in Commits
  BY DEF Commits
<1> QED
  BY TypeSplit, ElementOfSeq

LEMMA SealToolFrozen == ASSUME TypeInv, FrozenInv, SealTool, way' = way PROVE FrozenInv'
<1> USE DEF SealerAt, SealerGoes
<1>1. work \in Trees /\ sealer \in SealerTypes /\ SetSoFar
  BY TypeSplit DEF TypeInv
<1>2. UNCHANGED <<repo, head>> /\ EditsDuringRun' = EditsDuringRun
  BY SealToolFrame, WayStays
<1>f. ASSUME NEW m, FrozenBy(m) PROVE FrozenBy(m)'
  BY <1>f, <1>2 DEF FrozenBy, Checked
<1> DEFINE Audited(i) == EditsDuringRun \/ Science[i].audit
<1>s. SUFFICES /\ work'.manifest # None => FrozenBy(work'.manifest)
               /\ sealer'.pc = "extend" => FrozenBy(sealer'.manifest)
               /\ sealer'.pc \in {"accept", "hash"} => Audited(work'.inputs)
               /\ sealer'.pc = "hash" => Checked(work'.inputs)
               /\ \A m \in sealed' : FrozenBy(m)
  BY <1>2, <1>f DEF FrozenInv, Checked
<1>3. CASE /\ work'.manifest \in {None, work.manifest} /\ sealed' = sealed
           /\ sealer'.pc \notin {"accept", "hash", "extend"}
  BY <1>3 DEF FrozenInv
<1>4. CASE SealFails
  BY <1>4, <1>1, <1>3 DEF SealFails, Trees, IdleSealer
<1>5. CASE StartSeal
  BY <1>5, <1>3 DEF StartSeal, IdleSealer
<1>6. CASE RequireCleanHead \/ SealAudit \/ SealGate \/ SealProbe
  BY <1>6, <1>1, <1>3, <1>4 DEF RequireCleanHead, SealAudit, SealGate, SealProbe, SealerTypes
<1>11. CASE (ReAudit \/ RequireAccepted) /\ ~SealFails
  <2>1. /\ work' = work /\ sealed' = sealed
        /\ \/ sealer'.pc = "accept" /\ Science[work.inputs].audit
           \/ sealer'.pc = "hash" /\ sealer.pc = "accept" /\ Science[work.inputs].accepted
    BY <1>11, <1>1 DEF ReAudit, RequireAccepted, SealerTypes
  <2> QED
    BY <2>1 DEF FrozenInv, Checked
<1>7. CASE BuildManifest /\ ~SealFails
  <2>1. /\ work' = [work EXCEPT !.manifest = NewManifest] /\ sealed' = sealed
        /\ sealer' = [sealer EXCEPT !.pc = "extend", !.manifest = NewManifest]
        /\ sealer.pc = "hash"
        /\ work.inputs = repo[sealer.freeze].tree.inputs
        /\ sealer.freeze \in DOMAIN repo
    BY <1>7, <1>1 DEF BuildManifest, SetSoFar
  <2>2. /\ work'.manifest = NewManifest /\ sealer'.manifest = NewManifest
        /\ sealer'.pc = "extend"
    BY <2>1, <1>1 DEF Trees, SealerTypes
  <2>3. FrozenBy(NewManifest)
    BY <2>1 DEF FrozenBy, FrozenInv, NewManifest
  <2> QED
    BY <2>1, <2>2, <2>3 DEF FrozenInv
<1>8. CASE ExtendManifest
  <2> DEFINE m == [sealer.manifest EXCEPT !.allowed = {"manifest", "seal"}]
  <2>1. /\ sealer.pc = "extend" /\ work' = [work EXCEPT !.manifest = m] /\ sealed' = sealed
        /\ sealer' = [sealer EXCEPT !.pc = "gate"]
    BY <1>8 DEF ExtendManifest
  <2>2. m.freeze = sealer.manifest.freeze /\ m.inputs = sealer.manifest.inputs
    BY <2>1, <1>1 DEF SetSoFar, Manifests
  <2>3. FrozenBy(m)
    BY <2>1, <2>2 DEF FrozenBy, FrozenInv
  <2>4. work'.manifest = m /\ sealer'.pc = "gate"
    BY <2>1, <1>1 DEF Trees, SealerTypes
  <2> QED
    BY <2>1, <2>3, <2>4 DEF FrozenInv
<1>9. CASE WriteSeal /\ ~SealFails
  BY <1>9, <1>1 DEF WriteSeal, Trees, FrozenInv, IdleSealer
<1>10. CASE SealStepRaises \/ KillSealer
  BY <1>10, <1>4, <1>3 DEF SealStepRaises, KillSealer, IdleSealer
<1> QED
  BY <1>4, <1>5, <1>6, <1>7, <1>8, <1>9, <1>10, <1>11
     DEF SealTool, ReAudit, RequireAccepted, BuildManifest, WriteSeal

LEMMA AuthorFrozen ==
  ASSUME ~HandEdits, TypeInv, FrozenInv, Author, way' = way PROVE FrozenInv'
<1>1. work \in Trees /\ TypeOK
  BY TypeSplit DEF TypeInv
<1>2. /\ UNCHANGED <<sealer, sealed>> /\ EditsDuringRun' = EditsDuringRun
      /\ EditsDuringRun \/ sealer.pc = "idle"
  BY AuthorFrame, WayStays DEF AuthorMay, Quiet, SealerAt
<1>s. SUFFICES
        /\ \A m : FrozenBy(m) => FrozenBy(m)'
        /\ work'.manifest # None => FrozenBy(work'.manifest)
        /\ \A c \in DOMAIN repo' : repo'[c].tree.manifest # None => FrozenBy(repo'[c].tree.manifest)
  BY <1>2 DEF FrozenInv, Checked
<1>3. CASE EditInputs \/ EditOther \/ RemoveOutputs \/ RecordResult
  <2>1. work'.manifest \in {None, work.manifest} /\ repo' = repo
    BY <1>3, <1>1 DEF EditInputs, EditOther, RemoveOutputs, RecordResult, OnlyTree, Trees
  <2> QED
    BY <2>1, <1>2 DEF FrozenInv, FrozenBy, Checked
<1>4. CASE \E past : Commit(past)
  <2>1. PICK past : Commit(past)
    BY <1>4
  <2>2. /\ DOMAIN repo' = DOMAIN repo \cup {head'}
        /\ \A c \in DOMAIN repo : repo'[c] = repo[c]
        /\ repo'[head'].tree = work /\ work' = work
    BY <2>1, <1>1, RepoGrows DEF Commit
  <2>3. ASSUME NEW m, FrozenBy(m) PROVE FrozenBy(m)'
    BY <2>2, <2>3, <1>2 DEF FrozenBy, Checked
  <2>4. \A c \in DOMAIN repo' : repo'[c].tree.manifest # None => FrozenBy(repo'[c].tree.manifest)
    BY <2>2 DEF FrozenInv
  <2> QED
    BY <2>2, <2>3, <2>4 DEF FrozenInv
<1>5. CASE GitCheckout
  <2>1. PICK c \in DOMAIN repo : work' = repo[c].tree /\ repo' = repo
    BY <1>5 DEF GitCheckout
  <2> QED
    BY <2>1, <1>2 DEF FrozenInv, FrozenBy, Checked
<1> QED
  BY <1>3, <1>4, <1>5 DEF Author, EditManifest, GitCommit, GitAmend

LEMMA NextFrozen == ASSUME ~HandEdits PROVE TypeInv /\ FrozenInv /\ [Next]_vars => FrozenInv'
<1> SUFFICES ASSUME TypeInv, FrozenInv, [Next]_vars PROVE FrozenInv'
  OBVIOUS
<1>1. CASE PrimaryRunner \/ UNCHANGED vars
  BY <1>1, PrimaryRunnerFrame, NextWay, WayStays DEF vars, FrozenInv, FrozenBy, Checked
<1> QED
  BY <1>1, NextWay, SealToolFrozen, AuthorFrozen DEF Next

\* Unless a manifest is edited by hand, what a completed seal pinned are inputs of its
\* freeze commit, also when the author edits, commits, amends and checks out between
\* any two steps of tools/corpus01_seal.py; they were accepted and audited if the author
\* waits for the tool.
THEOREM SealsAreFrozen == Spec => []SealedInputsAreFrozen
<1> DEFINE Inv == TypeInv /\ (HandEdits \/ FrozenInv)
<1>1. Inv /\ [Next]_vars => Inv'
  BY NextTyped, NextFrozen, NextWay, WayStays
<1>2. Inv => SealedInputsAreFrozen
  BY DEF FrozenInv, FrozenBy, Checked, SealedInputsAreFrozen
<1>3. Init => Inv
  BY TypeInit, FrozenInit
<1> QED
  BY <1>1, <1>2, <1>3, PTL DEF Spec

-----------------------------------------------------------------------------
(* One tool at a time: the author and the other tool wait *)

Sealing    == sealer.pc # "idle"
Running    == primary.pc # "idle"
Gated      == primary.pc \in {"clear", "compile", "verify", "observe", "bundle"}
Recorded(t) == t.seal # None => t.seal.manifest \in sealed

\* What the seal tool knows of the tree at each step.
SealerAlone ==
  /\ sealer.pc \in {"audit", "manifest", "accept", "hash"} => work.seal = None /\ work.manifest = None
  /\ sealer.pc \in {"extend", "gate", "probe", "seal"} =>
       /\ work.seal = None /\ work.manifest # None
       /\ work.manifest.freeze = sealer.freeze
  /\ sealer.pc = "extend" => sealer.manifest.freeze = sealer.freeze
  /\ sealer.pc \in {"gate", "probe", "seal"} => work.manifest.allowed = {"manifest", "seal"}

SealsRecorded ==
  /\ Recorded(work) /\ \A c \in DOMAIN repo : Recorded(repo[c].tree)
  /\ \A m \in sealed : m.allowed = {"manifest", "seal"}

\* What a primary knows of the tree, of git and of its work root at each step.
PrimaryAlone ==
  /\ Running => /\ sealer.pc = "idle"
                /\ work.manifest # None /\ primary.manifest = work.manifest
                /\ FreshCheckout => Clean
  /\ primary.pc \notin {"idle", "seal"} => work.seal # None /\ work.seal.manifest = work.manifest
  /\ Gated => GatePasses(work.manifest)
  /\ primary.pc \in {"verify", "observe", "bundle"} => primary.compiled = work.inputs
  /\ primary.pc = "bundle" => workRoot.observation = Outcome

AloneInv == SealerAlone /\ SealsRecorded /\ PrimaryAlone

LEMMA AloneInit == Init => AloneInv
<1> SUFFICES ASSUME Init PROVE AloneInv
  OBVIOUS
<1>1. work.seal = None /\ DOMAIN repo = {1} /\ repo[1].tree = work
  BY DEF Init
<1> QED
  BY <1>1 DEF Init, IdleSealer, IdlePrimary, AloneInv, SealerAlone, SealsRecorded, PrimaryAlone,
     Recorded, Running, Gated

LEMMA SealToolAlone ==
  ASSUME ~EditsDuringRun, TypeInv, AloneInv, SealTool, way' = way
  PROVE  AloneInv'
<1> USE DEF SealerAt, SealerGoes
<1>1. work \in Trees /\ sealer \in SealerTypes /\ SetSoFar
  BY TypeSplit DEF TypeInv
<1>2. UNCHANGED <<repo, head, primary, workRoot>>
  BY SealToolFrame
<1>3. primary.pc = "idle"
  <2>1. CASE Sealing
    BY <2>1 DEF Sealing, AloneInv, PrimaryAlone, Running
  <2>2. CASE ~Sealing
    BY <2>2 DEF Sealing, SealTool, StartSeal, RequireCleanHead, SealAudit, ReAudit,
       RequireAccepted, BuildManifest, ExtendManifest, SealGate, SealProbe, WriteSeal,
       SealStepRaises, KillSealer, Quiet, PrimaryAt
  <2> QED
    BY <2>1, <2>2
<1>4. PrimaryAlone'
  BY <1>2, <1>3, WayStays DEF PrimaryAlone, Running, Gated
<1>s. SUFFICES SealerAlone' /\ Recorded(work)' /\ sealed \subseteq sealed'
               /\ \A m \in sealed' : m.allowed = {"manifest", "seal"}
  BY <1>2, <1>4 DEF AloneInv, SealsRecorded, Recorded
<1>5. /\ SealerAlone /\ Recorded(work)
      /\ \A m \in sealed : m.allowed = {"manifest", "seal"}
  BY DEF AloneInv, SealsRecorded
<1>6. CASE SealFails
  <2>1. work'.seal = None /\ sealer'.pc = "idle" /\ sealed' = sealed
    BY <1>6, <1>1 DEF SealFails, Trees, IdleSealer
  <2> QED
    BY <2>1, <1>5 DEF SealerAlone, Recorded
<1>7. CASE StartSeal
  <2>1. work' = work /\ sealer'.pc = "clean" /\ sealed' = sealed
    BY <1>7 DEF StartSeal, IdleSealer
  <2> QED
    BY <2>1, <1>5 DEF SealerAlone, Recorded
<1>8. CASE RequireCleanHead /\ ~SealFails
  <2>1. /\ work' = work /\ sealer'.pc = "audit" /\ sealed' = sealed
        /\ work.manifest = None /\ work.seal = None
    BY <1>8, <1>1 DEF RequireCleanHead, SealerTypes
  <2> QED
    BY <2>1, <1>5 DEF SealerAlone, Recorded
<1>9. CASE (SealAudit \/ ReAudit \/ RequireAccepted \/ SealGate \/ SealProbe) /\ ~SealFails
  <2>1. /\ work' = work /\ sealed' = sealed /\ sealer'.freeze = sealer.freeze
        /\ \/ /\ sealer.pc \in {"audit", "manifest", "accept"}
              /\ sealer'.pc \in {"manifest", "accept", "hash"}
           \/ sealer.pc = "gate" /\ sealer'.pc = "probe"
           \/ sealer.pc = "probe" /\ sealer'.pc = "seal"
    BY <1>9, <1>1 DEF SealAudit, ReAudit, RequireAccepted, SealGate, SealProbe, SealerTypes
  <2> QED
    BY <2>1, <1>5 DEF SealerAlone, Recorded
<1>10. CASE BuildManifest /\ ~SealFails
  <2>1. /\ work' = [work EXCEPT !.manifest = NewManifest] /\ sealed' = sealed
        /\ sealer' = [sealer EXCEPT !.pc = "extend", !.manifest = NewManifest]
        /\ sealer.pc = "hash"
    BY <1>10 DEF BuildManifest
  <2>2. /\ work'.manifest = NewManifest /\ sealer'.manifest = NewManifest
        /\ work'.seal = work.seal /\ sealer'.pc = "extend" /\ sealer'.freeze = sealer.freeze
    BY <2>1, <1>1 DEF Trees, SealerTypes
  <2>3. NewManifest.freeze = sealer.freeze /\ NewManifest # None
    <3>1. NewManifest \in Manifests
      BY <2>1, <1>1, TypeSplit DEF TypeInv, NewManifest, Manifests, SetSoFar, Trees, Files
    <3> QED
      BY <3>1, UnitConstants DEF NewManifest
  <2> QED
    BY <2>1, <2>2, <2>3, <1>5 DEF SealerAlone, Recorded
<1>11. CASE ExtendManifest
  <2> DEFINE m == [sealer.manifest EXCEPT !.allowed = {"manifest", "seal"}]
  <2>1. /\ sealer.pc = "extend" /\ work' = [work EXCEPT !.manifest = m] /\ sealed' = sealed
        /\ sealer' = [sealer EXCEPT !.pc = "gate"]
    BY <1>11 DEF ExtendManifest
  <2>2. /\ m \in Manifests /\ m.freeze = sealer.manifest.freeze
        /\ m.allowed = {"manifest", "seal"}
    BY <2>1, <1>1 DEF SetSoFar, Manifests, Files
  <2>3. m # None
    BY <2>2, UnitConstants
  <2>4. /\ work'.manifest = m /\ work'.seal = work.seal
        /\ sealer'.pc = "gate" /\ sealer'.freeze = sealer.freeze
    BY <2>1, <1>1 DEF Trees, SealerTypes
  <2> QED
    BY <2>1, <2>2, <2>3, <2>4, <1>5 DEF SealerAlone, Recorded
<1>12. CASE WriteSeal /\ ~SealFails
  <2>1. /\ work' = [work EXCEPT !.seal = [freeze |-> sealer.freeze, manifest |-> work.manifest]]
        /\ sealed' = sealed \cup {work.manifest} /\ sealer' = IdleSealer /\ sealer.pc = "seal"
    BY <1>12 DEF WriteSeal
  <2>2. work'.seal.manifest = work.manifest /\ sealer'.pc = "idle"
    BY <2>1, <1>1 DEF Trees, IdleSealer
  <2> QED
    BY <2>1, <2>2, <1>5 DEF SealerAlone, Recorded
<1>13. CASE KillSealer
  <2>1. work' = work /\ sealer'.pc = "idle" /\ sealed' = sealed
    BY <1>13 DEF KillSealer, IdleSealer
  <2> QED
    BY <2>1, <1>5 DEF SealerAlone, Recorded
<1> QED
  BY <1>6, <1>7, <1>8, <1>9, <1>10, <1>11, <1>12, <1>13
     DEF SealTool, RequireCleanHead, SealAudit, ReAudit, RequireAccepted, SealGate, SealProbe,
         BuildManifest, WriteSeal, SealStepRaises

LEMMA PrimaryRunnerAlone ==
  ASSUME ~EditsDuringRun, TypeInv, AloneInv, PrimaryRunner, way' = way
  PROVE  AloneInv'
<1> USE DEF PrimaryAt, PrimaryGoes
<1>1. /\ work \in Trees /\ primary \in PrimaryTypes /\ workRoot \in RootTypes
      /\ SealerAlone /\ SealsRecorded /\ PrimaryAlone
  BY TypeSplit DEF TypeInv, AloneInv
<1>2. UNCHANGED <<repo, head, work, sealer, sealed>>
  BY PrimaryRunnerFrame
<1>3. SealerAlone' /\ SealsRecorded'
  BY <1>1, <1>2 DEF SealerAlone, SealsRecorded, Recorded
<1>4. (Clean' <=> Clean) /\ FreshCheckout' = FreshCheckout
  BY <1>2, WayStays DEF Clean, Committed
<1>5. ASSUME GatePasses(work.manifest) PROVE GatePasses(work.manifest)'
  BY <1>5, <1>2 DEF GatePasses, Committed, Changed
<1>s. SUFFICES PrimaryAlone'
  BY <1>3 DEF AloneInv
<1>6. CASE primary'.pc = "idle"
  BY <1>6 DEF PrimaryAlone, Running, Gated
<1>7. CASE PrimaryFails \/ KillPrimary \/ WriteResult
  BY <1>7, <1>6 DEF PrimaryFails, KillPrimary, WriteResult, IdlePrimary
<1>8. CASE StartPrimary
  <2>1. /\ primary'.pc = "seal" /\ primary'.manifest = work.manifest /\ work.manifest # None
        /\ FreshCheckout => Clean
        /\ sealer.pc = "idle"
    BY <1>8 DEF StartPrimary, IdlePrimary, Quiet, SealerAt
  <2> QED
    BY <2>1, <1>2, <1>4 DEF PrimaryAlone, Running, Gated
<1>9. CASE VerifySeal /\ ~PrimaryFails
  <2>1. /\ primary.pc = "seal" /\ primary'.pc = "audit" /\ primary'.manifest = primary.manifest
        /\ work.seal # None /\ work.seal.manifest = work.manifest
    BY <1>9, <1>1 DEF VerifySeal, PrimaryTypes
  <2> QED
    BY <2>1, <1>1, <1>2, <1>4 DEF PrimaryAlone, Running, Gated
<1>10. CASE (PrimaryAudit \/ CorpusValidate) /\ ~PrimaryFails
  <2>1. /\ primary.pc \in {"audit", "corpus"} /\ primary'.pc \in {"corpus", "gate"}
        /\ primary'.manifest = primary.manifest
    BY <1>10, <1>1 DEF PrimaryAudit, CorpusValidate, PrimaryTypes
  <2> QED
    BY <2>1, <1>1, <1>2, <1>4 DEF PrimaryAlone, Running, Gated
<1>11. CASE PrimaryGate /\ ~PrimaryFails
  <2>1. /\ primary.pc = "gate" /\ primary'.pc = "clear" /\ primary'.manifest = primary.manifest
        /\ GatePasses(work.manifest)
    BY <1>11, <1>1 DEF PrimaryGate, PrimaryTypes
  <2> QED
    BY <2>1, <1>1, <1>2, <1>4, <1>5 DEF PrimaryAlone, Running, Gated
<1>12. CASE RemoveFromWorkRoot \/ ClearWorkRoot
  <2>1. /\ primary.pc = "clear" /\ primary'.pc \in {"clear", "compile"}
        /\ primary'.manifest = primary.manifest
    BY <1>12, <1>1 DEF RemoveFromWorkRoot, ClearWorkRoot, PrimaryTypes
  <2> QED
    BY <2>1, <1>1, <1>2, <1>4, <1>5 DEF PrimaryAlone, Running, Gated
<1>13. CASE Compile /\ ~PrimaryFails
  <2>1. /\ primary.pc = "compile" /\ primary'.pc = "verify"
        /\ primary'.manifest = primary.manifest /\ primary'.compiled = work.inputs
    BY <1>13, <1>1 DEF Compile, PrimaryTypes
  <2> QED
    BY <2>1, <1>1, <1>2, <1>4, <1>5 DEF PrimaryAlone, Running, Gated
<1>14. CASE Verify /\ ~PrimaryFails
  <2>1. /\ primary.pc = "verify" /\ primary'.pc = "observe"
        /\ primary'.manifest = primary.manifest /\ primary'.compiled = primary.compiled
    BY <1>14, <1>1 DEF Verify, PrimaryTypes
  <2> QED
    BY <2>1, <1>1, <1>2, <1>4, <1>5 DEF PrimaryAlone, Running, Gated
<1>15. CASE WriteObservation
  <2>1. /\ primary.pc = "observe" /\ primary' = [primary EXCEPT !.pc = "bundle"]
        /\ workRoot' = [workRoot EXCEPT !.observation = Outcome]
    BY <1>15 DEF WriteObservation
  <2>2. /\ primary'.pc = "bundle" /\ primary'.manifest = primary.manifest
        /\ primary'.compiled = primary.compiled /\ primary'.exit = primary.exit
        /\ workRoot'.observation = Outcome
    BY <2>1, <1>1, Shapes DEF PrimaryTypes, RootTypes
  <2>3. Outcome' = Outcome
    BY <2>2 DEF Outcome
  <2> QED
    BY <2>1, <2>2, <2>3, <1>1, <1>2, <1>4, <1>5 DEF PrimaryAlone, Running, Gated
<1>16. CASE BuildBundle
  <2>1. primary.pc = "bundle" /\ primary'.pc = "result" /\ primary'.manifest = primary.manifest
    BY <1>16, <1>1 DEF BuildBundle, PrimaryTypes
  <2> QED
    BY <2>1, <1>1, <1>2, <1>4 DEF PrimaryAlone, Running, Gated
<1> QED
  BY <1>7, <1>8, <1>9, <1>10, <1>11, <1>12, <1>13, <1>14, <1>15, <1>16
     DEF PrimaryRunner, VerifySeal, PrimaryAudit, CorpusValidate, PrimaryGate, Compile, Verify

LEMMA AuthorAlone ==
  ASSUME ~EditsDuringRun, TypeInv, AloneInv, Author, way' = way
  PROVE  AloneInv'
<1>1. work \in Trees /\ TypeOK /\ SealsRecorded
  BY TypeSplit DEF TypeInv, AloneInv
<1>2. UNCHANGED <<sealer, primary, workRoot, sealed>> /\ sealer.pc = "idle" /\ primary.pc = "idle"
  BY AuthorFrame DEF AuthorMay, Quiet, SealerAt, PrimaryAt
<1>3. SealerAlone' /\ PrimaryAlone'
  BY <1>2, WayStays DEF SealerAlone, PrimaryAlone, Running, Gated
<1>s. SUFFICES SealsRecorded'
  BY <1>3 DEF AloneInv
<1>4. CASE EditInputs \/ EditOther \/ RemoveOutputs \/ EditManifest \/ RecordResult
  <2>1. repo' = repo /\ work'.seal \in {None, work.seal}
    BY <1>4, <1>1 DEF EditInputs, EditOther, RemoveOutputs, EditManifest, RecordResult, OnlyTree, Trees
  <2> QED
    BY <2>1, <1>1, <1>2 DEF SealsRecorded, Recorded
<1>5. CASE \E past : Commit(past)
  <2>1. PICK past : Commit(past)
    BY <1>5
  <2>2. /\ DOMAIN repo' = DOMAIN repo \cup {head'}
        /\ \A c \in DOMAIN repo : repo'[c] = repo[c]
        /\ repo'[head'].tree = work /\ work' = work
    BY <2>1, <1>1, RepoGrows DEF Commit
  <2> QED
    BY <2>2, <1>1, <1>2 DEF SealsRecorded, Recorded
<1>6. CASE GitCheckout
  <2>1. PICK c \in DOMAIN repo : work' = repo[c].tree /\ repo' = repo
    BY <1>6 DEF GitCheckout
  <2> QED
    BY <2>1, <1>1, <1>2 DEF SealsRecorded, Recorded
<1> QED
  BY <1>4, <1>5, <1>6 DEF Author, GitCommit, GitAmend

LEMMA NextAlone ==
  ASSUME ~EditsDuringRun
  PROVE  TypeInv /\ AloneInv /\ [Next]_vars => AloneInv'
<1>1. ASSUME AloneInv, UNCHANGED vars PROVE AloneInv'
  <2>1. SealerAlone' /\ SealsRecorded'
    BY <1>1 DEF vars, AloneInv, SealerAlone, SealsRecorded, Recorded
  <2>2. PrimaryAlone'
    BY <1>1, WayStays DEF vars, AloneInv, PrimaryAlone, Running, Gated, Clean, Committed, GatePasses,
       Changed, Outcome
  <2> QED
    BY <2>1, <2>2 DEF AloneInv
<1> QED
  BY <1>1, SealToolAlone, PrimaryRunnerAlone, AuthorAlone DEF Next

AloneWhenQuiet == TypeInv /\ (EditsDuringRun \/ AloneInv)

LEMMA QuietInit == Init => AloneWhenQuiet
BY TypeInit, AloneInit DEF AloneWhenQuiet

LEMMA QuietStep == AloneWhenQuiet /\ [Next]_vars => AloneWhenQuiet'
BY NextTyped, NextAlone, NextWay, WayStays DEF AloneWhenQuiet

\* While a tool runs nobody else acts: then a primary observes inputs of the
\* freeze commit under a manifest that a completed seal pinned, with nothing else
\* of the tracked tree changed, even when manifests were edited by hand before.
THEOREM PrimariesRunOnSealedInputs == Spec => []PrimaryRanOnSealedInputs
<1>1. AloneWhenQuiet /\ [Next]_vars => AloneWhenQuiet'
  BY QuietStep
<1>2. AloneWhenQuiet => PrimaryRanOnSealedInputs
  <2> SUFFICES ASSUME TypeInv, AloneInv, primary.pc = "bundle"
               PROVE  LET m == workRoot.observation.manifest IN
                        /\ m \in sealed
                        /\ workRoot.observation.inputs = repo[m.freeze].tree.inputs
                        /\ m.freeze \in repo[head].past
                        /\ Changed(m.freeze, head) \subseteq {"manifest", "seal"}
    BY DEF PrimaryRanOnSealedInputs, AloneWhenQuiet
  <2> DEFINE m == work.manifest
  <2>1. /\ workRoot.observation.manifest = m /\ workRoot.observation.inputs = work.inputs
        /\ m \in sealed /\ GatePasses(m)
    BY DEF AloneInv, PrimaryAlone, SealsRecorded, Recorded, Running, Gated, Outcome
  <2>2. m.allowed = {"manifest", "seal"}
    BY <2>1 DEF AloneInv, SealsRecorded
  <2> QED
    BY <2>1, <2>2 DEF GatePasses
<1> QED
  BY QuietInit, <1>1, <1>2, PTL DEF Spec

\* In a clean checkout that nobody touches meanwhile, as the workflow makes one, the
\* seal a primary has checked is the committed one and pins the committed manifest.
THEOREM CommittedSealsPinManifests == Spec => []CheckedOutSealPinsManifest
<1>1. AloneWhenQuiet => CheckedOutSealPinsManifest
  BY DEF AloneWhenQuiet, AloneInv, PrimaryAlone, Running, Clean, CheckedOutSealPinsManifest,
         CommittedSealPinsManifest
<1> QED
  BY QuietInit, QuietStep, <1>1, PTL DEF Spec

-----------------------------------------------------------------------------
(* No seal without its manifest *)

Pinned(t) ==
  t.seal # None => t.seal.manifest = t.manifest /\ t.seal.freeze = t.manifest.freeze

PinnedInv == Pinned(work) /\ \A c \in DOMAIN repo : Pinned(repo[c].tree)

LEMMA NextPinned ==
  ASSUME ~EditsDuringRun, ~HandEdits, TypeInv, AloneInv, PinnedInv, [Next]_vars
  PROVE  PinnedInv'
<1> USE DEF SealerAt, SealerGoes
<1>1. work \in Trees /\ TypeOK /\ SealerAlone
  BY TypeSplit DEF TypeInv, AloneInv
<1>2. CASE PrimaryRunner \/ UNCHANGED vars
  BY <1>2, PrimaryRunnerFrame DEF vars, PinnedInv, Pinned
<1>3. CASE SealTool
  <2>1. repo' = repo
    BY <1>3, SealToolFrame
  <2>2. CASE work'.seal = None \/ work' = work
    BY <2>1, <2>2 DEF PinnedInv, Pinned
  <2>3. CASE SealFails
    BY <2>2, <2>3, <1>1 DEF SealFails, Trees
  <2>4. CASE (BuildManifest /\ ~SealFails) \/ ExtendManifest
    <3>1. work.seal = None
      BY <2>4, <1>1 DEF SealerAlone, BuildManifest, ExtendManifest
    <3>2. work'.seal = work.seal
      BY <2>4, <1>1 DEF Trees, BuildManifest, ExtendManifest
    <3> QED
      BY <3>1, <3>2, <2>2
  <2>5. CASE WriteSeal /\ ~SealFails
    <3>1. work' = [work EXCEPT !.seal = [freeze |-> sealer.freeze, manifest |-> work.manifest]]
          /\ sealer.pc = "seal"
      BY <2>5 DEF WriteSeal
    <3>2. /\ work'.seal = [freeze |-> sealer.freeze, manifest |-> work.manifest]
          /\ work'.manifest = work.manifest /\ work.manifest.freeze = sealer.freeze
      BY <3>1, <1>1 DEF Trees, SealerAlone
    <3> QED
      BY <3>2, <2>1 DEF PinnedInv, Pinned
  <2> QED
    BY <1>3, <2>2, <2>3, <2>4, <2>5 DEF SealTool, StartSeal, RequireCleanHead, SealAudit,
       ReAudit, RequireAccepted, BuildManifest, SealGate, SealProbe, WriteSeal, SealStepRaises,
       KillSealer
<1>4. CASE EditInputs \/ EditOther \/ RecordResult
  <2>1. repo' = repo /\ work'.seal = work.seal /\ work'.manifest = work.manifest
    BY <1>4, <1>1 DEF EditInputs, EditOther, RecordResult, OnlyTree, Trees
  <2> QED
    BY <2>1 DEF PinnedInv, Pinned
<1>7. CASE RemoveOutputs
  <2>1. repo' = repo /\ work'.seal = None
    BY <1>7, <1>1 DEF RemoveOutputs, OnlyTree, Trees
  <2> QED
    BY <2>1 DEF PinnedInv, Pinned
<1>5. CASE \E past : Commit(past)
  <2>1. PICK past : Commit(past)
    BY <1>5
  <2>2. /\ DOMAIN repo' = DOMAIN repo \cup {head'}
        /\ \A c \in DOMAIN repo : repo'[c] = repo[c]
        /\ repo'[head'].tree = work /\ work' = work
    BY <2>1, <1>1, RepoGrows DEF Commit
  <2> QED
    BY <2>2 DEF PinnedInv, Pinned
<1>6. CASE GitCheckout
  <2>1. PICK c \in DOMAIN repo : work' = repo[c].tree /\ repo' = repo
    BY <1>6 DEF GitCheckout
  <2> QED
    BY <2>1 DEF PinnedInv, Pinned
<1> QED
  BY <1>2, <1>3, <1>4, <1>5, <1>6, <1>7 DEF Next, Author, EditManifest, GitCommit, GitAmend

\* Without hand edits, and one tool at a time, UNIT_SEAL.json never stands without
\* the manifest it pins, in the working tree and in every commit, however often
\* tools/corpus01_seal.py fails, is killed or is started over.
THEOREM SealsPinTheirManifests == Spec => []SealPinsItsManifest
<1> DEFINE Inv == AloneWhenQuiet /\ (EditsDuringRun \/ HandEdits \/ PinnedInv)
<1>1. Inv /\ [Next]_vars => Inv'
  <2> SUFFICES ASSUME Inv, [Next]_vars PROVE Inv'
    OBVIOUS
  <2>1. AloneWhenQuiet'
    BY QuietStep
  <2>2. EditsDuringRun' = EditsDuringRun /\ HandEdits' = HandEdits
    BY NextWay, WayStays
  <2>3. CASE ~EditsDuringRun /\ ~HandEdits
    BY <2>1, <2>3, NextPinned DEF AloneWhenQuiet
  <2> QED
    BY <2>1, <2>2, <2>3
<1>2. Init => PinnedInv
  <2>1. Init => work.seal = None /\ DOMAIN repo = {1} /\ repo[1].tree = work
    BY DEF Init
  <2> QED
    BY <2>1 DEF PinnedInv, Pinned
<1>3. Inv => SealPinsItsManifest
  BY DEF PinnedInv, Pinned, SealPinsItsManifest
<1>4. Init => Inv
  BY <1>2, QuietInit
<1> QED
  BY <1>1, <1>3, <1>4, PTL DEF Spec

-----------------------------------------------------------------------------
(* The work root *)

RootInv ==
  /\ primary.pc \in {"compile", "verify", "observe"} => workRoot = EmptyRoot
  /\ primary.pc = "bundle" => workRoot = [EmptyRoot EXCEPT !.observation = Outcome]
  /\ primary.pc = "result" =>
       workRoot = [EmptyRoot EXCEPT !.observation = Outcome, !.bundle = Outcome]
  /\ WorkRootOfOneExecution

LEMMA NextRoot == ASSUME TypeInv, RootInv, [Next]_vars PROVE RootInv'
<1> USE DEF PrimaryAt, PrimaryGoes
<1>1. primary \in PrimaryTypes /\ workRoot \in RootTypes /\ WorkRootOfOneExecution
  BY TypeSplit DEF TypeInv, RootInv
<1>2. CASE SealTool \/ Author \/ UNCHANGED vars
  BY <1>2, SealToolFrame, AuthorFrame DEF vars, RootInv, WorkRootOfOneExecution, Outcome
<1>3. CASE /\ workRoot' = workRoot
           /\ primary'.pc \notin {"compile", "verify", "observe", "bundle", "result"}
  BY <1>3 DEF RootInv, WorkRootOfOneExecution
<1>4. CASE PrimaryFails \/ KillPrimary
  BY <1>4, <1>3 DEF PrimaryFails, KillPrimary, IdlePrimary
<1>5. CASE StartPrimary
  BY <1>5, <1>3 DEF StartPrimary, IdlePrimary
<1>6. CASE (VerifySeal \/ PrimaryAudit \/ CorpusValidate \/ PrimaryGate) /\ ~PrimaryFails
  BY <1>6, <1>3, <1>1 DEF VerifySeal, PrimaryAudit, CorpusValidate, PrimaryGate, PrimaryTypes
<1>7. CASE RemoveFromWorkRoot
  <2>1. PICK f \in RootFiles : workRoot' = [workRoot EXCEPT ![f] = None]
    BY <1>7 DEF RemoveFromWorkRoot
  <2>2. \A g \in RootFiles : workRoot'[g] \in {None, workRoot[g]}
    BY <2>1, <1>1 DEF RootTypes
  <2>3. WorkRootOfOneExecution'
    BY <2>2, <1>1 DEF WorkRootOfOneExecution
  <2>4. primary'.pc = "clear"
    BY <1>7 DEF RemoveFromWorkRoot
  <2> QED
    BY <2>3, <2>4 DEF RootInv
<1>12. CASE ClearWorkRoot
  <2>1. workRoot = EmptyRoot /\ workRoot' = workRoot /\ primary'.pc = "compile"
    BY <1>12, <1>1 DEF ClearWorkRoot, PrimaryTypes
  <2> QED
    BY <2>1, <1>1 DEF RootInv, WorkRootOfOneExecution
<1>8. CASE (Compile \/ Verify) /\ ~PrimaryFails
  <2>1. /\ workRoot' = workRoot /\ primary.pc \in {"compile", "verify"}
        /\ primary'.pc \in {"verify", "observe"}
    BY <1>8, <1>1 DEF Compile, Verify, PrimaryTypes
  <2> QED
    BY <2>1, <1>1 DEF RootInv, WorkRootOfOneExecution
<1>9. CASE WriteObservation
  <2>1. /\ primary.pc = "observe" /\ primary' = [primary EXCEPT !.pc = "bundle"]
        /\ workRoot' = [workRoot EXCEPT !.observation = Outcome]
    BY <1>9 DEF WriteObservation
  <2>2. primary'.pc = "bundle" /\ Outcome' = Outcome
    BY <2>1, <1>1 DEF Outcome, PrimaryTypes
  <2>3. workRoot' = [EmptyRoot EXCEPT !.observation = Outcome]
    BY <2>1 DEF RootInv
  <2> QED
    BY <2>2, <2>3 DEF RootInv, WorkRootOfOneExecution, EmptyRoot, RootFiles
<1>10. CASE BuildBundle
  <2>1. /\ primary.pc = "bundle" /\ primary' = [primary EXCEPT !.pc = "result"]
        /\ workRoot' = [workRoot EXCEPT !.bundle = workRoot.observation]
    BY <1>10 DEF BuildBundle
  <2>2. primary'.pc = "result" /\ Outcome' = Outcome
    BY <2>1, <1>1 DEF Outcome, PrimaryTypes
  <2>3. workRoot' = [EmptyRoot EXCEPT !.observation = Outcome, !.bundle = Outcome]
    BY <2>1 DEF RootInv, EmptyRoot, RootFiles
  <2> QED
    BY <2>2, <2>3 DEF RootInv, WorkRootOfOneExecution, EmptyRoot, RootFiles
<1>11. CASE WriteResult
  <2>1. /\ primary.pc = "result" /\ primary' = IdlePrimary
        /\ workRoot' = [workRoot EXCEPT !.result = Outcome]
    BY <1>11 DEF WriteResult
  <2>2. /\ workRoot'.result = Outcome /\ workRoot'.bundle = Outcome
        /\ workRoot'.observation = Outcome
    BY <2>1 DEF RootInv, EmptyRoot, RootFiles
  <2>3. primary'.pc = "idle"
    BY <2>1 DEF IdlePrimary
  <2> QED
    BY <2>2, <2>3 DEF RootInv, WorkRootOfOneExecution, RootFiles
<1> QED
  BY <1>2, <1>4, <1>5, <1>6, <1>7, <1>8, <1>9, <1>10, <1>11, <1>12
     DEF Next, PrimaryRunner, VerifySeal, PrimaryAudit, CorpusValidate, PrimaryGate, Compile, Verify

\* Observation, bundle and HARNESS_RESULT.json in a work root, as many as there are, are
\* those of one execution, whatever killed or failed executions left there, in the
\* middle of shutil.rmtree included (tools/corpus01_primary_v08.py:167).
THEOREM WorkRootsAreOfOneExecution == Spec => []WorkRootOfOneExecution
<1>1. TypeInv /\ RootInv /\ [Next]_vars => (TypeInv /\ RootInv)'
  BY NextTyped, NextRoot
<1>2. Init => RootInv
  BY DEF Init, RootInv, IdlePrimary, EmptyRoot, WorkRootOfOneExecution, RootFiles
<1>3. RootInv => WorkRootOfOneExecution
  BY DEF RootInv
<1> QED
  BY TypeInit, <1>1, <1>2, <1>3, PTL DEF Spec
=============================================================================
