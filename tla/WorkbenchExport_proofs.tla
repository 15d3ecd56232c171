------------------------ MODULE WorkbenchExport_proofs ------------------------
(***************************************************************************)
(* Proofs about the exporter next to any number of verification runs with  *)
(* private output directories:                                             *)
(*   - ExportTypeInv: type correctness, with what the exporter has parsed  *)
(*     and loaded at each step;                                            *)
(*   - EmbeddedInv: a report or manifest that is embedded was backed when  *)
(*     it was read, which with validate_run_bundle is all a comparison     *)
(*     needs;                                                              *)
(*   - QuietInv: what `run` knows of a directory nobody writes to.         *)
(* The bounds of the model (MaxExports, NobodyKilled) are not used.        *)
(***************************************************************************)
EXTENDS WorkbenchExport, VerifyRun_proofs

Readings  == {"parse_report", "parse_cert", "parse_manifest", "hash_report", "hash_cert",
              "hash_markdown", "hash_logs", "embed"}
HasReport == Readings \ {"parse_report"}
HasManifest == HasReport \ {"parse_cert", "parse_manifest"}

\* How many inputs are loaded when the exporter stands at a step.
LoadedAt(goal, pc) ==
  IF pc = "idle" THEN {0}
  ELSE IF pc \in Readings \cup {"open"} THEN IF goal = "run" THEN {0} ELSE {0, 1}
  ELSE IF pc = "loaded" THEN IF goal = "run" THEN {1} ELSE {1, 2}
  ELSE IF goal = "run" THEN {1} ELSE {2}

ExporterStates ==
  [pc : Readings \cup {"idle", "open", "loaded", "write"}, goal : {"run", "compare"},
   dir : Dirs \cup {None}, report : Summaries \cup {None}, manifest : Manifests \cup {None},
   bytes : Summaries \cup {None, Torn}, todo : 1..6, emb : Directories, loaded : Seq(Bundles)]

ExportTypeOK ==
  /\ exporter \in ExporterStates
  /\ exports \in Nat
  /\ bundleFile \in Bundles \cup {None, Torn}
  /\ comparisonFile \in Comparisons \cup {None, Torn}

ExportTypeInv ==
  /\ ExportTypeOK
  /\ exporter.pc \in Readings => exporter.dir \in Dirs
  /\ exporter.pc \in HasReport => exporter.report \in Summaries
  /\ exporter.pc \in HasManifest => exporter.manifest \in Manifests
  /\ Len(exporter.loaded) \in LoadedAt(exporter.goal, exporter.pc)

\* The report and the manifest among the files o were each written by a run whose
\* certificate the consumer accepted.
FilesBacked(o) == ReportBacked(o, accepted) /\ ManifestBacked(o, accepted)
Origin(b) == b \in EarlierBundles \/ FilesBacked(b.emb)

\* What is embedded was backed when it was read, whatever was read before and after.
EmbeddedInv ==
  /\ FilesBacked(exporter.emb)
  /\ \A i \in 1..Len(exporter.loaded) : Origin(exporter.loaded[i])
  /\ bundleFile \in Bundles => Origin(bundleFile)
  /\ ComparisonsAgree

\* A file once written stays, whole or torn.
FilesStay ==
  \A d \in Dirs : out[d].manifest \in Manifests => out[d].markdown # None /\ out[d].logs # None

\* The artifacts of a run bundle are those of one run.
OneRun(b, acc) ==
  /\ Agree(b)
  /\ b.emb.cert \in acc
  /\ b.emb.markdown = b.emb.report
  /\ b.emb.logs = b.emb.cert

\* What `run` with record e knows of its directory o at each step, nobody
\* writing to it.
QuietRun(e, o, acc) ==
  /\ e.pc \in HasReport => e.report = o.report
  /\ e.pc \in HasManifest => e.manifest = o.manifest
  /\ e.pc = "hash_cert" => e.bytes = e.report
  /\ e.pc \in {"hash_markdown", "hash_logs", "embed"} =>
       /\ e.manifest.report = e.report /\ e.manifest.id = e.report.id
       /\ o.cert = e.manifest.cert /\ o.cert = e.report.sha
  /\ e.pc \in {"hash_logs", "embed"} => o.markdown = e.manifest.markdown
  /\ e.pc # "embed" => e.todo = 1
  /\ e.pc = "embed" =>
       /\ o.logs = e.manifest.logs
       /\ \A i \in 1..(e.todo - 1) : e.emb[EmbedOrder[i]] = o[EmbedOrder[i]]
  /\ e.pc \in {"loaded", "write"} => OneRun(e.loaded[1], acc)

QuietInv ==
  /\ exporter.goal = "run" => QuietRun(exporter, out[exporter.dir], accepted)
  /\ RunBundlesAgree
-----------------------------------------------------------------------------
(* Type correctness *)

LEMMA FilesOf ==
  ASSUME TypeOK, NEW d \in Dirs
  PROVE  /\ out[d] \in Directories
         /\ \A f \in OutFiles : out[d][f] \in Assurances \cup Summaries \cup Manifests \cup {None, Torn}
<1>1. out[d] \in Directories
  BY DEF TypeOK
<1> QED
  BY <1>1 DEF Directories, OutFiles

LEMMA MetadataTyped ==
  ASSUME NEW s \in Summaries
  PROVE  Metadata(s) \in [id : Ids, status : Statuses, source : Contracts]
<1>1. s.id \in Ids /\ s.commit.status \in Statuses /\ s.commit.assurance \in Assurances
  BY DEF Summaries, Commits
<1>2. Core[s.commit.assurance].contract \in Contracts
  BY <1>1, ConstantsTyped DEF CoreFacts
<1> QED
  BY <1>1, <1>2 DEF Metadata, SourceDigest

\* A refused export, and one that rests, has nothing in its hands.
LEMMA RestingTyped ==
  /\ Resting \in ExporterStates /\ Resting.pc = "idle" /\ Resting.loaded = <<>>
  /\ Resting.emb = EmptyDirectory /\ EmptyDirectory \in Directories
<1>1. EmptyDirectory \in Directories
  BY DEF EmptyDirectory, Directories, OutFiles
<1>2. <<>> \in Seq(Bundles)
  OBVIOUS
<1> QED
  BY <1>1, <1>2 DEF Resting, ExporterStates

LEMMA RestingInv ==
  ASSUME ExportTypeOK, exporter' = Resting, UNCHANGED exports,
         bundleFile' \in Bundles \cup {None, Torn}, comparisonFile' \in Comparisons \cup {None, Torn}
  PROVE  ExportTypeInv'
<1>1. exporter' \in ExporterStates /\ exporter'.pc = "idle" /\ Len(exporter'.loaded) = 0
  BY RestingTyped
<1> QED
  BY <1>1 DEF ExportTypeInv, ExportTypeOK, LoadedAt, Readings, HasReport, HasManifest

\* A step that goes on with the record e.
LEMMA ContinueInv ==
  ASSUME ExportTypeOK, NEW e \in ExporterStates, Continue(e),
         e.pc \in Readings => e.dir \in Dirs,
         e.pc \in HasReport => e.report \in Summaries,
         e.pc \in HasManifest => e.manifest \in Manifests,
         Len(e.loaded) \in LoadedAt(e.goal, e.pc)
  PROVE  ExportTypeInv'
BY DEF ExportTypeInv, ExportTypeOK, Continue

LEMMA ExportTypeInit == ExportInit => ExportTypeInv
<1> SUFFICES ASSUME ExportInit PROVE ExportTypeInv
  OBVIOUS
<1>1. exporter \in ExporterStates /\ exporter.pc = "idle" /\ Len(exporter.loaded) = 0
  BY RestingTyped DEF ExportInit
<1> QED
  BY <1>1 DEF ExportInit, ExportTypeInv, ExportTypeOK, LoadedAt, Readings, HasReport, HasManifest

LEMMA ExporterStepTyped ==
  ASSUME TypeOK, ExportTypeInv, ExporterStep
  PROVE  ExportTypeInv'
<1> DEFINE e == exporter
<1> USE DEF ExporterAt
<1>a. ExportTypeOK /\ e \in ExporterStates
  BY DEF ExportTypeInv, ExportTypeOK
<1>b. /\ e.pc \in Readings => e.dir \in Dirs
      /\ e.pc \in HasReport => e.report \in Summaries
      /\ e.pc \in HasManifest => e.manifest \in Manifests
      /\ Len(e.loaded) \in LoadedAt(e.goal, e.pc)
  BY DEF ExportTypeInv
<1>c. e.loaded \in Seq(Bundles) /\ e.goal \in {"run", "compare"} /\ e.emb \in Directories
  BY <1>a DEF ExporterStates
<1>d. ASSUME Refuse PROVE ExportTypeInv'
  BY <1>a, <1>d, RestingInv DEF Refuse, ExportTypeOK
<1>1. CASE StartExport
  <2>1. PICK goal \in Goals : exporter' = [Resting EXCEPT !.pc = "open", !.goal = goal]
    BY <1>1 DEF StartExport
  <2> DEFINE n == [Resting EXCEPT !.pc = "open", !.goal = goal]
  <2>2. goal \in {"run", "compare"}
    BY ExportConstants
  <2>3. n \in ExporterStates /\ n.pc = "open" /\ Len(n.loaded) = 0
    BY <2>2, RestingTyped DEF ExporterStates
  <2>4. exports' \in Nat
    BY <1>1, <1>a DEF StartExport, ExportTypeOK
  <2>5. 0 \in LoadedAt(n.goal, "open")
    BY DEF LoadedAt
  <2> HIDE DEF n
  <2>6. exporter' = n
    BY <2>1 DEF n
  <2> QED
    BY <1>1, <1>a, <2>3, <2>4, <2>5, <2>6 DEF StartExport, ExportTypeInv, ExportTypeOK, Readings,
       HasReport, HasManifest
<1>2. CASE LoadBundleFile
  <2>1. PICK b \in (EarlierBundles \cup {bundleFile}) \ {None} :
          IF b \in Bundles /\ ValidBundle(b)
            THEN Continue([exporter EXCEPT !.loaded = Append(@, b), !.pc = "loaded"])
            ELSE Refuse
    BY <1>2 DEF LoadBundleFile
  <2>2. CASE b \in Bundles /\ Continue([exporter EXCEPT !.loaded = Append(@, b), !.pc = "loaded"])
    <3> DEFINE l == Append(exporter.loaded, b)
               n == [exporter EXCEPT !.loaded = l, !.pc = "loaded"]
    <3>2. l \in Seq(Bundles) /\ Len(l) = Len(e.loaded) + 1
      BY <1>c, <2>2
    <3> HIDE DEF l
    <3>1. n \in ExporterStates /\ n.pc = "loaded" /\ n.goal = "compare" /\ n.loaded = l
      BY <1>a, <1>2, <3>2 DEF ExporterStates, LoadBundleFile
    <3>3. Len(e.loaded) \in {0, 1}
      BY <1>2, <1>b DEF LoadBundleFile, LoadedAt, Readings
    <3>7. \A k : k \in {0, 1} => k + 1 \in {1, 2}
      OBVIOUS
    <3>6. Len(l) \in {1, 2}
      BY <3>2, <3>3, <3>7
    <3> HIDE DEF n
    <3>4. Len(n.loaded) \in LoadedAt(n.goal, n.pc)
      BY <3>1, <3>6 DEF LoadedAt, Readings
    <3>5. Continue(n)
      BY <2>2 DEF n, l
    <3> QED
      BY <1>a, <3>1, <3>4, <3>5, ContinueInv DEF Readings, HasReport, HasManifest
  <2> QED
    BY <1>d, <2>1, <2>2
\* A step from one reading to another, or within them.
<1>3. ASSUME NEW n \in ExporterStates, Continue(n), n.pc \in Readings, n.dir \in Dirs,
             n.pc \in HasReport => n.report \in Summaries,
             n.pc \in HasManifest => n.manifest \in Manifests,
             n.goal = e.goal, n.loaded = e.loaded, e.pc \in Readings \cup {"open"}
      PROVE  ExportTypeInv'
  <2>1. Len(n.loaded) \in LoadedAt(n.goal, n.pc)
    BY <1>b, <1>3 DEF LoadedAt, Readings
  <2> QED
    BY <1>a, <1>3, <2>1, ContinueInv
<1>4. CASE \E d \in Dirs : OpenRunDirectory(d)
  <2>1. PICK d \in Dirs : OpenRunDirectory(d)
    BY <1>4
  <2>2. CASE Continue([exporter EXCEPT !.pc = "parse_report", !.dir = d])
    <3> DEFINE n == [exporter EXCEPT !.pc = "parse_report", !.dir = d]
    <3>1. /\ n \in ExporterStates /\ n.pc = "parse_report" /\ n.dir = d
          /\ n.goal = e.goal /\ n.loaded = e.loaded
      BY <1>a DEF ExporterStates, Readings
    <3>2. Continue(n) /\ e.pc = "open"
      BY <2>1, <2>2 DEF OpenRunDirectory
    <3> HIDE DEF n
    <3> QED
      BY <1>3, <3>1, <3>2 DEF Readings, HasReport, HasManifest
  <2> QED
    BY <1>d, <2>1, <2>2 DEF OpenRunDirectory
<1>5. CASE ParseReport
  <2> DEFINE n == [exporter EXCEPT !.report = Here("report"), !.pc = "parse_cert"]
  <2>1. CASE Here("report") \in Summaries /\ Continue(n)
    <3>1. /\ n \in ExporterStates /\ n.pc = "parse_cert" /\ n.dir = e.dir
          /\ n.goal = e.goal /\ n.loaded = e.loaded /\ n.report \in Summaries
      BY <1>a, <2>1 DEF ExporterStates, Readings
    <3>2. Continue(n) /\ e.pc \in Readings /\ e.dir \in Dirs
      BY <1>b, <1>5, <2>1 DEF ParseReport, Readings
    <3> HIDE DEF n
    <3> QED
      BY <1>3, <3>1, <3>2 DEF Readings, HasReport, HasManifest
  <2> QED
    BY <1>d, <1>5, <2>1 DEF ParseReport
<1>6. CASE ParseManifest
  <2> DEFINE n == [exporter EXCEPT !.manifest = Here("manifest"), !.pc = "hash_report"]
  <2>1. CASE Here("manifest") \in Manifests /\ Continue(n)
    <3>1. /\ n \in ExporterStates /\ n.pc = "hash_report" /\ n.dir = e.dir /\ n.report = e.report
          /\ n.goal = e.goal /\ n.loaded = e.loaded /\ n.manifest \in Manifests
      BY <1>a, <2>1 DEF ExporterStates, Readings
    <3>2. Continue(n) /\ e.pc \in HasReport
      BY <1>6, <2>1 DEF ParseManifest, Readings, HasReport
    <3> HIDE DEF n
    <3> QED
      BY <1>b, <1>3, <3>1, <3>2 DEF Readings, HasReport, HasManifest
  <2> QED
    BY <1>d, <1>6, <2>1 DEF ParseManifest
<1>7. CASE ParseCertificate \/ HashCertificate \/ HashMarkdown \/ HashLogs
  <2>1. ASSUME NEW pc, Continue([exporter EXCEPT !.pc = pc]),
               \/ e.pc = "parse_cert" /\ pc = "parse_manifest"
               \/ e.pc \in HasManifest /\ pc \in HasManifest
        PROVE  ExportTypeInv'
    <3> DEFINE n == [exporter EXCEPT !.pc = pc]
    <3>1. /\ n \in ExporterStates /\ n.pc = pc /\ n.dir = e.dir /\ n.report = e.report
          /\ n.goal = e.goal /\ n.loaded = e.loaded /\ n.manifest = e.manifest
      BY <1>a, <2>1 DEF ExporterStates, Readings, HasManifest, HasReport
    <3>2. Continue(n)
      BY <2>1
    <3> HIDE DEF n
    <3> QED
      BY <1>b, <1>3, <2>1, <3>1, <3>2 DEF Readings, HasReport, HasManifest
  <2>2. Refuse \/ \E pc : /\ Continue([exporter EXCEPT !.pc = pc])
                          /\ \/ e.pc = "parse_cert" /\ pc = "parse_manifest"
                             \/ e.pc \in HasManifest /\ pc \in HasManifest
    BY <1>7 DEF ParseCertificate, HashCertificate, HashMarkdown, HashLogs, HasManifest, HasReport,
       Readings
  <2> QED
    BY <1>d, <2>1, <2>2
<1>8. CASE HashReport
  <2> DEFINE n == [exporter EXCEPT !.pc = "hash_cert", !.bytes = Here("report")]
  <2>1. e.pc = "hash_report" /\ Continue(n)
    BY <1>8 DEF HashReport
  <2>2. Here("report") \in Summaries \cup {None, Torn}
    <3>1. out[e.dir] \in Directories
      BY <1>b, <2>1, FilesOf DEF Readings
    <3> QED
      BY <3>1 DEF Here, Directories
  <2>3. /\ n \in ExporterStates /\ n.pc = "hash_cert" /\ n.dir = e.dir /\ n.report = e.report
        /\ n.goal = e.goal /\ n.loaded = e.loaded /\ n.manifest = e.manifest
    BY <1>a, <2>2 DEF ExporterStates, Readings
  <2> HIDE DEF n
  <2> QED
    BY <1>b, <1>3, <2>1, <2>3 DEF Readings, HasReport, HasManifest
<1>9. CASE EmbedArtifact
  <2> DEFINE f == EmbedOrder[e.todo]
             n == [exporter EXCEPT !.emb[f] = Here(f), !.todo = @ + 1]
  <2>1. e.pc = "embed" /\ e.todo \in 1..5 /\ Continue(n)
    <3>1. e.todo \in 1..6 /\ Len(EmbedOrder) = 5
      BY <1>a DEF ExporterStates, EmbedOrder
    <3> QED
      BY <1>9, <3>1 DEF EmbedArtifact
  <2>2. out[e.dir] \in Directories
    BY <1>b, <2>1, FilesOf DEF Readings
  <2>3. f \in OutFiles
    BY <2>1 DEF EmbedOrder, OutFiles
  <2>4. [e.emb EXCEPT ![f] = Here(f)] \in Directories
    BY <1>c, <2>2, <2>3 DEF Directories, Here, OutFiles
  <2>5. e.todo + 1 \in 1..6
    BY <2>1
  <2>6. n = [exporter EXCEPT !.emb = [e.emb EXCEPT ![f] = Here(f)], !.todo = e.todo + 1]
    BY <1>a DEF ExporterStates
  <2> HIDE DEF f, n
  <2>7. /\ n \in ExporterStates /\ n.pc = e.pc /\ n.dir = e.dir /\ n.report = e.report
        /\ n.goal = e.goal /\ n.loaded = e.loaded /\ n.manifest = e.manifest
    BY <1>a, <2>4, <2>5, <2>6 DEF ExporterStates
  <2> QED
    BY <1>b, <1>3, <2>1, <2>7 DEF Readings, HasReport, HasManifest
<1>10. CASE BuildRunBundle
  <2> DEFINE b == [meta |-> Metadata(exporter.report), emb |-> exporter.emb, sealed |-> TRUE]
             l == Append(exporter.loaded, b)
             n == [Resting EXCEPT !.goal = exporter.goal, !.pc = "loaded", !.loaded = l]
  <2>1. e.pc = "embed" /\ Continue(n)
    BY <1>10 DEF BuildRunBundle
  <2>2. e.report \in Summaries
    BY <1>b, <2>1 DEF HasReport, Readings
  <2>3. b \in Bundles
    BY <1>c, <2>2, MetadataTyped DEF Bundles
  <2>4. l \in Seq(Bundles) /\ Len(l) = Len(e.loaded) + 1
    BY <1>c, <2>3
  <2> HIDE DEF b, l
  <2>5. n \in ExporterStates /\ n.pc = "loaded" /\ n.goal = e.goal /\ n.loaded = l
    BY <1>c, <2>4, RestingTyped DEF ExporterStates
  <2> HIDE DEF n
  <2>7. Len(e.loaded) \in IF e.goal = "run" THEN {0} ELSE {0, 1}
    BY <1>b, <2>1 DEF LoadedAt, Readings
  <2>8. Len(l) \in IF e.goal = "run" THEN {1} ELSE {1, 2}
    BY <2>4, <2>7
  <2>6. Len(n.loaded) \in LoadedAt(n.goal, n.pc)
    BY <2>5, <2>8 DEF LoadedAt, Readings
  <2> QED
    BY <1>a, <2>1, <2>5, <2>6, ContinueInv DEF Readings, HasReport, HasManifest
<1>11. CASE NextInput
  <2> DEFINE pc == IF exporter.goal = "compare" /\ Len(exporter.loaded) = 1 THEN "open" ELSE "write"
             n == [exporter EXCEPT !.pc = pc]
  <2>1. e.pc = "loaded" /\ Continue(n)
    BY <1>11 DEF NextInput
  <2>2. n \in ExporterStates /\ n.pc = pc /\ n.goal = e.goal /\ n.loaded = e.loaded
    BY <1>a DEF ExporterStates
  <2>3. Len(e.loaded) \in LoadedAt(e.goal, pc)
    BY <1>b, <1>c, <2>1 DEF LoadedAt, Readings
  <2>4. pc \notin Readings
    BY DEF Readings
  <2> HIDE DEF n, pc
  <2> QED
    BY <1>a, <2>1, <2>2, <2>3, <2>4, ContinueInv DEF HasReport, HasManifest
<1>12. CASE WriteRunBundle
  <2>1. Len(e.loaded) = 1
    BY <1>b, <1>12 DEF WriteRunBundle, LoadedAt, Readings
  <2>2. bundleFile' \in Bundles
    BY <1>c, <1>12, <2>1 DEF WriteRunBundle
  <2> QED
    BY <1>a, <1>12, <2>2, RestingInv DEF WriteRunBundle, ExportTypeOK
<1>13. CASE WriteComparison
  <2> DEFINE b == exporter.loaded[1]
             c == exporter.loaded[2]
  <2>1. Len(e.loaded) = 2
    BY <1>b, <1>13 DEF WriteComparison, LoadedAt, Readings
  <2>2. b \in Bundles /\ c \in Bundles
    BY <1>c, <2>1
  <2>3. CASE /\ comparisonFile' = [baseline |-> b, current |-> c,
                  same |-> SourceDigest(b.emb.report) = SourceDigest(c.emb.report)]
             /\ exporter' = Resting /\ UNCHANGED <<exports, bundleFile>>
    <3>1. comparisonFile' \in Comparisons
      BY <2>2, <2>3 DEF Comparisons
    <3> QED
      BY <1>a, <2>3, <3>1, RestingInv DEF ExportTypeOK
  <2> QED
    BY <1>d, <1>13, <2>3 DEF WriteComparison
<1>14. CASE ExporterDies
  <2>1. bundleFile' \in {bundleFile, Torn} /\ comparisonFile' \in {comparisonFile, Torn}
    BY <1>14 DEF ExporterDies
  <2> QED
    BY <1>14, <1>a, <2>1, RestingInv DEF ExporterDies, ExportTypeOK
<1> QED
  BY <1>1, <1>2, <1>4, <1>5, <1>6, <1>7, <1>8, <1>9, <1>10, <1>11, <1>12, <1>13, <1>14
     DEF ExporterStep, ReadDirectory

\* A step of the exporter leaves the pipeline alone; a step of the pipeline
\* leaves the exporter alone.
LEMMA ExportNextIsNext == ExportNext => [Next]_vars
BY DEF ExportNext

LEMMA ExportNextTyped ==
  TypeInv /\ ExportTypeInv /\ [ExportNext]_allVars => ExportTypeInv'
<1> SUFFICES ASSUME TypeInv, ExportTypeInv, [ExportNext]_allVars PROVE ExportTypeInv'
  OBVIOUS
<1>1. CASE ExporterStep
  BY <1>1, ExporterStepTyped DEF TypeInv
<1>2. CASE UNCHANGED exportVars
  BY <1>2 DEF exportVars, ExportTypeInv, ExportTypeOK
<1> QED
  BY <1>1, <1>2 DEF ExportNext, allVars, exportVars

LEMMA ExportKeepsVars == [ExportNext]_allVars => [Next]_vars
BY DEF ExportNext, allVars, vars

\* In every behaviour of the exporter next to any runs, with any earlier bundle
\* files, bundles and comparisons are well-formed, and the exporter has parsed
\* and loaded what its step works on (tools/export_workbench_bundle.py:75-150).
THEOREM ExportTypeCorrect == ExportSpec => [](TypeOK /\ ExportTypeOK)
<1>1. ExportInit => Init
  BY DEF ExportInit
<1>2. ExportSpec => []TypeInv
  BY <1>1, TypeInit, NextTyped, ExportKeepsVars, PTL DEF ExportSpec
<1>3. ExportSpec => []ExportTypeInv
  BY <1>2, ExportTypeInit, ExportNextTyped, PTL DEF ExportSpec
<1>4. TypeInv /\ ExportTypeInv => TypeOK /\ ExportTypeOK
  BY DEF TypeInv, ExportTypeInv
<1> QED
  BY <1>2, <1>3, <1>4, PTL

-----------------------------------------------------------------------------
(* Comparisons: what is embedded was backed when it was read.                *)

LEMMA BackedGrows ==
  ASSUME NEW o, NEW acc, NEW more, acc \subseteq more
  PROVE  /\ ReportBacked(o, acc) => ReportBacked(o, more)
         /\ ManifestBacked(o, acc) => ManifestBacked(o, more)
BY DEF ReportBacked, ManifestBacked

\* No step takes a certificate back.
LEMMA AcceptedGrows == [Next]_vars => accepted \subseteq accepted'
<1> SUFFICES ASSUME [Next]_vars PROVE accepted \subseteq accepted'
  OBVIOUS
<1>1. ASSUME NEW p \in Runs, Invoke(p) \/ Crash(p) PROVE accepted \subseteq accepted'
  BY <1>1 DEF Invoke, Crash
<1>2. ASSUME NEW p \in Runs, Step(p) PROVE accepted \subseteq accepted'
  BY <1>2 DEF Step, Open, VerifyCaseProvenance, VerifyPredeclaration, Produce, Consume, WriteLogs,
     LoadCertificate, DigestCertificate, WriteReport, WriteMarkdown, WriteManifest, VerifyExit,
     ApproveLock, WriteLock, CheckLock
<1> QED
  BY <1>1, <1>2 DEF Next, Checkout, EditLock, vars

\* A bundle of backed files that validate_run_bundle accepts agrees throughout:
\* the comparisons it leaves out follow from how report and manifest were made.
LEMMA ValidBackedAgrees ==
  ASSUME NEW b, NEW acc, ValidBundle(b), ReportBacked(b.emb, acc), ManifestBacked(b.emb, acc)
  PROVE  Agree(b) /\ b.emb.cert \in acc
<1> DEFINE s == b.emb.report
           m == b.emb.manifest
<1>1. /\ s \in Summaries /\ m \in Manifests /\ b.meta = Metadata(s)
      /\ m.report = s /\ m.cert = b.emb.cert
  BY DEF ValidBundle
<1>2. s.commit.status = Classify(s.commit.assurance) /\ s.sha = s.commit.assurance
  BY <1>1 DEF ReportBacked
<1>3. m.report.id = m.id /\ m.report.sha = m.cert /\ m.cert \in acc
  BY <1>1 DEF ManifestBacked
<1>4. s.commit = [assurance |-> s.commit.assurance, status |-> s.commit.status]
  BY <1>1 DEF Summaries, Commits
<1> QED
  BY <1>1, <1>2, <1>3, <1>4 DEF Agree

LEMMA EmptyBacked == FilesBacked(EmptyDirectory)
BY ConstantsTyped DEF FilesBacked, ReportBacked, ManifestBacked, EmptyDirectory, OutFiles

LEMMA EmbeddedInit == ExportInit => EmbeddedInv
<1> SUFFICES ASSUME ExportInit PROVE EmbeddedInv
  OBVIOUS
<1>1. bundleFile = None /\ comparisonFile = None /\ exporter = Resting
  BY DEF ExportInit
<1>2. Len(exporter.loaded) = 0 /\ exporter.emb = EmptyDirectory
  BY <1>1, RestingTyped
<1> QED
  BY <1>1, <1>2, EmptyBacked, ExportConstants DEF EmbeddedInv, ComparisonsAgree

\* The bundle and comparison files stay what they were, or are cut short, and
\* what the exporter has in its hands is backed.
LEMMA EmbeddedFrame ==
  ASSUME EmbeddedInv, accepted \subseteq accepted',
         bundleFile' \in {bundleFile, Torn}, comparisonFile' \in {comparisonFile, Torn},
         ReportBacked(exporter'.emb, accepted'), ManifestBacked(exporter'.emb, accepted'),
         \A i \in 1..Len(exporter'.loaded) :
           \/ exporter'.loaded[i] \in EarlierBundles
           \/ /\ ReportBacked(exporter'.loaded[i].emb, accepted')
              /\ ManifestBacked(exporter'.loaded[i].emb, accepted')
  PROVE  EmbeddedInv'
<1>1. bundleFile' \in Bundles => Origin(bundleFile)'
  <2>1. bundleFile' \in Bundles => bundleFile' = bundleFile /\ Origin(bundleFile)
    BY ExportConstants DEF EmbeddedInv
  <2>2. /\ ReportBacked(bundleFile.emb, accepted) => ReportBacked(bundleFile.emb, accepted')
        /\ ManifestBacked(bundleFile.emb, accepted) => ManifestBacked(bundleFile.emb, accepted')
    BY BackedGrows
  <2> QED
    BY <2>1, <2>2 DEF Origin, FilesBacked
<1>2. ComparisonsAgree'
  <2>1. comparisonFile' \in Comparisons => comparisonFile' = comparisonFile
    BY ExportConstants
  <2> QED
    BY <2>1 DEF EmbeddedInv, ComparisonsAgree
<1>3. FilesBacked(exporter.emb)'
  BY DEF FilesBacked
<1>4. (\A i \in 1..Len(exporter.loaded) : Origin(exporter.loaded[i]))'
  BY DEF Origin, FilesBacked
<1> QED
  BY <1>1, <1>2, <1>3, <1>4 DEF EmbeddedInv

\* The exporter keeps what it embeds and has loaded, or lets go of it.
LEMMA EmbeddedKept ==
  ASSUME EmbeddedInv, accepted \subseteq accepted',
         bundleFile' \in {bundleFile, Torn}, comparisonFile' \in {comparisonFile, Torn},
         exporter'.emb \in {exporter.emb, EmptyDirectory},
         exporter'.loaded = exporter.loaded \/ Len(exporter'.loaded) = 0
  PROVE  EmbeddedInv'
<1>1. ReportBacked(exporter.emb, accepted) /\ ManifestBacked(exporter.emb, accepted)
  BY DEF EmbeddedInv, FilesBacked
<1>2. ReportBacked(EmptyDirectory, accepted) /\ ManifestBacked(EmptyDirectory, accepted)
  BY EmptyBacked DEF FilesBacked
<1>3. ReportBacked(exporter'.emb, accepted) /\ ManifestBacked(exporter'.emb, accepted)
  BY <1>1, <1>2
<1>4. ASSUME NEW i \in 1..Len(exporter'.loaded)
      PROVE  \/ exporter'.loaded[i] \in EarlierBundles
             \/ /\ ReportBacked(exporter'.loaded[i].emb, accepted')
                /\ ManifestBacked(exporter'.loaded[i].emb, accepted')
  <2>1. exporter'.loaded = exporter.loaded
    BY <1>4
  <2>2. Origin(exporter.loaded[i])
    BY <2>1 DEF EmbeddedInv
  <2> QED
    BY <2>1, <2>2, BackedGrows DEF Origin, FilesBacked
<1>5. ReportBacked(exporter'.emb, accepted') /\ ManifestBacked(exporter'.emb, accepted')
  BY <1>3, BackedGrows
<1> QED
  BY <1>4, <1>5, EmbeddedFrame

\* One more input is loaded, from a bundle file or from a directory.
LEMMA EmbeddedAppend ==
  ASSUME EmbeddedInv, NEW l \in Seq(Bundles), l = exporter.loaded, NEW b \in Bundles, Origin(b),
         exporter'.loaded = Append(l, b), exporter'.emb \in {exporter.emb, EmptyDirectory},
         UNCHANGED <<accepted, bundleFile, comparisonFile>>
  PROVE  EmbeddedInv'
<1>1. ReportBacked(exporter'.emb, accepted') /\ ManifestBacked(exporter'.emb, accepted')
  BY EmptyBacked DEF EmbeddedInv, FilesBacked
<1>2. ASSUME NEW i \in 1..Len(exporter'.loaded)
      PROVE  \/ exporter'.loaded[i] \in EarlierBundles
             \/ /\ ReportBacked(exporter'.loaded[i].emb, accepted')
                /\ ManifestBacked(exporter'.loaded[i].emb, accepted')
  <2>1. Len(exporter'.loaded) = Len(l) + 1 /\ Append(l, b)[Len(l) + 1] = b
        /\ \A j \in 1..Len(l) : Append(l, b)[j] = l[j]
    OBVIOUS
  <2>2. i \in 1..Len(l) \/ i = Len(l) + 1
    BY <2>1
  <2>3. Origin(exporter'.loaded[i])
    BY <2>1, <2>2 DEF EmbeddedInv
  <2> QED
    BY <2>3 DEF Origin, FilesBacked
<1> QED
  BY <1>1, <1>2, EmbeddedFrame

LEMMA ExporterStepEmbedded ==
  ASSUME TypeInv, BackedInv, ExportTypeInv, EmbeddedInv, EarlierBundlesAgree,
         ExporterStep, UNCHANGED accepted
  PROVE  EmbeddedInv'
<1> DEFINE e == exporter
<1> USE DEF ExporterAt
<1>a. /\ e \in ExporterStates /\ e.loaded \in Seq(Bundles) /\ e.emb \in Directories
      /\ e.pc \in Readings => e.dir \in Dirs
      /\ Len(e.loaded) \in LoadedAt(e.goal, e.pc)
  BY DEF ExportTypeInv, ExportTypeOK, ExporterStates
\* A step that leaves both files alone and lets go of what it holds.
<1>b. ASSUME exporter' = Resting, bundleFile' \in {bundleFile, Torn},
             comparisonFile' \in {comparisonFile, Torn}
      PROVE  EmbeddedInv'
  BY <1>b, RestingTyped, EmbeddedKept
<1>1. CASE StartExport
  <2>1. exporter'.emb = EmptyDirectory /\ Len(exporter'.loaded) = 0
    BY <1>1, RestingTyped DEF StartExport, Resting
  <2> QED
    BY <1>1, <2>1, EmbeddedKept DEF StartExport
<1>2. CASE LoadBundleFile
  <2>1. PICK b \in (EarlierBundles \cup {bundleFile}) \ {None} :
          IF b \in Bundles /\ ValidBundle(b)
            THEN Continue([exporter EXCEPT !.loaded = Append(@, b), !.pc = "loaded"])
            ELSE Refuse
    BY <1>2 DEF LoadBundleFile
  <2>2. ASSUME b \in Bundles, Continue([exporter EXCEPT !.loaded = Append(@, b), !.pc = "loaded"])
        PROVE  EmbeddedInv'
    <3>1. Origin(b)
      BY <2>2 DEF EmbeddedInv, Origin
    <3>2. exporter'.loaded = Append(exporter.loaded, b) /\ exporter'.emb = exporter.emb
      BY <1>a, <2>2 DEF Continue, ExporterStates
    <3> QED
      BY <1>a, <2>2, <3>1, <3>2, EmbeddedAppend DEF Continue
  <2> QED
    BY <1>b, <2>1, <2>2 DEF Refuse
<1>3. CASE \E d \in Dirs : OpenRunDirectory(d)
  <2>1. Refuse \/ \E d : Continue([exporter EXCEPT !.pc = "parse_report", !.dir = d])
    BY <1>3 DEF OpenRunDirectory
  <2>2. ASSUME NEW d, Continue([exporter EXCEPT !.pc = "parse_report", !.dir = d])
        PROVE  exporter'.emb = exporter.emb /\ exporter'.loaded = exporter.loaded
    BY <1>a, <2>2 DEF Continue, ExporterStates
  <2> QED
    BY <1>b, <2>1, <2>2, EmbeddedKept DEF Continue, Refuse
<1>4. CASE ParseReport \/ ParseManifest \/ HashReport
  <2>1. \/ Refuse
        \/ \E r : Continue([exporter EXCEPT !.report = r, !.pc = "parse_cert"])
        \/ \E m : Continue([exporter EXCEPT !.manifest = m, !.pc = "hash_report"])
        \/ \E x : Continue([exporter EXCEPT !.pc = "hash_cert", !.bytes = x])
    BY <1>4 DEF ParseReport, ParseManifest, HashReport
  <2>2. ASSUME NEW x, \/ Continue([exporter EXCEPT !.report = x, !.pc = "parse_cert"])
                      \/ Continue([exporter EXCEPT !.manifest = x, !.pc = "hash_report"])
                      \/ Continue([exporter EXCEPT !.pc = "hash_cert", !.bytes = x])
        PROVE  exporter'.emb = exporter.emb /\ exporter'.loaded = exporter.loaded
    BY <1>a, <2>2 DEF Continue, ExporterStates
  <2> QED
    BY <1>b, <2>1, <2>2, EmbeddedKept DEF Continue, Refuse
<1>5. CASE ParseCertificate \/ HashCertificate \/ HashMarkdown \/ HashLogs \/ NextInput
  <2>1. Refuse \/ \E pc : Continue([exporter EXCEPT !.pc = pc])
    BY <1>5 DEF ParseCertificate, HashCertificate, HashMarkdown, HashLogs, NextInput
  <2>2. ASSUME NEW pc, Continue([exporter EXCEPT !.pc = pc])
        PROVE  exporter'.emb = exporter.emb /\ exporter'.loaded = exporter.loaded
    BY <1>a, <2>2 DEF Continue, ExporterStates
  <2> QED
    BY <1>b, <2>1, <2>2, EmbeddedKept DEF Continue, Refuse
<1>6. CASE EmbedArtifact
  <2> DEFINE f == EmbedOrder[e.todo]
             o == out[e.dir]
             w == [e.emb EXCEPT ![f] = o[f]]
  <2>1. e.pc = "embed" /\ e.todo \in 1..5
    <3>1. e.todo \in 1..6 /\ Len(EmbedOrder) = 5
      BY <1>a DEF ExporterStates, EmbedOrder
    <3> QED
      BY <1>6, <3>1 DEF EmbedArtifact
  <2>2. ReportBacked(o, accepted) /\ ManifestBacked(o, accepted)
    BY <1>a, <2>1 DEF Readings, BackedInv
  <2>3. exporter'.emb = w /\ exporter'.loaded = e.loaded
    BY <1>6, <1>a DEF EmbedArtifact, Continue, Here, ExporterStates
  <2>4. w.report \in {e.emb.report, o.report} /\ w.manifest \in {e.emb.manifest, o.manifest}
    BY <1>a DEF Directories
  <2>5. ReportBacked(w, accepted) /\ ManifestBacked(w, accepted)
    BY <2>2, <2>4 DEF EmbeddedInv, FilesBacked, ReportBacked, ManifestBacked
  <2> HIDE DEF w
  <2>6. \A i \in 1..Len(e.loaded) : Origin(e.loaded[i])
    BY DEF EmbeddedInv
  <2> QED
    BY <1>6, <2>3, <2>5, <2>6, EmbeddedFrame DEF EmbedArtifact, Continue, Origin, FilesBacked
<1>7. CASE BuildRunBundle
  <2> DEFINE b == [meta |-> Metadata(exporter.report), emb |-> exporter.emb, sealed |-> TRUE]
             l == Append(exporter.loaded, b)
  <2>1. Continue([Resting EXCEPT !.goal = exporter.goal, !.pc = "loaded", !.loaded = l])
    BY <1>7 DEF BuildRunBundle
  <2>2. exporter.report \in Summaries
    BY <1>7 DEF ExportTypeInv, BuildRunBundle, HasReport, Readings
  <2>3. b \in Bundles
    BY <1>a, <2>2, MetadataTyped DEF Bundles
  <2>4. Origin(b)
    BY DEF EmbeddedInv, Origin, FilesBacked
  <2> HIDE DEF l
  <2>5. exporter'.loaded = l /\ exporter'.emb = EmptyDirectory
    BY <2>1 DEF Continue, Resting
  <2>6. UNCHANGED <<bundleFile, comparisonFile>>
    BY <2>1 DEF Continue
  <2> HIDE DEF b
  <2> QED
    BY <1>a, <2>3, <2>4, <2>5, <2>6, EmbeddedAppend DEF l
<1>8. CASE WriteRunBundle
  <2>1. Len(e.loaded) = 1
    BY <1>a, <1>8 DEF WriteRunBundle, LoadedAt, Readings
  <2>2. Origin(e.loaded[1])
    BY <2>1 DEF EmbeddedInv
  <2>3. /\ exporter' = Resting /\ bundleFile' = e.loaded[1]
        /\ UNCHANGED <<accepted, comparisonFile>>
    BY <1>8 DEF WriteRunBundle
  <2>4. Origin(bundleFile)'
    BY <2>2, <2>3 DEF Origin, FilesBacked
  <2>5. FilesBacked(exporter.emb)'
    BY <2>3, EmptyBacked, RestingTyped DEF FilesBacked
  <2>6. Len(exporter'.loaded) = 0
    BY <2>3, RestingTyped
  <2>7. ComparisonsAgree'
    BY <2>3 DEF EmbeddedInv, ComparisonsAgree
  <2> QED
    BY <2>4, <2>5, <2>6, <2>7 DEF EmbeddedInv
<1>9. CASE WriteComparison
  <2> DEFINE b == exporter.loaded[1]
             c == exporter.loaded[2]
  <2>1. CASE Refuse
    BY <1>b, <2>1 DEF Refuse
  <2>2. CASE /\ ValidBundle(b) /\ ValidBundle(c)
             /\ comparisonFile' = [baseline |-> b, current |-> c,
                  same |-> SourceDigest(b.emb.report) = SourceDigest(c.emb.report)]
             /\ exporter' = Resting /\ UNCHANGED <<exports, bundleFile>>
    <3>1. Len(e.loaded) = 2
      BY <1>a, <1>9 DEF WriteComparison, LoadedAt, Readings
    <3>2. Origin(b) /\ Origin(c)
      BY <3>1 DEF EmbeddedInv
    <3>3. \A s : ValidBundle(s) /\ Origin(s) =>
            Agree(s) /\ (s \in EarlierBundles \/ s.emb.cert \in accepted)
      BY ValidBackedAgrees DEF Origin, FilesBacked, EarlierBundlesAgree
    <3>4. \A side \in {b, c} : Agree(side) /\ (side \in EarlierBundles \/ side.emb.cert \in accepted)
      BY <2>2, <3>2, <3>3
    <3>5. \A s : Agree(s) => SourceDigest(s.emb.report) = Core[s.emb.cert].contract
      BY DEF Agree, SourceDigest
    <3>6. comparisonFile'.baseline = b /\ comparisonFile'.current = c
          /\ (comparisonFile'.same <=> Core[b.emb.cert].contract = Core[c.emb.cert].contract)
      BY <2>2, <3>4, <3>5
    <3>7. ComparisonsAgree'
      BY <3>4, <3>6 DEF ComparisonsAgree
    <3>8. FilesBacked(exporter.emb)'
      BY <2>2, EmptyBacked, RestingTyped DEF FilesBacked
    <3>9. Len(exporter'.loaded) = 0
      BY <2>2, RestingTyped
    <3>10. bundleFile' \in Bundles => Origin(bundleFile)'
      BY <2>2 DEF EmbeddedInv, Origin, FilesBacked
    <3> QED
      BY <3>7, <3>8, <3>9, <3>10 DEF EmbeddedInv
  <2> QED
    BY <1>9, <2>1, <2>2 DEF WriteComparison
<1>10. CASE ExporterDies
  <2>1. bundleFile' \in {bundleFile, Torn} /\ comparisonFile' \in {comparisonFile, Torn}
    BY <1>10 DEF ExporterDies
  <2> QED
    BY <1>b, <1>10, <2>1 DEF ExporterDies
<1> QED
  BY <1>1, <1>2, <1>3, <1>4, <1>5, <1>6, <1>7, <1>8, <1>9, <1>10 DEF ExporterStep, ReadDirectory

LEMMA ExportNextEmbedded ==
  ASSUME EarlierBundlesAgree
  PROVE  TypeInv /\ BackedInv /\ ExportTypeInv /\ EmbeddedInv /\ [ExportNext]_allVars => EmbeddedInv'
<1> SUFFICES ASSUME TypeInv, BackedInv, ExportTypeInv, EmbeddedInv, [ExportNext]_allVars
             PROVE  EmbeddedInv'
  OBVIOUS
<1>1. CASE ExporterStep /\ UNCHANGED vars
  BY <1>1, ExporterStepEmbedded DEF vars
<1>2. CASE UNCHANGED exportVars
  <2>1. accepted \subseteq accepted'
    BY ExportKeepsVars, AcceptedGrows
  <2> QED
    BY <1>2, <2>1, EmbeddedKept DEF exportVars
<1> QED
  BY <1>1, <1>2 DEF ExportNext, allVars, exportVars

\* With private output directories, and earlier bundle files that agree if they
\* validate: a comparison embeds two agreeing runs, on accepted certificates, and
\* states whether they have one source contract, although verifications may
\* rewrite a directory between any two reads of it (export_workbench_bundle.py:75).
THEOREM ComparisonsOfAgreeingRuns ==
  ASSUME PrivateDirs, EarlierBundlesAgree PROVE ExportSpec => []ComparisonsAgree
<1>1. ExportInit => Init
  BY DEF ExportInit
<1>2. ExportSpec => [](TypeInv /\ BackedInv)
  BY <1>1, TypeInit, NextTyped, BackedInit, NextBacked, ExportKeepsVars, PTL DEF ExportSpec
<1>3. ExportSpec => []ExportTypeInv
  BY <1>2, ExportTypeInit, ExportNextTyped, PTL DEF ExportSpec
<1>4. ExportSpec => []EmbeddedInv
  BY <1>2, <1>3, EmbeddedInit, ExportNextEmbedded, PTL DEF ExportSpec
<1>5. EmbeddedInv => ComparisonsAgree
  BY DEF EmbeddedInv
<1> QED
  BY <1>4, <1>5, PTL

-----------------------------------------------------------------------------
(* Run bundles: nobody writes to the directory while `run` reads it, so what *)
(* it hashed is what it embeds; what failed and killed verifications left in *)
(* the directory does not pass for the artifacts of one run.                 *)

LEMMA FilesStayInit == ExportInit => FilesStay
BY ConstantsTyped DEF ExportInit, Init, FilesStay, EmptyDirectory, OutFiles

LEMMA StepKeepsFiles ==
  ASSUME TypeInv, BackedInv, FilesStay, NEW p \in Runs, Invoke(p) \/ Step(p) \/ Crash(p)
  PROVE  FilesStay'
<1> DEFINE o == out[Dir[p]]
           r == run[p]
<1>a. RunTyped(r) /\ RunBacked(r, o, accepted)
  BY TypeInvSplit DEF RunsTyped, BackedInv
<1>b. Dir[p] \in Dirs /\ o \in Directories /\ out \in [Dirs -> Directories]
  BY ConstantsTyped DEF TypeInv, TypeOK
<1>1. ASSUME UNCHANGED out PROVE FilesStay'
  BY <1>1 DEF FilesStay
<1>2. ASSUME NEW f \in OutFiles, NEW x, Write(p, f, x), x # None,
             f = "manifest" /\ x \in Manifests => o.markdown # None /\ o.logs # None
      PROVE  FilesStay'
  <2> DEFINE w == [o EXCEPT ![f] = x]
  <2>1. out' = [out EXCEPT ![Dir[p]] = w]
    BY <1>2 DEF Write
  <2>2. w.manifest \in Manifests => w.markdown # None /\ w.logs # None
    <3>1. f # "manifest" => w.manifest = o.manifest
      BY <1>b DEF Directories
    <3>2. f = "manifest" => w.manifest = x /\ w.markdown = o.markdown /\ w.logs = o.logs
      BY <1>b DEF Directories
    <3>3. w.markdown \in {o.markdown, x} /\ w.logs \in {o.logs, x}
      BY <1>b DEF Directories
    <3>4. o.manifest \in Manifests => o.markdown # None /\ o.logs # None
      BY <1>b DEF FilesStay
    <3> QED
      BY <1>2, <3>1, <3>2, <3>3, <3>4
  <2> HIDE DEF w
  <2>3. \A d \in Dirs : out'[d] = IF d = Dir[p] THEN w ELSE out[d]
    BY <1>b, <2>1
  <2> QED
    BY <2>2, <2>3 DEF FilesStay
<1>3. CASE Invoke(p)
  BY <1>1, <1>3 DEF Invoke
<1>4. CASE Crash(p)
  BY <1>1, <1>2, <1>4, ConstantsTyped DEF Crash
<1>5. CASE Produce(p)
  <2>1. Case[rev].assurance \in Assurances
    BY PinsTyped DEF TypeInv, TypeOK
  <2> QED
    BY <1>1, <1>2, <1>5, <2>1, ConstantsTyped DEF Produce, OutFiles
<1>6. CASE WriteLogs(p)
  <2>1. r.checked \in Assurances
    BY <1>a, <1>6 DEF WriteLogs, At, RunTyped, AfterConsume, AfterLoad, AfterDigest
  <2> QED
    BY <1>2, <1>6, <2>1, ConstantsTyped DEF WriteLogs, OutFiles
<1>7. CASE WriteReport(p) \/ WriteMarkdown(p) \/ WriteManifest(p)
  <2>1. r.pc \in AfterDigest
    BY <1>7 DEF WriteReport, WriteMarkdown, WriteManifest, At, AfterDigest
  <2>2. r.checked \in Assurances /\ Summary(r) \in Summaries
    BY <1>a, <2>1, SummaryTyped DEF RunTyped, AfterOpen, AfterConsume, AfterLoad
  <2>3. ASSUME WriteReport(p) PROVE FilesStay'
    BY <1>2, <2>2, <2>3, ConstantsTyped DEF WriteReport, OutFiles
  <2>4. ASSUME WriteMarkdown(p) PROVE FilesStay'
    BY <1>2, <2>2, <2>4, ConstantsTyped DEF WriteMarkdown, OutFiles
  <2>5. ASSUME WriteManifest(p), ~UNCHANGED out PROVE FilesStay'
    <3> DEFINE m == [id |-> Case[r.meta].id, assurance |-> Case[rev].assurance,
                     pins |-> MetaPins(r.meta), cert |-> r.sha,
                     report |-> Artifact(p, "report"), markdown |-> Artifact(p, "markdown"),
                     logs |-> Artifact(p, "logs")]
    <3>1. r.pc = "manifest" /\ Write(p, "manifest", m)
      BY <2>5 DEF WriteManifest, At
    <3>2. o.markdown = Summary(r) /\ o.logs = r.checked
      BY <1>a, <3>1 DEF RunBacked, AfterMarkdown, AfterLogs, AfterConsume, AfterLoad, AfterDigest
    <3>3. o.markdown # None /\ o.logs # None
      BY <2>2, <3>2, ConstantsTyped
    <3>4. m # None
      <4>1. m \in Manifests
        <5>1. r.meta \in Revs /\ r.sha \in Assurances \cup {Torn} /\ rev \in Revs
          BY <1>a, <2>1 DEF RunTyped, AfterOpen, AfterConsume, AfterLoad, TypeInv, TypeOK
        <5> QED
          BY <5>1, PinsTyped, ArtifactTyped DEF Manifests, TypeInv
      <4> QED
        BY <4>1, ConstantsTyped
    <3> HIDE DEF m
    <3> QED
      BY <1>2, <3>1, <3>3, <3>4 DEF OutFiles
  <2> QED
    BY <1>1, <1>7, <2>3, <2>4, <2>5
<1>8. CASE \/ Open(p) \/ VerifyCaseProvenance(p) \/ VerifyPredeclaration(p) \/ Consume(p)
           \/ LoadCertificate(p) \/ DigestCertificate(p)
           \/ VerifyExit(p) \/ ApproveLock(p) \/ WriteLock(p) \/ CheckLock(p)
  BY <1>1, <1>8 DEF Open, VerifyCaseProvenance, VerifyPredeclaration, Consume, LoadCertificate,
     DigestCertificate, VerifyExit, ApproveLock, WriteLock, CheckLock
<1> QED
  BY <1>3, <1>4, <1>5, <1>6, <1>7, <1>8 DEF Step

LEMMA NextKeepsFiles == TypeInv /\ BackedInv /\ FilesStay /\ [Next]_vars => FilesStay'
<1> SUFFICES ASSUME TypeInv, BackedInv, FilesStay, [Next]_vars PROVE FilesStay'
  OBVIOUS
<1>1. CASE UNCHANGED out
  BY <1>1 DEF FilesStay
<1> QED
  BY <1>1, StepKeepsFiles DEF Next, Checkout, EditLock, vars

LEMMA QuietInit == ExportInit => QuietInv
BY ExportConstants DEF ExportInit, QuietInv, QuietRun, RunBundlesAgree, Resting, HasReport,
   HasManifest, Readings

\* A resting exporter knows nothing; the bundle file is what it was, or cut short.
LEMMA QuietRest ==
  ASSUME QuietInv, exporter'.pc \in {"idle", "open"}, exporter'.todo = 1, bundleFile' \in {bundleFile, Torn},
         accepted \subseteq accepted'
  PROVE  QuietInv'
<1>1. bundleFile' \in Bundles => bundleFile' = bundleFile
  BY ExportConstants
<1>2. RunBundlesAgree'
  BY <1>1 DEF QuietInv, RunBundlesAgree
<1>3. QuietRun(exporter, out[exporter.dir], accepted)'
  BY DEF QuietRun, HasReport, HasManifest, Readings
<1> QED
  BY <1>2, <1>3 DEF QuietInv

LEMMA QuietContinue ==
  ASSUME QuietInv, NEW n, Continue(n), UNCHANGED <<out, accepted>>,
         n.goal = "run" => QuietRun(n, out[n.dir], accepted)
  PROVE  QuietInv'
<1>1. RunBundlesAgree'
  BY DEF QuietInv, RunBundlesAgree, Continue
<1>2. (exporter.goal = "run" => QuietRun(exporter, out[exporter.dir], accepted))'
  BY DEF Continue
<1> QED
  BY <1>1, <1>2 DEF QuietInv

\* What was hashed and embedded from an undisturbed directory is one run.
LEMMA EmbeddedIsOneRun ==
  ASSUME NEW o, NEW acc, NEW e, QuietRun(e, o, acc), e.pc = "embed", e.todo = 6,
         e.emb \in Directories, e.report \in Summaries, e.manifest \in Manifests,
         ReportBacked(o, acc), ManifestBacked(o, acc),
         NEW b, b = [meta |-> Metadata(e.report), emb |-> e.emb, sealed |-> TRUE]
  PROVE  OneRun(b, acc)
<1>1. \A i \in 1..5 : e.emb[EmbedOrder[i]] = o[EmbedOrder[i]]
  BY DEF QuietRun
<1>2. /\ e.emb.report = o.report /\ e.emb.cert = o.cert /\ e.emb.manifest = o.manifest
      /\ e.emb.markdown = o.markdown /\ e.emb.logs = o.logs
  BY <1>1 DEF EmbedOrder
<1>3. /\ e.report = o.report /\ e.manifest = o.manifest
      /\ e.manifest.report = e.report /\ e.manifest.id = e.report.id
      /\ o.cert = e.manifest.cert /\ o.cert = e.report.sha
      /\ o.markdown = e.manifest.markdown /\ o.logs = e.manifest.logs
  BY DEF QuietRun, HasReport, HasManifest, Readings
<1>4. /\ o.report.commit.status = Classify(o.report.commit.assurance)
      /\ o.report.sha = o.report.commit.assurance
  BY <1>3 DEF ReportBacked
<1>5. /\ o.manifest.markdown = o.manifest.report /\ o.manifest.logs = o.manifest.cert
      /\ o.manifest.cert \in acc
  BY <1>3 DEF ManifestBacked
<1>6. o.report.commit = [assurance |-> o.cert, status |-> Classify(o.cert)]
  BY <1>3, <1>4 DEF Summaries, Commits
<1>7. b.emb = e.emb /\ b.meta = Metadata(e.report)
  OBVIOUS
<1> QED
  BY <1>2, <1>3, <1>5, <1>6, <1>7 DEF OneRun, Agree

LEMMA ExporterStepQuiet ==
  ASSUME TypeInv, BackedInv, FilesStay, ExportTypeInv, QuietInv, ExporterStep, UNCHANGED vars
  PROVE  QuietInv'
<1> DEFINE e == exporter
           o == out[exporter.dir]
<1> USE DEF ExporterAt
<1>a. /\ e \in ExporterStates /\ e.loaded \in Seq(Bundles) /\ e.emb \in Directories
      /\ e.pc \in Readings => e.dir \in Dirs
      /\ e.pc \in HasReport => e.report \in Summaries
      /\ e.pc \in HasManifest => e.manifest \in Manifests
      /\ Len(e.loaded) \in LoadedAt(e.goal, e.pc)
  BY DEF ExportTypeInv, ExportTypeOK, ExporterStates
<1>b. UNCHANGED <<out, accepted>>
  BY DEF vars
<1>c. e.goal = "run" => QuietRun(e, o, accepted)
  BY DEF QuietInv
<1>d. ASSUME exporter' = Resting, bundleFile' \in {bundleFile, Torn} PROVE QuietInv'
  <2>1. exporter'.pc = "idle" /\ exporter'.todo = 1
    BY <1>d DEF Resting
  <2> QED
    BY <1>b, <1>d, <2>1, QuietRest
\* Moving on within the readings with the record n.
<1>e. ASSUME NEW n, Continue(n),
             n.goal = e.goal, n.dir = e.dir, e.goal = "run" => QuietRun(n, o, accepted)
      PROVE  QuietInv'
  BY <1>b, <1>e, QuietContinue
<1>f. ASSUME e.pc \in Readings PROVE ReportBacked(o, accepted) /\ ManifestBacked(o, accepted)
  BY <1>a, <1>f DEF BackedInv
<1>1. CASE StartExport
  <2>1. exporter'.pc = "open" /\ exporter'.todo = 1 /\ bundleFile' = bundleFile
    BY <1>1 DEF StartExport, Resting
  <2> QED
    BY <1>b, <2>1, QuietRest
<1>2. CASE LoadBundleFile
  <2>1. PICK b : Refuse \/ Continue([exporter EXCEPT !.loaded = Append(@, b), !.pc = "loaded"])
    BY <1>2 DEF LoadBundleFile
  <2>2. e.goal = "compare"
    BY <1>2 DEF LoadBundleFile
  <2> DEFINE n == [exporter EXCEPT !.loaded = Append(@, b), !.pc = "loaded"]
  <2>3. n.goal = "compare"
    BY <1>a, <2>2 DEF ExporterStates
  <2> HIDE DEF n
  <2>4. Continue(n) \/ Refuse
    BY <2>1 DEF n
  <2> QED
    BY <1>b, <1>d, <2>3, <2>4, QuietContinue DEF Refuse
<1>3. CASE \E d \in Dirs : OpenRunDirectory(d)
  <2>1. PICK d \in Dirs : OpenRunDirectory(d)
    BY <1>3
  <2> DEFINE n == [exporter EXCEPT !.pc = "parse_report", !.dir = d]
  <2>2. Refuse \/ Continue(n)
    BY <2>1 DEF OpenRunDirectory
  <2>3. n.pc = "parse_report" /\ n.todo = e.todo /\ n.goal = e.goal /\ e.pc = "open"
    BY <1>a, <2>1 DEF ExporterStates, OpenRunDirectory
  <2> HIDE DEF n
  <2>4. n.goal = "run" => QuietRun(n, out[n.dir], accepted)
    BY <1>c, <2>3 DEF QuietRun, HasReport, HasManifest, Readings
  <2> QED
    BY <1>b, <1>d, <2>2, <2>4, QuietContinue DEF Refuse
<1>4. CASE ParseReport
  <2> DEFINE n == [exporter EXCEPT !.report = Here("report"), !.pc = "parse_cert"]
  <2>1. e.pc = "parse_report" /\ (Refuse \/ Continue(n))
    BY <1>4 DEF ParseReport
  <2>2. n.pc = "parse_cert" /\ n.report = o.report /\ n.goal = e.goal /\ n.dir = e.dir /\ n.todo = e.todo
    BY <1>a DEF ExporterStates, Here
  <2> HIDE DEF n
  <2>3. e.goal = "run" => QuietRun(n, o, accepted)
    BY <1>c, <2>1, <2>2 DEF QuietRun, HasReport, HasManifest, Readings
  <2> QED
    BY <1>d, <1>e, <2>1, <2>2, <2>3 DEF Refuse
<1>5. CASE ParseCertificate
  <2> DEFINE n == [exporter EXCEPT !.pc = "parse_manifest"]
  <2>1. e.pc = "parse_cert" /\ (Refuse \/ Continue(n))
    BY <1>5 DEF ParseCertificate
  <2>2. n.pc = "parse_manifest" /\ n.report = e.report /\ n.goal = e.goal /\ n.dir = e.dir /\ n.todo = e.todo
    BY <1>a DEF ExporterStates
  <2> HIDE DEF n
  <2>3. e.goal = "run" => QuietRun(n, o, accepted)
    BY <1>c, <2>1, <2>2 DEF QuietRun, HasReport, HasManifest, Readings
  <2> QED
    BY <1>d, <1>e, <2>1, <2>2, <2>3 DEF Refuse
<1>6. CASE ParseManifest
  <2> DEFINE n == [exporter EXCEPT !.manifest = Here("manifest"), !.pc = "hash_report"]
  <2>1. e.pc = "parse_manifest" /\ (Refuse \/ Continue(n))
    BY <1>6 DEF ParseManifest
  <2>2. /\ n.pc = "hash_report" /\ n.report = e.report /\ n.manifest = o.manifest
        /\ n.goal = e.goal /\ n.dir = e.dir /\ n.todo = e.todo
    BY <1>a DEF ExporterStates, Here
  <2> HIDE DEF n
  <2>3. e.goal = "run" => QuietRun(n, o, accepted)
    BY <1>c, <2>1, <2>2 DEF QuietRun, HasReport, HasManifest, Readings
  <2> QED
    BY <1>d, <1>e, <2>1, <2>2, <2>3 DEF Refuse
<1>7. CASE HashReport
  <2> DEFINE n == [exporter EXCEPT !.pc = "hash_cert", !.bytes = Here("report")]
  <2>1. e.pc = "hash_report" /\ Continue(n)
    BY <1>7 DEF HashReport
  <2>2. /\ n.pc = "hash_cert" /\ n.report = e.report /\ n.manifest = e.manifest
        /\ n.bytes = o.report /\ n.goal = e.goal /\ n.dir = e.dir /\ n.todo = e.todo
    BY <1>a DEF ExporterStates, Here
  <2> HIDE DEF n
  <2>3. e.goal = "run" => QuietRun(n, o, accepted)
    BY <1>c, <2>1, <2>2 DEF QuietRun, HasReport, HasManifest, Readings
  <2> QED
    BY <1>e, <2>1, <2>2, <2>3
<1>8. CASE HashCertificate
  <2> DEFINE n == [exporter EXCEPT !.pc = "hash_markdown"]
  <2>1. CASE Refuse
    BY <1>d, <2>1 DEF Refuse
  <2>2. CASE /\ e.pc = "hash_cert" /\ Continue(n)
             /\ e.bytes = e.manifest.report /\ o.cert = e.manifest.cert
             /\ o.cert = e.report.sha /\ e.manifest.id = e.report.id
    <3>1. /\ n.pc = "hash_markdown" /\ n.report = e.report /\ n.manifest = e.manifest
          /\ n.goal = e.goal /\ n.dir = e.dir /\ n.todo = e.todo
      BY <1>a DEF ExporterStates
    <3> HIDE DEF n
    <3>2. e.goal = "run" => QuietRun(n, o, accepted)
      BY <1>c, <2>2, <3>1 DEF QuietRun, HasReport, HasManifest, Readings
    <3> QED
      BY <1>e, <2>2, <3>1, <3>2
  <2> QED
    BY <1>8, <2>1, <2>2 DEF HashCertificate, Here
<1>9. CASE HashMarkdown
  <2> DEFINE n == [exporter EXCEPT !.pc = "hash_logs"]
  <2>1. CASE Refuse
    BY <1>d, <2>1 DEF Refuse
  <2>2. CASE /\ e.pc = "hash_markdown" /\ Continue(n)
             /\ o.markdown \in {None, e.manifest.markdown}
    <3>1. /\ n.pc = "hash_logs" /\ n.report = e.report /\ n.manifest = e.manifest
          /\ n.goal = e.goal /\ n.dir = e.dir /\ n.todo = e.todo
      BY <1>a DEF ExporterStates
    <3>2. e.goal = "run" => o.markdown # None
      BY <1>a, <1>c, <2>2 DEF QuietRun, FilesStay, HasManifest, HasReport, Readings
    <3> HIDE DEF n
    <3>3. e.goal = "run" => QuietRun(n, o, accepted)
      BY <1>c, <2>2, <3>1, <3>2 DEF QuietRun, HasReport, HasManifest, Readings
    <3> QED
      BY <1>e, <2>2, <3>1, <3>3
  <2> QED
    BY <1>9, <2>1, <2>2 DEF HashMarkdown, Here
<1>10. CASE HashLogs
  <2> DEFINE n == [exporter EXCEPT !.pc = "embed"]
  <2>1. CASE Refuse
    BY <1>d, <2>1 DEF Refuse
  <2>2. CASE /\ e.pc = "hash_logs" /\ Continue(n)
             /\ o.logs \in {None, e.manifest.logs}
    <3>1. /\ n.pc = "embed" /\ n.report = e.report /\ n.manifest = e.manifest
          /\ n.goal = e.goal /\ n.dir = e.dir /\ n.todo = e.todo
      BY <1>a DEF ExporterStates
    <3>2. e.goal = "run" => o.logs # None
      BY <1>a, <1>c, <2>2 DEF QuietRun, FilesStay, HasManifest, HasReport, Readings
    <3>3. e.goal = "run" => e.todo = 1
      BY <1>c, <2>2 DEF QuietRun
    <3>5. \A i \in 1..(1 - 1) : FALSE
      OBVIOUS
    <3> HIDE DEF n
    <3>4. e.goal = "run" => QuietRun(n, o, accepted)
      BY <1>c, <2>2, <3>1, <3>2, <3>3, <3>5 DEF QuietRun, HasReport, HasManifest, Readings
    <3> QED
      BY <1>e, <2>2, <3>1, <3>4
  <2> QED
    BY <1>10, <2>1, <2>2 DEF HashLogs, Here
<1>11. CASE EmbedArtifact
  <2> DEFINE f == EmbedOrder[e.todo]
             w == [e.emb EXCEPT ![f] = o[f]]
             n == [exporter EXCEPT !.emb[f] = Here(f), !.todo = @ + 1]
  <2>1. e.pc = "embed" /\ e.todo \in 1..5 /\ Continue(n)
    <3>1. e.todo \in 1..6 /\ Len(EmbedOrder) = 5
      BY <1>a DEF ExporterStates, EmbedOrder
    <3> QED
      BY <1>11, <3>1 DEF EmbedArtifact
  <2>2. /\ n.pc = e.pc /\ n.report = e.report /\ n.manifest = e.manifest
        /\ n.goal = e.goal /\ n.dir = e.dir /\ n.todo = e.todo + 1 /\ n.emb = w
    BY <1>a DEF ExporterStates, Here
  <2>3. \A i \in 1..5 : EmbedOrder[i] \in OutFiles
    BY DEF EmbedOrder, OutFiles
  <2>4. DOMAIN e.emb = OutFiles
    BY <1>a DEF Directories, OutFiles
  <2>5. ASSUME e.goal = "run", NEW i \in 1..((e.todo + 1) - 1)
        PROVE  w[EmbedOrder[i]] = o[EmbedOrder[i]]
    <3>1. i \in 1..5 /\ (i = e.todo \/ i \in 1..(e.todo - 1))
      BY <2>1, <2>5
    <3>2. i # e.todo => e.emb[EmbedOrder[i]] = o[EmbedOrder[i]]
      BY <1>c, <2>1, <2>5, <3>1 DEF QuietRun
    <3> QED
      BY <2>3, <2>4, <3>1, <3>2
  <2> HIDE DEF f, w, n
  <2>6. e.goal = "run" => QuietRun(n, o, accepted)
    <3>1. e.goal = "run" => \A i \in 1..(n.todo - 1) : n.emb[EmbedOrder[i]] = o[EmbedOrder[i]]
      BY <2>2, <2>5
    <3> QED
      BY <1>c, <2>1, <2>2, <3>1 DEF QuietRun, HasReport, HasManifest, Readings
  <2> QED
    BY <1>e, <2>1, <2>2, <2>6
<1>12. CASE BuildRunBundle
  <2> DEFINE b == [meta |-> Metadata(exporter.report), emb |-> exporter.emb, sealed |-> TRUE]
             l == Append(exporter.loaded, b)
             n == [Resting EXCEPT !.goal = exporter.goal, !.pc = "loaded", !.loaded = l]
  <2>1. e.pc = "embed" /\ Continue(n)
    BY <1>12 DEF BuildRunBundle
  <2>2. n.pc = "loaded" /\ n.goal = e.goal /\ n.loaded = l /\ n.todo = 1
    BY DEF Resting
  <2>3. ASSUME e.goal = "run" PROVE OneRun(b, accepted) /\ l[1] = b
    <3>1. e.todo = 6
      <4>1. e.todo \in 1..6 /\ e.todo > Len(EmbedOrder) /\ Len(EmbedOrder) = 5
        BY <1>12, <1>a DEF BuildRunBundle, ExporterStates, EmbedOrder
      <4> QED
        BY <4>1
    <3>2. e.report \in Summaries /\ e.manifest \in Manifests
      BY <1>a, <2>1 DEF HasReport, HasManifest, Readings
    <3>3. ReportBacked(o, accepted) /\ ManifestBacked(o, accepted)
      BY <1>f, <2>1 DEF Readings
    <3>4. Len(e.loaded) = 0
      BY <1>a, <2>1, <2>3 DEF LoadedAt, Readings
    <3>5. l[1] = b
      BY <1>a, <3>4
    <3>6. QuietRun(e, o, accepted)
      BY <1>c, <2>3
    <3>7. OneRun(b, accepted)
      BY <1>a, <2>1, <3>1, <3>2, <3>3, <3>6, EmbeddedIsOneRun
    <3> QED
      BY <3>5, <3>7
  <2> HIDE DEF b, l, n
  <2>4. n.goal = "run" => QuietRun(n, out[n.dir], accepted)
    BY <2>2, <2>3 DEF QuietRun, HasReport, HasManifest, Readings
  <2> QED
    BY <1>b, <2>1, <2>4, QuietContinue
<1>13. CASE NextInput
  <2> DEFINE pc == IF exporter.goal = "compare" /\ Len(exporter.loaded) = 1 THEN "open" ELSE "write"
             n == [exporter EXCEPT !.pc = pc]
  <2>1. e.pc = "loaded" /\ Continue(n)
    BY <1>13 DEF NextInput
  <2>2. /\ n.pc = pc /\ n.goal = e.goal /\ n.loaded = e.loaded /\ n.dir = e.dir /\ n.todo = e.todo
        /\ (e.goal = "run" => pc = "write")
    BY <1>a DEF ExporterStates
  <2> HIDE DEF n, pc
  <2>3. e.goal = "run" => QuietRun(n, o, accepted)
    BY <1>c, <2>1, <2>2 DEF QuietRun, HasReport, HasManifest, Readings
  <2> QED
    BY <1>e, <2>1, <2>2, <2>3
<1>14. CASE WriteRunBundle
  <2>1. exporter' = Resting /\ bundleFile' = e.loaded[1] /\ e.pc = "write" /\ e.goal = "run"
    BY <1>14 DEF WriteRunBundle
  <2>2. OneRun(e.loaded[1], accepted)
    BY <1>c, <2>1 DEF QuietRun
  <2>3. RunBundlesAgree'
    BY <1>b, <2>1, <2>2 DEF RunBundlesAgree, OneRun
  <2>4. QuietRun(exporter, out[exporter.dir], accepted)'
    BY <2>1 DEF QuietRun, Resting, HasReport, HasManifest, Readings
  <2> QED
    BY <2>3, <2>4 DEF QuietInv
<1>15. CASE WriteComparison \/ ExporterDies
  <2>1. exporter' = Resting /\ bundleFile' \in {bundleFile, Torn}
    BY <1>15 DEF WriteComparison, ExporterDies, Refuse
  <2> QED
    BY <1>d, <2>1
<1> QED
  BY <1>1, <1>2, <1>3, <1>4, <1>5, <1>6, <1>7, <1>8, <1>9, <1>10, <1>11, <1>12, <1>13, <1>14,
     <1>15 DEF ExporterStep, ReadDirectory

LEMMA ExportNextQuiet ==
  ASSUME "run" \in QuietGoals
  PROVE  TypeInv /\ BackedInv /\ FilesStay /\ ExportTypeInv /\ QuietInv /\ [ExportNext]_allVars
           => QuietInv'
<1> SUFFICES ASSUME TypeInv, BackedInv, FilesStay, ExportTypeInv, QuietInv, [ExportNext]_allVars
             PROVE  QuietInv'
  OBVIOUS
<1>1. CASE ExporterStep /\ UNCHANGED vars
  BY <1>1, ExporterStepQuiet
<1>2. CASE /\ ExporterAt("idle") \/ exporter.goal # "run"
           /\ UNCHANGED exportVars
  <2>1. accepted \subseteq accepted'
    BY ExportKeepsVars, AcceptedGrows
  <2>2. RunBundlesAgree'
    BY <1>2, <2>1 DEF exportVars, QuietInv, RunBundlesAgree
  <2>3. exporter.goal = "run" => exporter.todo = 1 /\ exporter.pc = "idle"
    BY <1>2 DEF ExporterAt, QuietInv, QuietRun
  <2>4. (exporter.goal = "run" => QuietRun(exporter, out[exporter.dir], accepted))'
    BY <1>2, <2>3 DEF exportVars, QuietRun, HasReport, HasManifest, Readings
  <2> QED
    BY <2>2, <2>4 DEF QuietInv
<1>3. CASE UNCHANGED allVars
  BY <1>3 DEF allVars, QuietInv, RunBundlesAgree
<1> QED
  BY <1>1, <1>2, <1>3 DEF ExportNext

\* With private output directories, and no verification writing while `run` is
\* exporting: a run bundle holds the report, certificate, manifest, Markdown and
\* logs of one run with an accepted certificate, whatever failed, killed and
\* finished verifications left in the directory (export_workbench_bundle.py:75).
THEOREM RunBundlesOfOneRun ==
  ASSUME PrivateDirs, "run" \in QuietGoals PROVE ExportSpec => []RunBundlesAgree
<1>1. ExportInit => Init
  BY DEF ExportInit
<1>2. ExportSpec => [](TypeInv /\ BackedInv)
  BY <1>1, TypeInit, NextTyped, BackedInit, NextBacked, ExportKeepsVars, PTL DEF ExportSpec
<1>3. ExportSpec => []ExportTypeInv
  BY <1>2, ExportTypeInit, ExportNextTyped, PTL DEF ExportSpec
<1>4. ExportSpec => []FilesStay
  BY <1>2, FilesStayInit, NextKeepsFiles, ExportKeepsVars, PTL DEF ExportSpec
<1>5. ExportSpec => []QuietInv
  BY <1>2, <1>3, <1>4, QuietInit, ExportNextQuiet, PTL DEF ExportSpec
<1>6. QuietInv => RunBundlesAgree
  BY DEF QuietInv
<1> QED
  BY <1>5, <1>6, PTL
=============================================================================
