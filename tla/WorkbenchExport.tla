--------------------------- MODULE WorkbenchExport ---------------------------
(***************************************************************************)
(* tools/export_workbench_bundle.py next to the verification pipeline:     *)
(* `run` packages one output directory as a bundle, `compare` packages two *)
(* runs, each read from a directory or from a bundle file.                 *)
(*                                                                         *)
(* The exporter parses the three JSON artifacts, then reads their bytes to *)
(* compare digests, then reads every artifact again to embed it.  Each of  *)
(* these reads is a step, so a verification that rewrites the directory    *)
(* may come between any two of them.                                       *)
(***************************************************************************)
EXTENDS VerifyRun, Sequences

CONSTANTS
  QuietGoals,      \* the goals during which no verification moves
  Goals,           \* SUBSET {"run", "compare"}: the subcommands issued
  EarlierBundles,  \* bundle files of earlier exports, edited ones included
  MaxExports       \* bound: exports started in a behaviour

VARIABLES
  exporter,        \* the one exporter process
  exports,         \* how many exports were started
  bundleFile,      \* <case>.risu.json
  comparisonFile   \* <case>--vs--<case>.risu-compare.json

exportVars == <<exporter, exports, bundleFile, comparisonFile>>
allVars == <<rev, out, lockFile, run, accepted, exporter, exports, bundleFile, comparisonFile>>

\* PREFERRED: the order in which the artifacts are embedded.
EmbedOrder == <<"report", "cert", "manifest", "markdown", "logs">>

\* The source contract of a certificate stands for its semantic digest.
SourceDigest(report) == Core[report.commit.assurance].contract
Metadata(report) ==
  [id |-> report.id, status |-> report.commit.status, source |-> SourceDigest(report)]

\* `sealed`: every embedded artifact has the size and digest of its descriptor,
\* and the descriptors have the digest artifact_manifest_sha256.
Bundles ==
  [meta : [id : Ids, status : Statuses, source : Contracts], emb : Directories, sealed : BOOLEAN]
Comparisons == [baseline : Bundles, current : Bundles, same : BOOLEAN]

ASSUME ExportConstants ==
  /\ Goals \subseteq {"run", "compare"} /\ QuietGoals \subseteq Goals
  /\ EarlierBundles \subseteq Bundles /\ MaxExports \in Nat
  /\ None \notin Bundles \cup Comparisons /\ Torn \notin Bundles \cup Comparisons

Resting ==
  [pc |-> "idle", goal |-> "run", dir |-> None, report |-> None, manifest |-> None,
   bytes |-> None, todo |-> 1, emb |-> EmptyDirectory, loaded |-> <<>>]

ExportInit ==
  /\ Init
  /\ exporter = Resting
  /\ exports = 0
  /\ bundleFile = None
  /\ comparisonFile = None

ExporterAt(pc) == exporter.pc = pc
Here(f) == out[exporter.dir][f]
Refuse == exporter' = Resting /\ UNCHANGED <<exports, bundleFile, comparisonFile>>
Continue(e) == exporter' = e /\ UNCHANGED <<exports, bundleFile, comparisonFile>>

\* validate_run_bundle.  It binds report.json and certificate.json, and neither
\* report.md nor the logs.
ValidBundle(b) ==
  /\ b.sealed
  /\ b.emb.report \in Summaries
  /\ b.emb.manifest \in Manifests
  /\ b.emb.cert # None
  /\ b.meta = Metadata(b.emb.report)
  /\ b.emb.manifest.report = b.emb.report
  /\ b.emb.manifest.cert = b.emb.cert

-----------------------------------------------------------------------------
StartExport ==
  /\ ExporterAt("idle") /\ exports < MaxExports
  /\ \E goal \in Goals :
       exporter' = [Resting EXCEPT !.pc = "open", !.goal = goal]
  /\ exports' = exports + 1
  /\ UNCHANGED <<bundleFile, comparisonFile>>

\* load_run_input of a bundle file, for one side of a comparison.
LoadBundleFile ==
  /\ ExporterAt("open") /\ exporter.goal = "compare"
  /\ \E b \in (EarlierBundles \cup {bundleFile}) \ {None} :
       IF b \in Bundles /\ ValidBundle(b)
         THEN Continue([exporter EXCEPT !.loaded = Append(@, b), !.pc = "loaded"])
         ELSE Refuse

\* validate_run_dir: the required artifacts exist.
OpenRunDirectory(d) ==
  /\ ExporterAt("open")
  /\ IF \E f \in {"report", "cert", "manifest"} : out[d][f] = None
       THEN Refuse
       ELSE Continue([exporter EXCEPT !.pc = "parse_report", !.dir = d])

ParseReport ==
  /\ ExporterAt("parse_report")
  /\ IF Here("report") \in Summaries
       THEN Continue([exporter EXCEPT !.report = Here("report"), !.pc = "parse_cert"])
       ELSE Refuse

ParseCertificate ==
  /\ ExporterAt("parse_cert")
  /\ IF Here("cert") \in Assurances
       THEN Continue([exporter EXCEPT !.pc = "parse_manifest"])
       ELSE Refuse

ParseManifest ==
  /\ ExporterAt("parse_manifest")
  /\ IF Here("manifest") \in Manifests
       THEN Continue([exporter EXCEPT !.manifest = Here("manifest"), !.pc = "hash_report"])
       ELSE Refuse

\* The bytes of report.json, against the manifest parsed before.
HashReport ==
  /\ ExporterAt("hash_report")
  /\ Continue([exporter EXCEPT !.pc = "hash_cert", !.bytes = Here("report")])

\* Mutant: the certificate is compared with what is declared, not read.
HashCertificateUnread ==
  /\ ExporterAt("hash_cert")
  /\ IF /\ exporter.bytes = exporter.manifest.report
        /\ exporter.report.sha = exporter.manifest.cert
        /\ exporter.manifest.id = exporter.report.id
       THEN Continue([exporter EXCEPT !.pc = "hash_markdown"])
       ELSE Refuse

\* The bytes of certificate.json, and every comparison of the three artifacts.
HashCertificate ==
  /\ ExporterAt("hash_cert")
  /\ IF /\ exporter.bytes = exporter.manifest.report
        /\ Here("cert") = exporter.manifest.cert
        /\ Here("cert") = exporter.report.sha
        /\ exporter.manifest.id = exporter.report.id
       THEN Continue([exporter EXCEPT !.pc = "hash_markdown"])
       ELSE Refuse

\* report.md and the logs are compared when they exist.
HashMarkdown ==
  /\ ExporterAt("hash_markdown")
  /\ IF Here("markdown") \in {None, exporter.manifest.markdown}
       THEN Continue([exporter EXCEPT !.pc = "hash_logs"])
       ELSE Refuse

HashLogs ==
  /\ ExporterAt("hash_logs")
  /\ IF Here("logs") \in {None, exporter.manifest.logs}
       THEN Continue([exporter EXCEPT !.pc = "embed"])
       ELSE Refuse

\* One artifact is read again, into the bundle.
EmbedArtifact ==
  /\ ExporterAt("embed") /\ exporter.todo <= Len(EmbedOrder)
  /\ LET f == EmbedOrder[exporter.todo] IN
       Continue([exporter EXCEPT !.emb[f] = Here(f), !.todo = @ + 1])

\* build_run_bundle: the metadata come from the report parsed at the start.
BuildRunBundle ==
  LET b == [meta |-> Metadata(exporter.report), emb |-> exporter.emb, sealed |-> TRUE] IN
  /\ ExporterAt("embed") /\ exporter.todo > Len(EmbedOrder)
  /\ Continue([Resting EXCEPT !.goal = exporter.goal, !.pc = "loaded",
                 !.loaded = Append(exporter.loaded, b)])

\* The second side of a comparison, or all inputs are loaded.
NextInput ==
  /\ ExporterAt("loaded")
  /\ Continue([exporter EXCEPT !.pc =
       IF exporter.goal = "compare" /\ Len(exporter.loaded) = 1 THEN "open" ELSE "write"])

WriteRunBundle ==
  /\ ExporterAt("write") /\ exporter.goal = "run"
  /\ bundleFile' = exporter.loaded[1]
  /\ exporter' = Resting
  /\ UNCHANGED <<exports, comparisonFile>>

\* Mutant: the loaded bundles are not validated once more.
WriteComparisonUnvalidated ==
  LET b == exporter.loaded[1]
      c == exporter.loaded[2] IN
  /\ ExporterAt("write") /\ exporter.goal = "compare"
  /\ comparisonFile' = [baseline |-> b, current |-> c, same |-> b.meta.source = c.meta.source]
  /\ exporter' = Resting
  /\ UNCHANGED <<exports, bundleFile>>

\* build_comparison_bundle: both bundles are validated as a consumer would, and
\* compared by the reports embedded in them.
WriteComparison ==
  LET b == exporter.loaded[1]
      c == exporter.loaded[2] IN
  /\ ExporterAt("write") /\ exporter.goal = "compare"
  /\ IF ValidBundle(b) /\ ValidBundle(c)
       THEN /\ comparisonFile' =
                 [baseline |-> b, current |-> c,
                  same |-> SourceDigest(b.emb.report) = SourceDigest(c.emb.report)]
            /\ exporter' = Resting
            /\ UNCHANGED <<exports, bundleFile>>
       ELSE Refuse

\* The exporter dies; the file it was writing may be left cut short.
ExporterDies ==
  /\ ~ExporterAt("idle")
  /\ exporter' = Resting
  /\ IF ExporterAt("write")
       THEN \/ exporter.goal = "run" /\ bundleFile' = Torn /\ UNCHANGED comparisonFile
            \/ exporter.goal = "compare" /\ comparisonFile' = Torn /\ UNCHANGED bundleFile
       ELSE UNCHANGED <<bundleFile, comparisonFile>>
  /\ UNCHANGED exports

ReadDirectory ==
  \/ \E d \in Dirs : OpenRunDirectory(d)
  \/ ParseReport \/ ParseCertificate \/ ParseManifest
  \/ HashReport \/ HashCertificate \/ HashMarkdown \/ HashLogs
  \/ EmbedArtifact

ExporterStep ==
  \/ StartExport \/ LoadBundleFile \/ ReadDirectory \/ BuildRunBundle
  \/ NextInput \/ WriteRunBundle \/ WriteComparison \/ ExporterDies

\* Bound: an invocation is killed before an export and not during one, when it
\* looks to the exporter like a slow one.
NobodyKilled == \A p \in Runs : run'[p].pc = "idle" => run[p].pc = "idle"

ExportNext ==
  \/ ExporterStep /\ UNCHANGED vars
  \/ /\ ExporterAt("idle") \/ exporter.goal \notin QuietGoals
     /\ exports < MaxExports \/ ~ExporterAt("idle")   \* bound: nothing to see later
     /\ Next /\ UNCHANGED exportVars
     /\ ExporterAt("idle") \/ NobodyKilled

ExportSpec == ExportInit /\ [][ExportNext]_allVars
-----------------------------------------------------------------------------
(* Properties *)

\* The report is the one the manifest hashed, about the certificate the manifest
\* names, with the status of that certificate.
Agree(b) ==
  /\ b.emb.report \in Summaries /\ b.emb.manifest \in Manifests
  /\ b.meta = Metadata(b.emb.report)
  /\ b.emb.manifest.id = b.emb.report.id
  /\ b.emb.manifest.report = b.emb.report
  /\ b.emb.manifest.cert = b.emb.cert
  /\ b.emb.report.sha = b.emb.cert
  /\ b.emb.report.commit = [assurance |-> b.emb.cert, status |-> Classify(b.emb.cert)]

\* A bundle `run` wrote holds the artifacts of one run, the Markdown report and
\* the logs included, also when the directory holds what a failed, a killed and
\* a finished verification left there (docs/WORKBENCH_HANDOFF.md:24).
RunBundlesAgree ==
  bundleFile \in Bundles =>
    /\ Agree(bundleFile)
    /\ bundleFile.emb.cert \in accepted
    /\ bundleFile.emb.markdown = bundleFile.emb.report
    /\ bundleFile.emb.logs = bundleFile.emb.cert

\* The report, certificate and manifest `run` embeds agree (the three artifacts
\* docs/WORKBENCH_HANDOFF.md:24 names).
RunBundlesBind == bundleFile \in Bundles => Agree(bundleFile)

\* validate_run_bundle checks digests and what the manifest binds; it cannot tell a
\* bundle that was rewritten throughout.  Of the bundle files it accepts:
EarlierBundlesAgree == \A b \in EarlierBundles : ValidBundle(b) => Agree(b)

\* A comparison embeds two runs that each agree, whatever verification rewrote
\* the directories meanwhile and whatever bundle file with a broken binding it was
\* given (see EarlierBundlesAgree), and it says
\* SAME_DECLARED_SOURCE_SEMANTICS exactly when the two embedded certificates
\* were made from the same source contract.
ComparisonsAgree ==
  comparisonFile \in Comparisons =>
    LET b == comparisonFile.baseline
        c == comparisonFile.current IN
      /\ \A side \in {b, c} : Agree(side) /\ (side \in EarlierBundles \/ side.emb.cert \in accepted)
      /\ comparisonFile.same <=> Core[b.emb.cert].contract = Core[c.emb.cert].contract
=============================================================================
