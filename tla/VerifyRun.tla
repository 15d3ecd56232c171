------------------------------ MODULE VerifyRun ------------------------------
(***************************************************************************)
(* The verification pipeline of src/risu_verify.py: `verify`, `lock` and   *)
(* `check` invocations that gate a case, let the frozen core produce and   *)
(* check a certificate, derive the product status, write the run artifacts *)
(* and create or compare the semantic lock.                                *)
(*                                                                         *)
(* Every invocation re-reads the working tree and the output directory at  *)
(* each step, so the steps are separate actions: other invocations, an     *)
(* author who moves the checkout to another revision, and crashes come in  *)
(* between.  A digest is represented by the content it is a digest of.     *)
(***************************************************************************)
EXTENDS Integers

CONSTANTS
  Runs,          \* command-line invocations that may be active at once
  Dirs,          \* output directories
  Dir,           \* [Runs -> Dirs]: the --output (or default output) of a run
  Revs,          \* revisions the checkout of the project can be at
  Case,          \* [Revs -> Cases]: what a revision contains, see Cases
  Assurances,    \* contents of an assurance directory; also names the
                 \* certificate the (deterministic) producer makes from it
  Core,          \* [Assurances -> CoreFacts]: what the frozen core does with it
  Pins,          \* SHA-256 pins of predeclaration and provenance files
  Ids,           \* case identifiers
  Contracts,     \* source-contract files
  Commands,      \* [Runs -> SUBSET {"verify", "lock", "check"}]: the subcommands issued
  Killable,      \* the runs that may die half way
  ForeignLocks,  \* lock files the tool did not write (edited, merged, old)
  EditsDuringRun,\* may the checkout move while an invocation is active?
  None, Torn     \* an absent file or value; a file cut short by a crash

Regression == "CONSEQUENCE_REGRESSION"
Incomplete == "INCOMPLETE_ASSURANCE"
Preserving == {"PRESERVED", "PRESERVED_IN_DECLARED_SCOPE"}
Statuses   == Preserving \cup {Regression, Incomplete}

Gate         == "PRESERVATION_GATE"
Reproduction == "RESEARCH_REPRODUCTION"

Ok == 0
ExitRegression == 10
ExitIncomplete == 20
ExitInvalid == 30
ExitLockMismatch == 40
Traceback == 1   \* an exception no handler catches
NoExit == -1
Exits == {NoExit, Ok, Traceback, ExitRegression, ExitIncomplete, ExitInvalid, ExitLockMismatch}

\* case.json with its pins, the files the pins are about, and the core pin.
Cases ==
  [id : Ids, corePinned : BOOLEAN, adapter : BOOLEAN, assurance : Assurances,
   prePin : Pins \cup {None}, preFile : Pins \cup {None},
   provPin : Pins \cup {None}, provFile : Pins \cup {None}, provPass : BOOLEAN]

\* The producer "rejects" after writing a certificate or "errs" before it;
\* `sound` is what the independent consumer's own recomputation finds.
CoreFacts ==
  [producer : {"accepts", "rejects", "errs"}, sound : BOOLEAN,
   contract : Contracts,
   exact : {"CONTRADICTED", "ESTABLISHED", "UNKNOWN"}, c1d1o1 : BOOLEAN,
   coverage : BOOLEAN]

Commits == [assurance : Assurances, status : Statuses]
PinPair == [pre : Pins \cup {None}, prov : Pins \cup {None}]
Summaries == [id : Ids, commit : Commits, sha : Assurances \cup {Torn}, pins : PinPair]
Manifests ==
  [id : Ids, assurance : Assurances, pins : PinPair, cert : Assurances \cup {Torn},
   report : Summaries \cup {None, Torn}, markdown : Summaries \cup {None, Torn},
   logs : Assurances \cup {None, Torn}]
Locks ==
  [version : {"0.1", "0.2", "other"}, id : Ids, policy : {Gate, Reproduction, "other"},
   commit : Commits, commitSealed : BOOLEAN, pins : PinPair, pinsSealed : BOOLEAN]

OutFiles == {"cert", "logs", "report", "markdown", "manifest"}
Pcs == {"idle", "open", "provenance", "predeclaration", "consume", "load", "digest",
        "decide", "lock", "done"} \cup OutFiles

ASSUME ConstantsTyped ==
  /\ Dir \in [Runs -> Dirs]
  /\ Case \in [Revs -> Cases]
  /\ Core \in [Assurances -> CoreFacts]
  /\ Commands \in [Runs -> SUBSET {"verify", "lock", "check"}]
  /\ Killable \subseteq Runs
  /\ ForeignLocks \subseteq Locks
  /\ EditsDuringRun \in BOOLEAN
  /\ None \notin Assurances \cup Pins \cup Revs \cup Summaries \cup Manifests \cup Locks
  /\ Torn \notin Assurances \cup Summaries \cup Manifests \cup Locks
  /\ None # Torn

VARIABLES
  rev,       \* the revision the checkout is at
  out,       \* out[d][f]: the artifact files of output directory d
  lockFile,  \* risu.lock.json
  run,       \* the state of each invocation
  accepted   \* history: the certificates the consumer has accepted

vars == <<rev, out, lockFile, run, accepted>>

Fresh ==
  [pc |-> "idle", cmd |-> "verify", allow |-> FALSE, meta |-> None, checked |-> None,
   cert |-> None, sha |-> None, seen |-> None, exit |-> NoExit]

RunStates ==
  [pc : Pcs, cmd : {"verify", "lock", "check"}, allow : BOOLEAN, meta : Revs \cup {None},
   checked : Assurances \cup {None}, cert : Assurances \cup {None},
   sha : Assurances \cup {None, Torn}, seen : Locks \cup {None}, exit : Exits]

Directories ==
  [cert : Assurances \cup {None, Torn}, logs : Assurances \cup {None, Torn},
   report : Summaries \cup {None, Torn}, markdown : Summaries \cup {None, Torn},
   manifest : Manifests \cup {None, Torn}]

EmptyDirectory == [f \in OutFiles |-> None]

Init ==
  /\ rev \in Revs
  /\ out = [d \in Dirs |-> EmptyDirectory]
  /\ lockFile \in ForeignLocks \cup {None}
  /\ run = [p \in Runs |-> Fresh]
  /\ accepted = {}

-----------------------------------------------------------------------------
\* The product status of a certificate, and its exit code.
Classify(a) ==
  IF Core[a].exact = "CONTRADICTED" THEN Regression
  ELSE IF Core[a].exact = "ESTABLISHED" /\ Core[a].c1d1o1
       THEN IF Core[a].coverage THEN "PRESERVED" ELSE "PRESERVED_IN_DECLARED_SCOPE"
       ELSE Incomplete

\* Mutant: only the preserving statuses have an exit code.
SemanticExitPartial(status) == IF status \in Preserving THEN Ok ELSE NoExit

SemanticExit(status) ==
  IF status = Regression THEN ExitRegression
  ELSE IF status \in Preserving THEN Ok ELSE ExitIncomplete

MetaPins(r) == [pre |-> Case[r].prePin, prov |-> Case[r].provPin]

\* The report of a run: its commitments come from the certificate it parsed,
\* its certificate digest from a second read of the same path.
Summary(s) ==
  [id |-> Case[s.meta].id,
   commit |-> [assurance |-> s.cert, status |-> Classify(s.cert)],
   sha |-> s.sha, pins |-> MetaPins(s.meta)]

\* Mutant: the lock does not commit the predeclaration pin.
MakeLockNoPredeclaration(s) ==
  [version |-> "0.2", id |-> s.id,
   policy |-> IF s.commit.status \in Preserving THEN Gate ELSE Reproduction,
   commit |-> s.commit, commitSealed |-> TRUE,
   pins |-> [s.pins EXCEPT !.pre = None], pinsSealed |-> TRUE]

MakeLock(s) ==
  [version |-> "0.2", id |-> s.id,
   policy |-> IF s.commit.status \in Preserving THEN Gate ELSE Reproduction,
   commit |-> s.commit, commitSealed |-> TRUE, pins |-> s.pins, pinsSealed |-> TRUE]

\* Mutant: the policy of the lock is not compared with its status.
LockMatchesAnyPolicy(s, l) ==
  /\ l.version \in {"0.1", "0.2"}
  /\ l.id = s.id /\ l.commit = s.commit /\ l.commitSealed
  /\ l.version = "0.2" => l.pins = s.pins /\ l.pinsSealed

\* compare_lock finds no problem.
LockMatches(s, l) ==
  /\ l.version \in {"0.1", "0.2"}
  /\ l.id = s.id
  /\ l.commit = s.commit
  /\ l.commitSealed
  /\ l.version = "0.2" =>
       /\ l.policy \in {Gate, Reproduction}
       /\ l.policy = Gate => l.commit.status \in Preserving
       /\ l.pins = s.pins
       /\ l.pinsSealed

\* verify_case_provenance and verify_predeclaration: no pin, or the file read
\* now has the digest case.json pinned when it was resolved.
ProvenanceHolds(meta, now) ==
  \/ Case[meta].provPin = None
  \/ Case[now].provFile = Case[meta].provPin /\ Case[now].provPass

PredeclarationHolds(meta, now) ==
  \/ Case[meta].prePin = None
  \/ Case[now].preFile = Case[meta].prePin

\* The consumer recomputes the certificate and compares its embedded source
\* contract with the one under the assurance root now.
ConsumerAccepts(a, now) ==
  /\ Core[a].sound
  /\ Core[a].contract = Core[Case[now].assurance].contract

-----------------------------------------------------------------------------
At(p, pc) == run[p].pc = pc
Goto(p, pc) == run' = [run EXCEPT ![p].pc = pc]
ExitWith(p, code) == run' = [run EXCEPT ![p].pc = "done", ![p].exit = code]
Write(p, f, content) == out' = [out EXCEPT ![Dir[p]][f] = content]
Artifact(p, f) == out[Dir[p]][f]

\* A new invocation on the command line.
Invoke(p) ==
  /\ run[p].pc \in {"idle", "done"}
  /\ \E cmd \in Commands[p], allow \in BOOLEAN :
       /\ allow => cmd = "lock"
       /\ run' = [run EXCEPT ![p] = [Fresh EXCEPT !.pc = "open", !.cmd = cmd, !.allow = allow]]
  /\ UNCHANGED <<rev, out, lockFile, accepted>>

\* verify_core_pin and resolve_case.
Open(p) ==
  /\ At(p, "open")
  /\ IF Case[rev].corePinned /\ Case[rev].adapter
       THEN run' = [run EXCEPT ![p].pc = "provenance", ![p].meta = rev]
       ELSE ExitWith(p, ExitInvalid)
  /\ UNCHANGED <<rev, out, lockFile, accepted>>

VerifyCaseProvenance(p) ==
  /\ At(p, "provenance")
  /\ IF ProvenanceHolds(run[p].meta, rev)
       THEN Goto(p, "predeclaration")
       ELSE ExitWith(p, ExitInvalid)
  /\ UNCHANGED <<rev, out, lockFile, accepted>>

VerifyPredeclaration(p) ==
  /\ At(p, "predeclaration")
  /\ IF PredeclarationHolds(run[p].meta, rev)
       THEN Goto(p, "cert")
       ELSE ExitWith(p, ExitInvalid)
  /\ UNCHANGED <<rev, out, lockFile, accepted>>

\* The producer writes certificate.json over whatever the directory holds; the
\* wrapper goes on only if it exits 0.
Produce(p) ==
  LET a == Case[rev].assurance IN
  /\ At(p, "cert")
  /\ IF Core[a].producer = "errs" \/ ~Case[rev].adapter
       THEN ExitWith(p, ExitInvalid) /\ UNCHANGED out
       ELSE /\ Write(p, "cert", a)
            /\ IF Core[a].producer = "accepts"
                 THEN Goto(p, "consume")
                 ELSE ExitWith(p, ExitInvalid)
  /\ UNCHANGED <<rev, lockFile, accepted>>

\* Mutants: the consumer's exit code is ignored; a refusal is not handled.
ConsumeUnchecked(p) ==
  /\ At(p, "consume")
  /\ Goto(p, "logs")
  /\ UNCHANGED <<rev, out, lockFile, accepted>>

ConsumeOnlyAccepts(p) ==
  LET c == Artifact(p, "cert") IN
  /\ At(p, "consume")
  /\ c \in Assurances /\ ConsumerAccepts(c, rev)
  /\ run' = [run EXCEPT ![p].pc = "logs", ![p].checked = c]
  /\ accepted' = accepted \cup {c}
  /\ UNCHANGED <<rev, out, lockFile>>

\* The independent consumer reads certificate.json back from the directory.
Consume(p) ==
  LET c == Artifact(p, "cert") IN
  /\ At(p, "consume")
  /\ \/ /\ c \in Assurances
        /\ ConsumerAccepts(c, rev)
        /\ run' = [run EXCEPT ![p].pc = "logs", ![p].checked = c]
        /\ accepted' = accepted \cup {c}
     \/ /\ ~(c \in Assurances /\ ConsumerAccepts(c, rev))
        /\ ExitWith(p, ExitInvalid)
        /\ UNCHANGED accepted
  /\ UNCHANGED <<rev, out, lockFile>>

WriteLogs(p) ==
  /\ At(p, "logs")
  /\ Write(p, "logs", run[p].checked)
  /\ Goto(p, "load")
  /\ UNCHANGED <<rev, lockFile, accepted>>

\* cert = read_json(certificate): a second read, after the consumer's.
LoadCertificate(p) ==
  LET c == Artifact(p, "cert") IN
  /\ At(p, "load")
  /\ IF c \in Assurances
       THEN run' = [run EXCEPT ![p].pc = "digest", ![p].cert = c]
       ELSE ExitWith(p, Traceback)
  /\ UNCHANGED <<rev, out, lockFile, accepted>>

\* cert_sha = sha256_file(certificate): a third read, of the bytes as they are.
DigestCertificate(p) ==
  LET c == Artifact(p, "cert") IN
  /\ At(p, "digest")
  /\ IF c # None
       THEN run' = [run EXCEPT ![p].pc = "report", ![p].sha = c]
       ELSE ExitWith(p, Traceback)
  /\ UNCHANGED <<rev, out, lockFile, accepted>>

WriteReport(p) ==
  /\ At(p, "report")
  /\ Write(p, "report", Summary(run[p]))
  /\ Goto(p, "markdown")
  /\ UNCHANGED <<rev, lockFile, accepted>>

\* Mutant: an existing Markdown report is kept.
WriteMarkdownOnce(p) ==
  /\ At(p, "markdown")
  /\ IF Artifact(p, "markdown") = None
       THEN Write(p, "markdown", Summary(run[p])) ELSE UNCHANGED out
  /\ Goto(p, "manifest")
  /\ UNCHANGED <<rev, lockFile, accepted>>

WriteMarkdown(p) ==
  /\ At(p, "markdown")
  /\ Write(p, "markdown", Summary(run[p]))
  /\ Goto(p, "manifest")
  /\ UNCHANGED <<rev, lockFile, accepted>>

\* Mutant: an existing run manifest is kept.
WriteManifestOnce(p) ==
  /\ At(p, "manifest")
  /\ IF Artifact(p, "manifest") = None
       THEN Write(p, "manifest",
              [id |-> Case[run[p].meta].id, assurance |-> Case[rev].assurance,
               pins |-> MetaPins(run[p].meta), cert |-> run[p].sha,
               report |-> Artifact(p, "report"), markdown |-> Artifact(p, "markdown"),
               logs |-> Artifact(p, "logs")])
       ELSE UNCHANGED out
  /\ Goto(p, "decide")
  /\ UNCHANGED <<rev, lockFile, accepted>>

\* The manifest hashes the case files and the artifacts as they are on disk now;
\* a missing adapter is an uncaught FileNotFoundError.
WriteManifest(p) ==
  /\ At(p, "manifest")
  /\ IF Case[rev].adapter
       THEN /\ Write(p, "manifest",
                 [id |-> Case[run[p].meta].id, assurance |-> Case[rev].assurance,
                  pins |-> MetaPins(run[p].meta), cert |-> run[p].sha,
                  report |-> Artifact(p, "report"), markdown |-> Artifact(p, "markdown"),
                  logs |-> Artifact(p, "logs")])
            /\ Goto(p, "decide")
       ELSE ExitWith(p, Traceback) /\ UNCHANGED out
  /\ UNCHANGED <<rev, lockFile, accepted>>

VerifyExit(p) ==
  /\ At(p, "decide") /\ run[p].cmd = "verify"
  /\ ExitWith(p, SemanticExit(Classify(run[p].cert)))
  /\ UNCHANGED <<rev, out, lockFile, accepted>>

\* Mutant: --accept-regression is not asked for.
ApproveLockAlways(p) ==
  /\ At(p, "decide") /\ run[p].cmd = "lock"
  /\ IF ~Case[rev].adapter THEN ExitWith(p, ExitInvalid) ELSE Goto(p, "lock")
  /\ UNCHANGED <<rev, out, lockFile, accepted>>

\* cmd_lock up to the write: a non-preserving status needs explicit acceptance,
\* and the case is resolved a second time.
ApproveLock(p) ==
  /\ At(p, "decide") /\ run[p].cmd = "lock"
  /\ IF Classify(run[p].cert) \notin Preserving /\ ~run[p].allow
       THEN ExitWith(p, ExitRegression)
       ELSE IF ~Case[rev].adapter THEN ExitWith(p, ExitInvalid) ELSE Goto(p, "lock")
  /\ UNCHANGED <<rev, out, lockFile, accepted>>

WriteLock(p) ==
  /\ At(p, "lock")
  /\ lockFile' = MakeLock(Summary(run[p]))
  /\ ExitWith(p, Ok)
  /\ UNCHANGED <<rev, out, accepted>>

\* cmd_check after perform_verify.
CheckLock(p) ==
  /\ At(p, "decide") /\ run[p].cmd = "check"
  /\ run' = [run EXCEPT ![p].pc = "done",
               ![p].seen = IF lockFile \in Locks /\ Case[rev].adapter THEN lockFile ELSE None,
               ![p].exit = IF ~Case[rev].adapter THEN ExitInvalid
                           ELSE IF lockFile = None THEN ExitLockMismatch
                           ELSE IF lockFile = Torn THEN Traceback
                           ELSE IF LockMatches(Summary(run[p]), lockFile) THEN Ok
                           ELSE ExitLockMismatch]
  /\ UNCHANGED <<rev, out, lockFile, accepted>>

\* The process dies; a file it was writing may be left cut short.
Crash(p) ==
  /\ p \in Killable
  /\ run[p].pc \notin {"idle", "done"}
  /\ run' = [run EXCEPT ![p] = Fresh]
  /\ \/ UNCHANGED <<out, lockFile>>
     \/ run[p].pc \in OutFiles /\ Write(p, run[p].pc, Torn) /\ UNCHANGED lockFile
     \/ At(p, "lock") /\ lockFile' = Torn /\ UNCHANGED out
  /\ UNCHANGED <<rev, accepted>>

\* The author's side: another revision is checked out, a lock file is edited.
Checkout ==
  /\ EditsDuringRun \/ \A p \in Runs : run[p].pc \in {"idle", "done"}
  /\ rev' \in Revs \ {rev}
  /\ UNCHANGED <<out, lockFile, run, accepted>>

EditLock ==
  /\ lockFile' \in (ForeignLocks \cup {None}) \ {lockFile}
  /\ UNCHANGED <<rev, out, run, accepted>>

Step(p) ==
  \/ Open(p) \/ VerifyCaseProvenance(p) \/ VerifyPredeclaration(p)
  \/ Produce(p) \/ Consume(p) \/ WriteLogs(p)
  \/ LoadCertificate(p) \/ DigestCertificate(p)
  \/ WriteReport(p) \/ WriteMarkdown(p) \/ WriteManifest(p)
  \/ VerifyExit(p) \/ ApproveLock(p) \/ WriteLock(p) \/ CheckLock(p)

Next ==
  \/ \E p \in Runs : Invoke(p) \/ Step(p) \/ Crash(p)
  \/ Checkout
  \/ EditLock

Spec == Init /\ [][Next]_vars

\* The operating system keeps running a started process.
FairSpec == Spec /\ \A p \in Runs : WF_vars(Step(p))
-----------------------------------------------------------------------------
(* Properties *)

TypeOK ==
  /\ rev \in Revs
  /\ out \in [Dirs -> Directories]
  /\ lockFile \in Locks \cup {None, Torn}
  /\ run \in [Runs -> RunStates]
  /\ \A p \in Runs : run[p].pc = "done" <=> run[p].exit # NoExit
  /\ accepted \subseteq Assurances

\* No two invocations write to the same output directory.
PrivateDirs == \A p, q \in Runs : Dir[p] = Dir[q] => p = q

\* The report in every directory states the status of a certificate that the
\* independent consumer accepted, and names the digest of that certificate
\* (risu_verify.py re-reads certificate.json twice after the consumer did).
ReportsBacked ==
  \A d \in Dirs : out[d].report \in Summaries =>
    LET s == out[d].report IN
      /\ s.commit.assurance \in accepted
      /\ s.commit.status = Classify(s.commit.assurance)
      /\ s.sha = s.commit.assurance

\* A run manifest that can be read describes one run: the report, Markdown and
\* logs it hashed and the certificate digest it records belong together, also
\* when earlier runs failed or crashed half way through the same directory.
ManifestCoherent ==
  \A d \in Dirs : out[d].manifest \in Manifests =>
    LET m == out[d].manifest IN
      /\ m.report \in Summaries
      /\ m.report.id = m.id /\ m.report.sha = m.cert
      /\ m.markdown = m.report
      /\ m.logs = m.cert
      /\ m.cert \in accepted

\* A run that ends with a semantic or lock exit code passed every gate, on one
\* revision: the certificate it classified is the consumer-checked one, made
\* from the revision whose core pin, provenance and predeclaration were checked;
\* and its directory holds exactly the artifacts its manifest records, with the
\* digests of the inputs of that revision, whatever crashed or failed there before.
\* It needs the checkout not to move under a run (EditsDuringRun is FALSE).
SemanticExitIsWarranted ==
  \A p \in Runs :
    run[p].pc = "done" /\ run[p].exit \in {Ok, ExitRegression, ExitIncomplete, ExitLockMismatch} =>
      LET m == run[p].meta
          o == out[Dir[p]] IN
        /\ Case[m].corePinned
        /\ ProvenanceHolds(m, m)
        /\ PredeclarationHolds(m, m)
        /\ run[p].cert = Case[m].assurance
        /\ run[p].cert = run[p].checked
        /\ Core[run[p].cert].producer = "accepts" /\ Core[run[p].cert].sound
        /\ o.report = Summary(run[p])
        /\ o.manifest =
             [id |-> Case[m].id, cert |-> o.cert, report |-> o.report, markdown |-> o.markdown,
              logs |-> o.logs, assurance |-> run[p].cert, pins |-> MetaPins(m)]

\* `check` reports MATCH only when the lock commits the certificate the consumer
\* accepted in this very run, with the pins this run verified; and a
\* PRESERVATION_GATE lock is matched by preserving results alone, however the
\* lock file came about.
MatchIsBacked ==
  \A p \in Runs :
    run[p].pc = "done" /\ run[p].cmd = "check" /\ run[p].exit = Ok =>
      LET l == run[p].seen IN
        /\ l.id = Case[run[p].meta].id
        /\ l.commit = [assurance |-> run[p].checked, status |-> Classify(run[p].checked)]
        /\ l.version = "0.2" => l.pins = MetaPins(run[p].meta)
        /\ l.version = "0.2" /\ l.policy = Gate => Classify(run[p].checked) \in Preserving

\* A lock the tool would write for this very result is never reported as a
\* mismatch: make_lock and compare_lock agree.
NoSpuriousMismatch ==
  \A p \in Runs :
    run[p].pc = "done" /\ run[p].cmd = "check" /\ run[p].exit = ExitLockMismatch =>
      run[p].seen # MakeLock(Summary(run[p]))

\* A step that writes the lock commits a certificate the consumer accepted in
\* that invocation; it is a PRESERVATION_GATE exactly for a preserving status,
\* and a non-preserving baseline needs --accept-regression.
LockWritesBacked ==
  [][\A p \in Runs :
       run[p].pc = "lock" /\ run'[p].pc = "done" =>
         /\ lockFile'.commit.assurance = run[p].checked
         /\ lockFile'.commit.assurance \in accepted
         /\ lockFile'.policy = Gate <=> Classify(run[p].checked) \in Preserving
         /\ lockFile'.policy = Reproduction => run[p].allow]_vars

\* Every invocation that is not killed comes to an exit code.
EveryRunEnds == \A p \in Runs : run[p].pc = "open" ~> run[p].pc \in {"done", "idle"}
=============================================================================
