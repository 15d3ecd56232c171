--------------------------- MODULE VerifyRun_proofs ---------------------------
(***************************************************************************)
(* Proofs about VerifyRun for every set of runs, directories, revisions    *)
(* and locks:                                                              *)
(*   - TypeInv: type correctness, with what an invocation has already read *)
(*     at each program counter;                                            *)
(*   - BackedInv: what a run wrote is there when it goes back to read it;  *)
(*   - WarrantInv: what each program counter has established of the one    *)
(*     revision a run works on;                                            *)
(*   - make_lock and compare_lock agree;                                   *)
(*   - the refinement of AssuranceGate.                                    *)
(***************************************************************************)
EXTENDS VerifyRunRefines, TLAPS

AfterDigest  == {"report", "markdown", "manifest", "decide", "lock"}
AfterLoad    == AfterDigest \cup {"digest"}
AfterConsume == AfterLoad \cup {"logs", "load"}
AfterOpen    == AfterConsume \cup {"provenance", "predeclaration", "cert", "consume"}

ReadSoFar ==
  \A p \in Runs :
    /\ run[p].pc \in AfterOpen => run[p].meta \in Revs
    /\ run[p].pc \in AfterConsume => run[p].checked \in Assurances
    /\ run[p].pc \in AfterLoad => run[p].cert \in Assurances
    /\ run[p].pc \in AfterDigest => run[p].sha \in Assurances \cup {Torn}

TypeInv == TypeOK /\ ReadSoFar

\* The status of a certificate is a product status, its exit code an exit code.
LEMMA ClassifyTyped ==
  ASSUME NEW a \in Assurances
  PROVE  /\ Classify(a) \in Statuses
         /\ SemanticExit(Classify(a)) \in Exits \ {NoExit}
<1>1. Core[a] \in CoreFacts
  BY ConstantsTyped
<1>2. Classify(a) \in Statuses
  BY <1>1 DEF Classify, CoreFacts, Statuses, Preserving, Regression, Incomplete
<1>3. SemanticExit(Classify(a)) \in {ExitRegression, Ok, ExitIncomplete}
  BY <1>2 DEF SemanticExit
<1> QED
  BY <1>2, <1>3 DEF Exits, NoExit, ExitRegression, Ok, ExitIncomplete

LEMMA PinsTyped ==
  ASSUME NEW r \in Revs
  PROVE  MetaPins(r) \in PinPair /\ Case[r].id \in Ids /\ Case[r].assurance \in Assurances
BY ConstantsTyped DEF Cases, MetaPins, PinPair

\* What a run past its certificate reads can write is a report and a lock.
LEMMA SummaryTyped ==
  ASSUME NEW s, s.meta \in Revs, s.cert \in Assurances, s.sha \in Assurances \cup {Torn}
  PROVE  /\ Summary(s) \in Summaries
         /\ MakeLock(Summary(s)) \in Locks
<1> DEFINE S == Summary(s)
<1>1. MetaPins(s.meta) \in PinPair /\ Case[s.meta].id \in Ids
  BY PinsTyped
<1>2. Classify(s.cert) \in Statuses
  BY ClassifyTyped
<1>3. S \in Summaries
  BY <1>1, <1>2 DEF Summary, Summaries, Commits
<1>4. S.id \in Ids /\ S.commit \in Commits /\ S.pins \in PinPair
  BY <1>3 DEF Summaries
<1>5. MakeLock(S) \in Locks
  BY <1>4 DEF MakeLock, Locks
<1> QED
  BY <1>3, <1>5

\* The type invariant, with what has been read so far, is inductive.
LEMMA TypeInit == Init => TypeInv
<1> SUFFICES ASSUME Init PROVE TypeInv
  OBVIOUS
<1>1. Fresh \in RunStates
  BY DEF Fresh, RunStates, Pcs, Exits, NoExit
<1>2. EmptyDirectory \in Directories
  BY DEF EmptyDirectory, Directories, OutFiles
<1>3. TypeOK
  BY <1>1, <1>2, ConstantsTyped DEF Init, TypeOK, Fresh
<1>4. ReadSoFar
  BY DEF Init, ReadSoFar, Fresh, AfterOpen, AfterConsume, AfterLoad, AfterDigest
<1> QED
  BY <1>3, <1>4 DEF TypeInv

\* An artifact of a run's own directory has the type of that file.
LEMMA ArtifactTyped ==
  ASSUME TypeOK, NEW p \in Runs
  PROVE  /\ Dir[p] \in Dirs
         /\ Artifact(p, "cert") \in Assurances \cup {None, Torn}
         /\ Artifact(p, "logs") \in Assurances \cup {None, Torn}
         /\ Artifact(p, "report") \in Summaries \cup {None, Torn}
         /\ Artifact(p, "markdown") \in Summaries \cup {None, Torn}
BY ConstantsTyped DEF TypeOK, Artifact, Directories

\* Writing one artifact file leaves the directories typed.
LEMMA WriteTyped ==
  ASSUME TypeOK, NEW p \in Runs, NEW f \in OutFiles, NEW x, Write(p, f, x),
         f \in {"cert", "logs"} => x \in Assurances \cup {None, Torn},
         f \in {"report", "markdown"} => x \in Summaries \cup {None, Torn},
         f = "manifest" => x \in Manifests \cup {None, Torn}
  PROVE  out' \in [Dirs -> Directories]
<1> DEFINE d == Dir[p]
<1>1. d \in Dirs /\ out[d] \in Directories
  BY ConstantsTyped DEF TypeOK
<1>2. out' = [out EXCEPT ![d] = [out[d] EXCEPT ![f] = x]]
  BY DEF Write
<1>3. [out[d] EXCEPT ![f] = x] \in Directories
  <2>1. CASE f = "cert"
    BY <1>1, <2>1 DEF Directories
  <2>2. CASE f = "logs"
    BY <1>1, <2>2 DEF Directories
  <2>3. CASE f = "report"
    BY <1>1, <2>3 DEF Directories
  <2>4. CASE f = "markdown"
    BY <1>1, <2>4 DEF Directories
  <2>5. CASE f = "manifest"
    BY <1>1, <2>5 DEF Directories
  <2> QED
    BY <2>1, <2>2, <2>3, <2>4, <2>5 DEF OutFiles
<1> QED
  BY <1>1, <1>2, <1>3 DEF TypeOK

\* The invocations stay typed and keep what they have read when only the run p
\* changes, to a record that is typed and has read what its counter requires.
RunTyped(r) ==
  /\ r \in RunStates
  /\ r.pc = "done" <=> r.exit # NoExit
  /\ r.pc \in AfterOpen => r.meta \in Revs
  /\ r.pc \in AfterConsume => r.checked \in Assurances
  /\ r.pc \in AfterLoad => r.cert \in Assurances
  /\ r.pc \in AfterDigest => r.sha \in Assurances \cup {Torn}

RunsTyped == run \in [Runs -> RunStates] /\ \A p \in Runs : RunTyped(run[p])

LEMMA TypeInvSplit ==
  TypeInv <=> /\ rev \in Revs
              /\ out \in [Dirs -> Directories]
              /\ lockFile \in Locks \cup {None, Torn}
              /\ RunsTyped
              /\ accepted \subseteq Assurances
BY DEF TypeInv, TypeOK, ReadSoFar, RunsTyped, RunTyped

LEMMA RunChange ==
  ASSUME RunsTyped, NEW p \in Runs, NEW r, RunTyped(r), run' = [run EXCEPT ![p] = r]
  PROVE  RunsTyped'
<1>1. run' \in [Runs -> RunStates]
  BY DEF RunsTyped, RunTyped
<1>2. ASSUME NEW q \in Runs PROVE RunTyped(run'[q])
  BY DEF RunsTyped
<1>3. \A q \in Runs : RunTyped(run'[q])
  BY <1>2
<1> QED
  BY <1>1, <1>3 DEF RunsTyped, RunTyped

\* Moving to the next program counter or ending, with nothing new read.
LEMMA GotoTyped ==
  ASSUME RunsTyped, NEW p \in Runs, NEW pc \in Pcs \ {"done"}, Goto(p, pc),
         run[p].pc \in AfterOpen,
         pc \in AfterConsume => run[p].pc \in AfterConsume,
         pc \in AfterLoad => run[p].pc \in AfterLoad,
         pc \in AfterDigest => run[p].pc \in AfterDigest
  PROVE  RunsTyped'
<1> DEFINE r == [run[p] EXCEPT !.pc = pc]
<1>1. run' = [run EXCEPT ![p] = r]
  BY DEF Goto
<1>2. RunTyped(run[p]) /\ run[p].pc # "done"
  BY DEF RunsTyped, AfterOpen, AfterConsume, AfterLoad, AfterDigest
<1>3. RunTyped(r)
  BY <1>2 DEF RunTyped, RunStates
<1> QED
  BY <1>1, <1>3, RunChange

LEMMA ExitTyped ==
  ASSUME RunsTyped, NEW p \in Runs, NEW code \in Exits \ {NoExit}, ExitWith(p, code)
  PROVE  RunsTyped'
<1> DEFINE r == [run[p] EXCEPT !.pc = "done", !.exit = code]
<1>1. run' = [run EXCEPT ![p] = r]
  BY DEF ExitWith
<1>2. RunTyped(run[p])
  BY DEF RunsTyped
<1>3. RunTyped(r)
  BY <1>2 DEF RunTyped, RunStates, Pcs, AfterOpen, AfterConsume, AfterLoad, AfterDigest
<1> QED
  BY <1>1, <1>3, RunChange

\* The records a run has after the consumer accepted c, after it parsed c, and
\* after it hashed c.
LEMMA ReadTyped ==
  ASSUME NEW r, RunTyped(r), NEW c \in Assurances \cup {Torn}
  PROVE  /\ r.pc = "consume" /\ c \in Assurances =>
              RunTyped([r EXCEPT !.pc = "logs", !.checked = c])
         /\ r.pc = "load" /\ c \in Assurances =>
              RunTyped([r EXCEPT !.pc = "digest", !.cert = c])
         /\ r.pc = "digest" => RunTyped([r EXCEPT !.pc = "report", !.sha = c])
<1> USE DEF RunTyped, RunStates, Pcs, OutFiles, AfterOpen, AfterConsume, AfterLoad, AfterDigest
<1>1. ASSUME r.pc = "consume", c \in Assurances
      PROVE  RunTyped([r EXCEPT !.pc = "logs", !.checked = c])
  BY <1>1
<1>2. ASSUME r.pc = "load", c \in Assurances
      PROVE  RunTyped([r EXCEPT !.pc = "digest", !.cert = c])
  BY <1>2
<1>3. ASSUME r.pc = "digest"
      PROVE  RunTyped([r EXCEPT !.pc = "report", !.sha = c])
  BY <1>3
<1> QED
  BY <1>1, <1>2, <1>3

\* A step that ends a run or moves its counter, and changes nothing else.
LEMMA QuietStepTyped ==
  ASSUME TypeInv, RunsTyped', UNCHANGED <<rev, out, lockFile, accepted>>
  PROVE  TypeInv'
BY TypeInvSplit DEF TypeInv, TypeOK, ReadSoFar, RunsTyped, RunTyped

LEMMA OutStepTyped ==
  ASSUME TypeInv, RunsTyped', out' \in [Dirs -> Directories], UNCHANGED <<rev, lockFile, accepted>>
  PROVE  TypeInv'
BY TypeInvSplit DEF TypeInv, TypeOK, ReadSoFar, RunsTyped, RunTyped

LEMMA ExitCodes ==
  /\ ExitInvalid \in Exits \ {NoExit} /\ Traceback \in Exits \ {NoExit}
  /\ ExitRegression \in Exits \ {NoExit} /\ Ok \in Exits \ {NoExit}
  /\ ExitLockMismatch \in Exits \ {NoExit}
BY DEF Exits, NoExit, ExitInvalid, Traceback, ExitRegression, Ok, ExitLockMismatch, ExitIncomplete

\* Every step of one invocation preserves the type invariant.
LEMMA StepTyped ==
  ASSUME TypeInv, NEW p \in Runs, Invoke(p) \/ Step(p) \/ Crash(p)
  PROVE  TypeInv'
<1> USE DEF At
<1>a. RunsTyped /\ RunTyped(run[p]) /\ TypeOK
  BY TypeInvSplit DEF TypeInv, RunsTyped
<1>b. USE DEF AfterOpen, AfterConsume, AfterLoad, AfterDigest, Pcs
<1>1. CASE Invoke(p)
  <2>1. PICK cmd \in Commands[p], allow \in BOOLEAN :
           run' = [run EXCEPT ![p] = [Fresh EXCEPT !.pc = "open", !.cmd = cmd, !.allow = allow]]
    BY <1>1 DEF Invoke
  <2>2. Commands[p] \subseteq {"verify", "lock", "check"}
    BY ConstantsTyped
  <2>3. RunTyped([Fresh EXCEPT !.pc = "open", !.cmd = cmd, !.allow = allow])
    BY <2>2 DEF RunTyped, Fresh, RunStates, Exits, NoExit
  <2>4. RunsTyped'
    BY <1>a, <2>1, <2>3, RunChange
  <2> QED
    BY <1>1, <2>4, QuietStepTyped DEF Invoke
<1>2. CASE Open(p)
  <2>1. CASE ExitWith(p, ExitInvalid)
    BY <1>a, <1>2, <2>1, ExitTyped, ExitCodes, QuietStepTyped DEF Open
  <2>2. CASE run' = [run EXCEPT ![p].pc = "provenance", ![p].meta = rev]
    <3> DEFINE r == [run[p] EXCEPT !.pc = "provenance", !.meta = rev]
    <3>1. RunTyped(r)
      BY <1>a, <1>2 DEF RunTyped, RunStates, TypeOK, Open
    <3>2. RunsTyped'
      BY <1>a, <2>2, <3>1, RunChange
    <3> QED
      BY <1>2, <3>2, QuietStepTyped DEF Open
  <2> QED
    BY <1>2, <2>1, <2>2 DEF Open
<1>3. CASE VerifyCaseProvenance(p)
  <2>1. RunsTyped'
    BY <1>a, <1>3, GotoTyped, ExitTyped, ExitCodes DEF VerifyCaseProvenance
  <2> QED
    BY <1>3, <2>1, QuietStepTyped DEF VerifyCaseProvenance
<1>4. CASE VerifyPredeclaration(p)
  <2>1. ASSUME Goto(p, "cert") PROVE RunsTyped'
    BY <1>a, <1>4, <2>1, GotoTyped DEF OutFiles, VerifyPredeclaration
  <2>2. ASSUME ExitWith(p, ExitInvalid) PROVE RunsTyped'
    BY <1>a, <2>2, ExitTyped, ExitCodes
  <2> QED
    BY <1>4, <2>1, <2>2, QuietStepTyped DEF VerifyPredeclaration
<1>5. CASE Produce(p)
  <2>1. RunsTyped'
    BY <1>a, <1>5, GotoTyped, ExitTyped, ExitCodes DEF Produce
  <2>2. Case[rev].assurance \in Assurances
    BY <1>a, PinsTyped DEF TypeOK
  <2>3. out' \in [Dirs -> Directories]
    BY <1>a, <1>5, <2>2, WriteTyped DEF Produce, OutFiles, TypeOK
  <2> QED
    BY <1>5, <2>1, <2>3, OutStepTyped DEF Produce
<1>6. CASE Consume(p)
  <2> DEFINE c == Artifact(p, "cert")
  <2>1. CASE ExitWith(p, ExitInvalid) /\ UNCHANGED accepted
    BY <1>a, <1>6, <2>1, ExitTyped, ExitCodes, QuietStepTyped DEF Consume
  <2>2. CASE /\ c \in Assurances
             /\ run' = [run EXCEPT ![p].pc = "logs", ![p].checked = c]
             /\ accepted' = accepted \cup {c}
    <3> DEFINE r == [run[p] EXCEPT !.pc = "logs", !.checked = c]
    <3>0. run[p].pc = "consume"
      BY <1>6 DEF Consume
    <3>1. RunTyped(r)
      BY <1>a, <2>2, <3>0, ReadTyped
    <3>2. RunsTyped'
      BY <1>a, <2>2, <3>1, RunChange
    <3> QED
      BY <1>a, <1>6, <2>2, <3>2 DEF Consume, TypeInv, TypeOK, ReadSoFar, RunsTyped, RunTyped
  <2> QED
    BY <1>6, <2>1, <2>2 DEF Consume
<1>7. CASE WriteLogs(p)
  <2>1. RunsTyped'
    BY <1>a, <1>7, GotoTyped DEF WriteLogs
  <2>2. out' \in [Dirs -> Directories]
    BY <1>a, <1>7, WriteTyped DEF WriteLogs, OutFiles, RunTyped
  <2> QED
    BY <1>7, <2>1, <2>2, OutStepTyped DEF WriteLogs
<1>8. CASE LoadCertificate(p)
  <2> DEFINE c == Artifact(p, "cert")
             r == [run[p] EXCEPT !.pc = "digest", !.cert = c]
  <2>1. CASE c \in Assurances
    <3>0. run[p].pc = "load" /\ run' = [run EXCEPT ![p] = r]
      BY <1>8, <2>1 DEF LoadCertificate
    <3>1. RunTyped(r)
      BY <1>a, <2>1, <3>0, ReadTyped
    <3>2. RunsTyped'
      BY <1>a, <3>0, <3>1, RunChange
    <3> QED
      BY <1>8, <3>2, QuietStepTyped DEF LoadCertificate
  <2>2. CASE c \notin Assurances
    BY <1>a, <1>8, <2>2, ExitTyped, ExitCodes, QuietStepTyped DEF LoadCertificate
  <2> QED
    BY <2>1, <2>2
<1>9. CASE DigestCertificate(p)
  <2> DEFINE c == Artifact(p, "cert")
             r == [run[p] EXCEPT !.pc = "report", !.sha = c]
  <2>1. CASE c # None
    <3>0. c \in Assurances \cup {Torn}
      BY <1>a, <2>1, ArtifactTyped
    <3>3. run[p].pc = "digest" /\ run' = [run EXCEPT ![p] = r]
      BY <1>9, <2>1 DEF DigestCertificate
    <3>1. RunTyped(r)
      BY <1>a, <3>0, <3>3, ReadTyped
    <3>2. RunsTyped'
      BY <1>a, <3>1, <3>3, RunChange
    <3> QED
      BY <1>9, <3>2, QuietStepTyped DEF DigestCertificate
  <2>2. CASE c = None
    BY <1>a, <1>9, <2>2, ExitTyped, ExitCodes, QuietStepTyped DEF DigestCertificate
  <2> QED
    BY <2>1, <2>2
<1>10. CASE WriteReport(p) \/ WriteMarkdown(p)
  <2>1. ASSUME WriteReport(p) PROVE RunsTyped'
    <3>1. run[p].pc = "report" /\ Goto(p, "markdown")
      BY <2>1 DEF WriteReport
    <3> QED
      BY <1>a, <3>1, GotoTyped DEF OutFiles
  <2>4. ASSUME WriteMarkdown(p) PROVE RunsTyped'
    <3>1. run[p].pc = "markdown" /\ Goto(p, "manifest")
      BY <2>4 DEF WriteMarkdown
    <3> QED
      BY <1>a, <3>1, GotoTyped DEF OutFiles
  <2>5. RunsTyped'
    BY <1>10, <2>1, <2>4
  <2>2. Summary(run[p]) \in Summaries
    BY <1>a, <1>10, SummaryTyped DEF WriteReport, WriteMarkdown, RunTyped
  <2>3. out' \in [Dirs -> Directories]
    BY <1>a, <1>10, <2>2, WriteTyped DEF WriteReport, WriteMarkdown, OutFiles
  <2> QED
    BY <1>10, <2>5, <2>3, OutStepTyped DEF WriteReport, WriteMarkdown
<1>11. CASE WriteManifest(p)
  <2>1. RunsTyped'
    BY <1>a, <1>11, GotoTyped, ExitTyped, ExitCodes DEF WriteManifest
  <2> DEFINE m == [id |-> Case[run[p].meta].id, assurance |-> Case[rev].assurance,
                   pins |-> MetaPins(run[p].meta), cert |-> run[p].sha,
                   report |-> Artifact(p, "report"), markdown |-> Artifact(p, "markdown"),
                   logs |-> Artifact(p, "logs")]
  <2>2. run[p].meta \in Revs /\ run[p].sha \in Assurances \cup {Torn} /\ rev \in Revs
    BY <1>a, <1>11 DEF WriteManifest, RunTyped, TypeOK
  <2>3. m \in Manifests
    BY <1>a, <2>2, PinsTyped, ArtifactTyped DEF Manifests
  <2>4. out' \in [Dirs -> Directories]
    BY <1>a, <1>11, <2>3, WriteTyped DEF WriteManifest, OutFiles, TypeOK
  <2> QED
    BY <1>11, <2>1, <2>4, OutStepTyped DEF WriteManifest
<1>12. CASE VerifyExit(p)
  <2>1. SemanticExit(Classify(run[p].cert)) \in Exits \ {NoExit}
    BY <1>a, <1>12, ClassifyTyped DEF VerifyExit, RunTyped
  <2> QED
    BY <1>a, <1>12, <2>1, ExitTyped, QuietStepTyped DEF VerifyExit
<1>13. CASE ApproveLock(p)
  <2>1. RunsTyped'
    BY <1>a, <1>13, GotoTyped, ExitTyped, ExitCodes DEF ApproveLock
  <2> QED
    BY <1>13, <2>1, QuietStepTyped DEF ApproveLock
<1>14. CASE WriteLock(p)
  <2>1. RunsTyped'
    BY <1>a, <1>14, ExitTyped, ExitCodes DEF WriteLock
  <2>2. MakeLock(Summary(run[p])) \in Locks
    BY <1>a, <1>14, SummaryTyped DEF WriteLock, RunTyped
  <2> QED
    BY <1>a, <1>14, <2>1, <2>2 DEF WriteLock, TypeInv, TypeOK, ReadSoFar, RunsTyped, RunTyped
<1>15. CASE CheckLock(p)
  <2>1. PICK l \in Locks \cup {None}, code \in Exits \ {NoExit} :
          run' = [run EXCEPT ![p].pc = "done", ![p].seen = l, ![p].exit = code]
    BY <1>15, ExitCodes DEF CheckLock
  <2> DEFINE r == [run[p] EXCEPT !.pc = "done", !.seen = l, !.exit = code]
  <2>2. RunTyped(r)
    BY <1>a DEF RunTyped, RunStates
  <2>3. RunsTyped'
    BY <1>a, <2>1, <2>2, RunChange
  <2> QED
    BY <1>15, <2>3, QuietStepTyped DEF CheckLock
<1>16. CASE Crash(p)
  <2>1. RunTyped(Fresh)
    BY DEF RunTyped, Fresh, RunStates, Exits, NoExit
  <2>2. RunsTyped'
    BY <1>a, <1>16, <2>1, RunChange DEF Crash
  <2>3. CASE UNCHANGED <<out, lockFile>>
    BY <1>16, <2>2, <2>3, QuietStepTyped DEF Crash
  <2>4. CASE run[p].pc \in OutFiles /\ Write(p, run[p].pc, Torn) /\ UNCHANGED lockFile
    <3>1. out' \in [Dirs -> Directories]
      BY <1>a, <2>4, WriteTyped
    <3> QED
      BY <1>16, <2>2, <2>4, <3>1, OutStepTyped DEF Crash
  <2>5. CASE lockFile' = Torn /\ UNCHANGED out
    BY <1>a, <1>16, <2>2, <2>5 DEF Crash, TypeInv, TypeOK, ReadSoFar, RunsTyped, RunTyped
  <2> QED
    BY <1>16, <2>3, <2>4, <2>5 DEF Crash
<1> QED
  BY <1>1, <1>2, <1>3, <1>4, <1>5, <1>6, <1>7, <1>8, <1>9, <1>10, <1>11, <1>12,
     <1>13, <1>14, <1>15, <1>16 DEF Step

LEMMA NextTyped == TypeInv /\ [Next]_vars => TypeInv'
<1> SUFFICES ASSUME TypeInv, [Next]_vars PROVE TypeInv'
  OBVIOUS
<1>1. CASE Checkout \/ EditLock
  BY <1>1, ConstantsTyped DEF Checkout, EditLock, TypeInv, TypeOK, ReadSoFar
<1>2. CASE UNCHANGED vars
  BY <1>2 DEF vars, TypeInv, TypeOK, ReadSoFar
<1> QED
  BY <1>1, <1>2, StepTyped DEF Next

\* In every behaviour, with any directories, locks and concurrent runs, the
\* files, the lock and the invocations of risu_verify.py stay well-formed, and
\* an invocation has an exit code exactly when it has ended.
THEOREM TypeCorrect == Spec => []TypeOK
<1>1. Spec => []TypeInv
  BY TypeInit, NextTyped, PTL DEF Spec
<1> QED
  BY <1>1, PTL DEF TypeInv

-----------------------------------------------------------------------------
(* Private output directories: what a run wrote is still there when it goes  *)
(* back to read it, so every read of certificate.json sees what the consumer *)
(* accepted.                                                                 *)

AfterLogs     == AfterConsume \ {"logs"}
AfterReport   == {"markdown", "manifest", "decide", "lock"}
AfterMarkdown == {"manifest", "decide", "lock"}
BeforeLoad    == {"idle", "open", "provenance", "predeclaration", "cert", "consume", "logs", "load"}

\* What MatchIsBacked says of a run with record r.
MatchBacked(r) ==
  r.pc = "done" /\ r.cmd = "check" /\ r.exit = Ok =>
    /\ r.seen.id = Case[r.meta].id
    /\ r.seen.commit = [assurance |-> r.checked, status |-> Classify(r.checked)]
    /\ r.seen.version = "0.2" => r.seen.pins = MetaPins(r.meta)
    /\ r.seen.version = "0.2" /\ r.seen.policy = Gate => Classify(r.checked) \in Preserving

\* A run with record r and directory o, acc being the accepted certificates.
RunBacked(r, o, acc) ==
  /\ r.pc \in AfterConsume => r.checked \in acc /\ o.cert = r.checked
  /\ r.pc \in AfterLogs => o.logs = r.checked
  /\ r.pc \in BeforeLoad => r.cert = None
  /\ r.pc \in AfterLoad => r.cert = r.checked
  /\ r.pc \in AfterDigest => r.sha = r.checked
  /\ r.pc \in AfterReport => o.report = Summary(r)
  /\ r.pc \in AfterMarkdown => o.markdown = Summary(r)
  /\ r.pc = "lock" => r.cmd = "lock" /\ (Classify(r.cert) \in Preserving \/ r.allow)
  /\ MatchBacked(r)

ReportBacked(o, acc) ==
  o.report \in Summaries =>
    /\ o.report.commit.assurance \in acc
    /\ o.report.commit.status = Classify(o.report.commit.assurance)
    /\ o.report.sha = o.report.commit.assurance

ManifestBacked(o, acc) ==
  o.manifest \in Manifests =>
    /\ o.manifest.report \in Summaries
    /\ o.manifest.report.id = o.manifest.id
    /\ o.manifest.report.sha = o.manifest.cert
    /\ o.manifest.markdown = o.manifest.report
    /\ o.manifest.logs = o.manifest.cert
    /\ o.manifest.cert \in acc

BackedInv ==
  /\ \A p \in Runs : RunBacked(run[p], out[Dir[p]], accepted)
  /\ \A d \in Dirs : ReportBacked(out[d], accepted) /\ ManifestBacked(out[d], accepted)

LEMMA BackedInit == Init => BackedInv
<1> SUFFICES ASSUME Init PROVE BackedInv
  OBVIOUS
<1>1. ASSUME NEW p \in Runs PROVE RunBacked(run[p], out[Dir[p]], accepted)
  BY DEF Init, RunBacked, MatchBacked, Fresh, AfterLogs, AfterConsume, AfterLoad,
         AfterDigest, AfterReport, AfterMarkdown
<1>2. ASSUME NEW d \in Dirs PROVE ReportBacked(out[d], accepted) /\ ManifestBacked(out[d], accepted)
  BY ConstantsTyped DEF Init, EmptyDirectory, OutFiles, ReportBacked, ManifestBacked
<1> QED
  BY <1>1, <1>2 DEF BackedInv

\* A step of the run p touches no record and no directory but its own.
LEMMA BackedFrame ==
  ASSUME PrivateDirs, TypeInv, BackedInv, NEW p \in Runs, NEW r, NEW o,
         run' = [run EXCEPT ![p] = r], out' = [out EXCEPT ![Dir[p]] = o],
         accepted \subseteq accepted',
         RunBacked(r, o, accepted'), ReportBacked(o, accepted'), ManifestBacked(o, accepted')
  PROVE  BackedInv'
<1>1. Dir \in [Runs -> Dirs] /\ run \in [Runs -> RunStates] /\ out \in [Dirs -> Directories]
  BY ConstantsTyped DEF TypeInv, TypeOK
<1>2. ASSUME NEW q \in Runs PROVE RunBacked(run'[q], out'[Dir[q]], accepted')
  <2>1. CASE q = p
    BY <1>1, <2>1
  <2>2. CASE q # p
    <3>1. run'[q] = run[q] /\ out'[Dir[q]] = out[Dir[q]]
      BY <1>1, <2>2 DEF PrivateDirs
    <3>2. RunBacked(run[q], out[Dir[q]], accepted)
      BY DEF BackedInv
    <3> QED
      BY <3>1, <3>2 DEF RunBacked
  <2> QED
    BY <2>1, <2>2
<1>3. ASSUME NEW d \in Dirs
      PROVE  ReportBacked(out'[d], accepted') /\ ManifestBacked(out'[d], accepted')
  <2>1. CASE d = Dir[p]
    BY <1>1, <2>1
  <2>2. CASE d # Dir[p]
    <3>1. out'[d] = out[d]
      BY <1>1, <2>2
    <3>2. ReportBacked(out[d], accepted) /\ ManifestBacked(out[d], accepted)
      BY DEF BackedInv
    <3> QED
      BY <3>1, <3>2 DEF ReportBacked, ManifestBacked
  <2> QED
    BY <2>1, <2>2
<1> QED
  BY <1>2, <1>3 DEF BackedInv

\* A step that changes only the record of p, or only one of its files too.
LEMMA RecordFrame ==
  ASSUME PrivateDirs, TypeInv, BackedInv, NEW p \in Runs, NEW r,
         run' = [run EXCEPT ![p] = r], UNCHANGED <<out, accepted>>,
         RunBacked(r, out[Dir[p]], accepted)
  PROVE  BackedInv'
<1>1. Dir[p] \in Dirs /\ out' = [out EXCEPT ![Dir[p]] = out[Dir[p]]]
  BY ConstantsTyped DEF TypeInv, TypeOK
<1>2. ReportBacked(out[Dir[p]], accepted) /\ ManifestBacked(out[Dir[p]], accepted)
  BY <1>1 DEF BackedInv
<1> QED
  BY <1>1, <1>2, BackedFrame

LEMMA FileFrame ==
  ASSUME PrivateDirs, TypeInv, BackedInv, NEW p \in Runs, NEW r, NEW f \in OutFiles, NEW x,
         run' = [run EXCEPT ![p] = r], Write(p, f, x), UNCHANGED accepted,
         RunBacked(r, [out[Dir[p]] EXCEPT ![f] = x], accepted),
         f = "report" => ReportBacked([out[Dir[p]] EXCEPT ![f] = x], accepted),
         f = "manifest" => ManifestBacked([out[Dir[p]] EXCEPT ![f] = x], accepted)
  PROVE  BackedInv'
<1> DEFINE o == [out[Dir[p]] EXCEPT ![f] = x]
<1>1. Dir[p] \in Dirs /\ out[Dir[p]] \in Directories
  BY ConstantsTyped DEF TypeInv, TypeOK
<1>2. ReportBacked(out[Dir[p]], accepted) /\ ManifestBacked(out[Dir[p]], accepted)
  BY <1>1 DEF BackedInv
<1>3. f # "report" => o.report = out[Dir[p]].report
  BY <1>1 DEF Directories
<1>4. f # "manifest" => o.manifest = out[Dir[p]].manifest
  BY <1>1 DEF Directories
<1>5. ReportBacked(o, accepted) /\ ManifestBacked(o, accepted)
  BY <1>2, <1>3, <1>4 DEF ReportBacked, ManifestBacked
<1>6. out' = [out EXCEPT ![Dir[p]] = o]
  BY DEF Write
<1> QED
  BY <1>5, <1>6, BackedFrame

\* Every step of one invocation preserves what backs its report and manifest.
LEMMA StepBacked ==
  ASSUME PrivateDirs, TypeInv, BackedInv, NEW p \in Runs, Invoke(p) \/ Step(p) \/ Crash(p)
  PROVE  BackedInv'
<1> DEFINE o == out[Dir[p]]
           r == run[p]
<1> USE DEF AfterOpen, AfterConsume, AfterLogs, AfterLoad, AfterDigest, AfterReport,
            AfterMarkdown, BeforeLoad
<1>a. RunBacked(r, o, accepted) /\ RunTyped(r) /\ r \in RunStates
  BY TypeInvSplit DEF BackedInv, RunsTyped, RunTyped
<1>b. Dir[p] \in Dirs /\ o \in Directories
  BY ConstantsTyped DEF TypeInv, TypeOK
<1>1. CASE Invoke(p)
  <2>1. PICK cmd \in Commands[p], allow \in BOOLEAN :
           run' = [run EXCEPT ![p] = [Fresh EXCEPT !.pc = "open", !.cmd = cmd, !.allow = allow]]
    BY <1>1 DEF Invoke
  <2> DEFINE n == [Fresh EXCEPT !.pc = "open", !.cmd = cmd, !.allow = allow]
  <2>2. RunBacked(n, o, accepted)
    BY DEF RunBacked, MatchBacked, Fresh
  <2> QED
    BY <1>1, <2>1, <2>2, RecordFrame DEF Invoke
<1>c. ExitInvalid # Ok /\ Traceback # Ok /\ ExitLockMismatch # Ok
  BY DEF ExitInvalid, Traceback, ExitLockMismatch, Ok
<1>2. ASSUME NEW code, ExitWith(p, code), UNCHANGED <<out, accepted>>,
             code # Ok \/ r.cmd # "check"
      PROVE  BackedInv'
  <2> DEFINE n == [r EXCEPT !.pc = "done", !.exit = code]
  <2>1. run' = [run EXCEPT ![p] = n]
    BY <1>2 DEF ExitWith
  <2>2. RunBacked(n, o, accepted)
    BY <1>a, <1>2 DEF RunBacked, MatchBacked, RunStates
  <2> QED
    BY <1>2, <2>1, <2>2, RecordFrame
<1>3. CASE Open(p)
  <2>1. CASE ExitWith(p, ExitInvalid)
    BY <1>c, <1>2, <1>3, <2>1 DEF Open
  <2>2. CASE run' = [run EXCEPT ![p].pc = "provenance", ![p].meta = rev]
    <3> DEFINE n == [r EXCEPT !.pc = "provenance", !.meta = rev]
    <3>1. run' = [run EXCEPT ![p] = n] /\ r.pc = "open"
      BY <1>3, <2>2 DEF Open, At
    <3>2. RunBacked(n, o, accepted)
      BY <1>a, <3>1 DEF RunBacked, MatchBacked, RunStates
    <3> QED
      BY <1>3, <3>1, <3>2, RecordFrame DEF Open
  <2> QED
    BY <1>3, <2>1, <2>2 DEF Open
<1>4. CASE VerifyCaseProvenance(p) \/ VerifyPredeclaration(p)
  <2>1. ASSUME NEW pc \in {"predeclaration", "cert"}, Goto(p, pc),
               r.pc \in {"provenance", "predeclaration"}
        PROVE  BackedInv'
    <3> DEFINE n == [r EXCEPT !.pc = pc]
    <3>1. run' = [run EXCEPT ![p] = n]
      BY <2>1 DEF Goto
    <3>2. RunBacked(n, o, accepted)
      BY <1>a, <2>1 DEF RunBacked, MatchBacked, RunStates
    <3> QED
      BY <1>4, <3>1, <3>2, RecordFrame DEF VerifyCaseProvenance, VerifyPredeclaration
  <2> QED
    BY <1>c, <1>2, <1>4, <2>1 DEF VerifyCaseProvenance, VerifyPredeclaration, At
<1>5. CASE Produce(p)
  <2>1. CASE ExitWith(p, ExitInvalid) /\ UNCHANGED out
    BY <1>c, <1>2, <1>5, <2>1 DEF Produce
  <2>2. CASE /\ Write(p, "cert", Case[rev].assurance)
             /\ Goto(p, "consume") \/ ExitWith(p, ExitInvalid)
    <3> DEFINE x == Case[rev].assurance
    <3>1. r.pc = "cert"
      BY <1>5 DEF Produce, At
    <3>2. CASE Goto(p, "consume")
      <4> DEFINE n == [r EXCEPT !.pc = "consume"]
      <4>1. run' = [run EXCEPT ![p] = n]
        BY <3>2 DEF Goto
      <4>2. RunBacked(n, [o EXCEPT !["cert"] = x], accepted)
        BY <1>a, <3>1 DEF RunBacked, MatchBacked, RunStates
      <4> QED
        BY <1>5, <2>2, <4>1, <4>2, FileFrame DEF Produce, OutFiles
    <3>3. CASE ExitWith(p, ExitInvalid)
      <4> DEFINE n == [r EXCEPT !.pc = "done", !.exit = ExitInvalid]
      <4>1. run' = [run EXCEPT ![p] = n]
        BY <3>3 DEF ExitWith
      <4>2. RunBacked(n, [o EXCEPT !["cert"] = x], accepted)
        BY <1>a, <1>c, <3>1 DEF RunBacked, MatchBacked, RunStates
      <4> QED
        BY <1>5, <2>2, <4>1, <4>2, FileFrame DEF Produce, OutFiles
    <3> QED
      BY <2>2, <3>2, <3>3
  <2> QED
    BY <1>5, <2>1, <2>2 DEF Produce
<1>6. CASE Consume(p)
  <2> DEFINE c == Artifact(p, "cert")
             n == [r EXCEPT !.pc = "logs", !.checked = c]
  <2>1. CASE ExitWith(p, ExitInvalid) /\ UNCHANGED accepted
    BY <1>c, <1>2, <1>6, <2>1 DEF Consume
  <2>2. CASE /\ run' = [run EXCEPT ![p].pc = "logs", ![p].checked = c]
             /\ accepted' = accepted \cup {c}
    <3>1. run' = [run EXCEPT ![p] = n] /\ r.pc = "consume" /\ UNCHANGED out
      BY <1>6, <2>2 DEF Consume, At
    <3>2. RunBacked(n, o, accepted')
      BY <1>a, <2>2, <3>1 DEF RunBacked, MatchBacked, RunStates, Artifact
    <3>3. ReportBacked(o, accepted') /\ ManifestBacked(o, accepted')
      BY <1>b, <2>2 DEF BackedInv, ReportBacked, ManifestBacked
    <3>4. out' = [out EXCEPT ![Dir[p]] = o]
      BY <1>b, <3>1 DEF TypeInv, TypeOK
    <3> QED
      BY <2>2, <3>1, <3>2, <3>3, <3>4, BackedFrame
  <2> QED
    BY <1>6, <2>1, <2>2 DEF Consume
<1>7. CASE WriteLogs(p)
  <2> DEFINE n == [r EXCEPT !.pc = "load"]
  <2>1. run' = [run EXCEPT ![p] = n] /\ r.pc = "logs"
    BY <1>7 DEF WriteLogs, Goto, At
  <2>2. RunBacked(n, [o EXCEPT !["logs"] = r.checked], accepted)
    BY <1>a, <1>b, <2>1 DEF RunBacked, MatchBacked, RunStates, Directories
  <2> QED
    BY <1>7, <2>1, <2>2, FileFrame DEF WriteLogs, OutFiles
<1>8. CASE LoadCertificate(p)
  <2> DEFINE c == Artifact(p, "cert")
             n == [r EXCEPT !.pc = "digest", !.cert = c]
  <2>1. CASE c \in Assurances
    <3>1. run' = [run EXCEPT ![p] = n] /\ r.pc = "load"
      BY <1>8, <2>1 DEF LoadCertificate, At
    <3>2. RunBacked(n, o, accepted)
      BY <1>a, <3>1 DEF RunBacked, MatchBacked, RunStates, Artifact
    <3> QED
      BY <1>8, <3>1, <3>2, RecordFrame DEF LoadCertificate
  <2>2. CASE c \notin Assurances
    BY <1>c, <1>2, <1>8, <2>2 DEF LoadCertificate
  <2> QED
    BY <2>1, <2>2
<1>9. CASE DigestCertificate(p)
  <2> DEFINE c == Artifact(p, "cert")
             n == [r EXCEPT !.pc = "report", !.sha = c]
  <2>1. CASE c # None
    <3>1. run' = [run EXCEPT ![p] = n] /\ r.pc = "digest"
      BY <1>9, <2>1 DEF DigestCertificate, At
    <3>2. RunBacked(n, o, accepted)
      BY <1>a, <3>1 DEF RunBacked, MatchBacked, RunStates, Artifact
    <3> QED
      BY <1>9, <3>1, <3>2, RecordFrame DEF DigestCertificate
  <2>2. CASE c = None
    BY <1>c, <1>2, <1>9, <2>2 DEF DigestCertificate
  <2> QED
    BY <2>1, <2>2
<1>10. CASE WriteReport(p)
  <2> DEFINE n == [r EXCEPT !.pc = "markdown"]
             w == [o EXCEPT !["report"] = Summary(r)]
  <2>1. run' = [run EXCEPT ![p] = n] /\ r.pc = "report"
    BY <1>10 DEF WriteReport, Goto, At
  <2>2. Summary(n) = Summary(r)
    BY <1>a DEF Summary, RunStates
  <2>3. w.report = Summary(r) /\ w.cert = o.cert /\ w.logs = o.logs
    BY <1>b DEF Directories
  <2>4. RunBacked(n, w, accepted)
    BY <1>a, <2>1, <2>2, <2>3 DEF RunBacked, MatchBacked, RunStates
  <2>5. ReportBacked(w, accepted)
    BY <1>a, <2>1, <2>3 DEF RunBacked, ReportBacked, Summary
  <2> QED
    BY <1>10, <2>1, <2>4, <2>5, FileFrame DEF WriteReport, OutFiles
<1>11. CASE WriteMarkdown(p)
  <2> DEFINE n == [r EXCEPT !.pc = "manifest"]
             w == [o EXCEPT !["markdown"] = Summary(r)]
  <2>1. run' = [run EXCEPT ![p] = n] /\ r.pc = "markdown"
    BY <1>11 DEF WriteMarkdown, Goto, At
  <2>2. Summary(n) = Summary(r)
    BY <1>a DEF Summary, RunStates
  <2>3. w.markdown = Summary(r) /\ w.report = o.report /\ w.cert = o.cert /\ w.logs = o.logs
    BY <1>b DEF Directories
  <2>4. RunBacked(n, w, accepted)
    BY <1>a, <2>1, <2>2, <2>3 DEF RunBacked, MatchBacked, RunStates
  <2> QED
    BY <1>11, <2>1, <2>4, FileFrame DEF WriteMarkdown, OutFiles
<1>12. CASE WriteManifest(p)
  <2> DEFINE m == [id |-> Case[r.meta].id, assurance |-> Case[rev].assurance,
                   pins |-> MetaPins(r.meta), cert |-> r.sha,
                   report |-> Artifact(p, "report"), markdown |-> Artifact(p, "markdown"),
                   logs |-> Artifact(p, "logs")]
             n == [r EXCEPT !.pc = "decide"]
             w == [o EXCEPT !["manifest"] = m]
  <2>1. CASE ExitWith(p, Traceback) /\ UNCHANGED out
    BY <1>c, <1>2, <1>12, <2>1 DEF WriteManifest
  <2>2. CASE Write(p, "manifest", m) /\ Goto(p, "decide")
    <3>1. run' = [run EXCEPT ![p] = n] /\ r.pc = "manifest"
      BY <1>12, <2>2 DEF WriteManifest, Goto, At
    <3>2. Summary(n) = Summary(r)
      BY <1>a DEF Summary, RunStates
    <3>3. /\ w.manifest = m /\ w.markdown = o.markdown
          /\ w.report = o.report /\ w.cert = o.cert /\ w.logs = o.logs
      BY <1>b DEF Directories
    <3>4. RunBacked(n, w, accepted)
      BY <1>a, <3>1, <3>2, <3>3 DEF RunBacked, MatchBacked, RunStates
    <3>5. Summary(r) \in Summaries
      BY <1>a, <3>1, SummaryTyped DEF RunTyped
    <3>6. /\ m.report = Summary(r) /\ m.markdown = Summary(r)
          /\ m.logs = r.checked /\ m.cert = r.checked /\ r.checked \in accepted
      BY <1>a, <3>1 DEF RunBacked, Artifact
    <3>7. Summary(r).sha = r.sha /\ Summary(r).id = m.id /\ r.sha = r.checked
      BY <1>a, <3>1 DEF RunBacked, Summary
    <3>8. ManifestBacked(w, accepted)
      BY <3>3, <3>5, <3>6, <3>7 DEF ManifestBacked
    <3> QED
      BY <1>12, <2>2, <3>1, <3>4, <3>8, FileFrame DEF WriteManifest, OutFiles
  <2> QED
    BY <1>12, <2>1, <2>2 DEF WriteManifest
<1>13. CASE VerifyExit(p) \/ WriteLock(p) \/ ApproveLock(p)
  <2>1. CASE \E code : ExitWith(p, code)
    BY <1>a, <1>2, <1>13, <2>1 DEF VerifyExit, WriteLock, ApproveLock, RunBacked, At
  <2>2. CASE ApproveLock(p) /\ Goto(p, "lock")
    <3> DEFINE n == [r EXCEPT !.pc = "lock"]
    <3>1. run' = [run EXCEPT ![p] = n] /\ r.pc = "decide"
      BY <2>2 DEF ApproveLock, Goto, At
    <3>2. Summary(n) = Summary(r)
      BY <1>a DEF Summary, RunStates
    <3>3. run'[p].pc = "lock"
      BY <1>a, <3>1 DEF TypeInv, TypeOK, RunStates
    <3>a. ~ExitWith(p, ExitRegression)
      BY <1>a, <3>3 DEF ExitWith, TypeInv, TypeOK, RunStates
    <3>4. r.cmd = "lock" /\ (Classify(r.cert) \in Preserving \/ r.allow)
      BY <2>2, <3>a DEF ApproveLock
    <3>5. n.pc = "lock" /\ n.cmd = r.cmd /\ n.cert = r.cert /\ n.allow = r.allow
      BY <1>a DEF RunStates
    <3>6. RunBacked(n, o, accepted)
      BY <1>a, <3>1, <3>2, <3>4, <3>5 DEF RunBacked, MatchBacked, RunStates
    <3> QED
      BY <2>2, <3>1, <3>6, RecordFrame DEF ApproveLock
  <2> QED
    BY <1>13, <2>1, <2>2 DEF VerifyExit, WriteLock, ApproveLock
<1>14. CASE CheckLock(p)
  <2> DEFINE l == IF lockFile \in Locks /\ Case[rev].adapter THEN lockFile ELSE None
             code == IF ~Case[rev].adapter THEN ExitInvalid
                     ELSE IF lockFile = None THEN ExitLockMismatch
                     ELSE IF lockFile = Torn THEN Traceback
                     ELSE IF LockMatches(Summary(r), lockFile) THEN Ok
                     ELSE ExitLockMismatch
  <2>0. /\ run' = [run EXCEPT ![p].pc = "done", ![p].seen = l, ![p].exit = code]
        /\ code = Ok => LockMatches(Summary(r), l)
    <3>1. lockFile \in Locks \cup {None, Torn}
      BY DEF TypeInv, TypeOK
    <3>2. code = Ok => LockMatches(Summary(r), l)
      BY <1>c, <3>1
    <3> QED
      BY <1>14, <3>2 DEF CheckLock
  <2> HIDE DEF l, code
  <2>1. /\ run' = [run EXCEPT ![p].pc = "done", ![p].seen = l, ![p].exit = code]
        /\ code = Ok => LockMatches(Summary(r), l)
    BY <2>0
  <2> DEFINE n == [r EXCEPT !.pc = "done", !.seen = l, !.exit = code]
  <2>3. r.cert = r.checked
    BY <1>a, <1>14 DEF RunBacked, CheckLock, At
  <2>4. n.pc = "done" /\ n.seen = l /\ n.exit = code /\ n.checked = r.checked /\ n.meta = r.meta
    BY <1>a DEF RunStates
  <2>5. MatchBacked(n)
    BY <2>1, <2>3, <2>4 DEF MatchBacked, LockMatches, Summary
  <2>2. RunBacked(n, o, accepted)
    BY <2>4, <2>5 DEF RunBacked
  <2> QED
    <3>1. run' = [run EXCEPT ![p] = n]
      BY <2>1
    <3>2. UNCHANGED <<out, accepted>>
      BY <1>14 DEF CheckLock
    <3> QED
      BY <2>2, <3>1, <3>2, RecordFrame
<1>15. CASE Crash(p)
  <2>1. \A w : RunBacked(Fresh, w, accepted)
    BY DEF RunBacked, MatchBacked, Fresh
  <2>2. CASE UNCHANGED out
    BY <1>15, <2>1, <2>2, RecordFrame DEF Crash
  <2>3. CASE r.pc \in OutFiles /\ Write(p, r.pc, Torn)
    <3> DEFINE w == [o EXCEPT ![r.pc] = Torn]
    <3>1. r.pc = "report" => w.report = Torn
      BY <1>b DEF Directories
    <3>2. r.pc = "manifest" => w.manifest = Torn
      BY <1>b DEF Directories
    <3>3. /\ r.pc = "report" => ReportBacked(w, accepted)
          /\ r.pc = "manifest" => ManifestBacked(w, accepted)
      BY <3>1, <3>2, ConstantsTyped DEF ReportBacked, ManifestBacked
    <3> QED
      BY <1>15, <2>1, <2>3, <3>3, FileFrame DEF Crash
  <2> QED
    BY <1>15, <2>2, <2>3 DEF Crash
<1> QED
  BY <1>1, <1>3, <1>4, <1>5, <1>6, <1>7, <1>8, <1>9, <1>10, <1>11, <1>12, <1>13,
     <1>14, <1>15 DEF Step

LEMMA NextBacked ==
  ASSUME PrivateDirs
  PROVE  TypeInv /\ BackedInv /\ [Next]_vars => BackedInv'
<1> SUFFICES ASSUME TypeInv, BackedInv, [Next]_vars PROVE BackedInv'
  OBVIOUS
<1>1. CASE Checkout \/ EditLock \/ UNCHANGED vars
  BY <1>1 DEF Checkout, EditLock, vars, BackedInv
<1> QED
  BY <1>1, StepBacked DEF Next

\* With private output directories, the report in a directory always states the
\* status of a certificate the independent consumer accepted, and its digest
\* (the reads of certificate.json at risu_verify.py:548-549 cannot differ).
THEOREM ReportsAreBacked ==
  ASSUME PrivateDirs PROVE Spec => []ReportsBacked
<1>1. Spec => [](TypeInv /\ BackedInv)
  BY TypeInit, NextTyped, BackedInit, NextBacked, PTL DEF Spec
<1>2. BackedInv => ReportsBacked
  BY DEF BackedInv, ReportBacked, ReportsBacked
<1> QED
  BY <1>1, <1>2, PTL

\* With private output directories, every readable run manifest belongs to one
\* run: report, Markdown, logs and certificate digest agree, whatever crashed
\* or failed in that directory before.
THEOREM ManifestsAreCoherent ==
  ASSUME PrivateDirs PROVE Spec => []ManifestCoherent
<1>1. Spec => [](TypeInv /\ BackedInv)
  BY TypeInit, NextTyped, BackedInit, NextBacked, PTL DEF Spec
<1>2. BackedInv => ManifestCoherent
  BY DEF BackedInv, ManifestBacked, ManifestCoherent
<1> QED
  BY <1>1, <1>2, PTL

\* With private output directories, exit 0 of `check` means that the lock it read
\* commits the certificate the consumer accepted in that run, with the pins the
\* run verified; a PRESERVATION_GATE lock is matched by preserving results only.
THEOREM MatchesAreBacked ==
  ASSUME PrivateDirs PROVE Spec => []MatchIsBacked
<1>1. Spec => [](TypeInv /\ BackedInv)
  BY TypeInit, NextTyped, BackedInit, NextBacked, PTL DEF Spec
<1>2. BackedInv => MatchIsBacked
  BY DEF BackedInv, RunBacked, MatchBacked, MatchIsBacked
<1> QED
  BY <1>1, <1>2, PTL

\* A run changes only in a step of its own.
LEMMA RunChangesOnlyItself ==
  ASSUME TypeInv, [Next]_vars, NEW p \in Runs
  PROVE  run'[p] = run[p] \/ Invoke(p) \/ Step(p) \/ Crash(p)
<1>1. CASE UNCHANGED run
  BY <1>1
<1>2. CASE \E q \in Runs : Invoke(q) \/ Step(q) \/ Crash(q)
  <2>1. PICK q \in Runs : Invoke(q) \/ Step(q) \/ Crash(q)
    BY <1>2
  <2>2. \E r : run' = [run EXCEPT ![q] = r]
    <3>1. CASE Invoke(q) \/ Crash(q)
      BY <3>1 DEF Invoke, Crash
    <3>2. CASE Step(q)
      <4>1. (\E pc : Goto(q, pc)) \/ (\E code : ExitWith(q, code)) =>
              \E r : run' = [run EXCEPT ![q] = r]
        BY DEF Goto, ExitWith
      <4>2. CASE Open(q) \/ VerifyCaseProvenance(q) \/ VerifyPredeclaration(q) \/ Produce(q)
        BY <4>1, <4>2 DEF Open, VerifyCaseProvenance, VerifyPredeclaration, Produce
      <4>3. CASE Consume(q) \/ LoadCertificate(q) \/ DigestCertificate(q) \/ CheckLock(q)
        BY <4>1, <4>3 DEF Consume, LoadCertificate, DigestCertificate, CheckLock
      <4>4. CASE \/ WriteLogs(q) \/ WriteReport(q) \/ WriteMarkdown(q) \/ WriteManifest(q)
                 \/ VerifyExit(q) \/ ApproveLock(q) \/ WriteLock(q)
        BY <4>1, <4>4 DEF WriteLogs, WriteReport, WriteMarkdown, WriteManifest, VerifyExit,
           ApproveLock, WriteLock
      <4> QED
        BY <3>2, <4>2, <4>3, <4>4 DEF Step
    <3> QED
      BY <2>1, <3>1, <3>2
  <2>3. q # p => run'[p] = run[p]
    BY <2>2 DEF TypeInv, TypeOK
  <2> QED
    BY <2>1, <2>3
<1> QED
  BY <1>1, <1>2 DEF Next, Checkout, EditLock, vars

\* The only step that takes an invocation from "lock" to its end writes the lock.
LEMMA OnlyWriteLockEnds ==
  ASSUME TypeInv, [Next]_vars, NEW p \in Runs, run[p].pc = "lock", run'[p].pc = "done"
  PROVE  WriteLock(p)
<1>1. ~Invoke(p)
  BY DEF Invoke
<1>2. ~Crash(p)
  BY DEF Crash, Fresh, TypeInv, TypeOK
<1>3. Step(p)
  BY <1>1, <1>2, RunChangesOnlyItself
<1> QED
  BY <1>3 DEF Step, At, Open, VerifyCaseProvenance, VerifyPredeclaration, Produce, Consume,
     WriteLogs, LoadCertificate, DigestCertificate, WriteReport, WriteMarkdown, WriteManifest,
     VerifyExit, ApproveLock, CheckLock

\* With private output directories, `lock` only ever commits the certificate the
\* consumer accepted in that invocation, as a PRESERVATION_GATE exactly for a
\* preserving status, and otherwise only under --accept-regression.
THEOREM LockWritesAreBacked ==
  ASSUME PrivateDirs PROVE Spec => LockWritesBacked
<1>1. ASSUME TypeInv, BackedInv, [Next]_vars, NEW p \in Runs,
             run[p].pc = "lock", run'[p].pc = "done"
      PROVE  /\ lockFile'.commit.assurance = run[p].checked
             /\ lockFile'.commit.assurance \in accepted
             /\ lockFile'.policy = Gate <=> Classify(run[p].checked) \in Preserving
             /\ lockFile'.policy = Reproduction => run[p].allow
  <2>1. lockFile' = MakeLock(Summary(run[p]))
    BY <1>1, OnlyWriteLockEnds DEF WriteLock
  <2>2. /\ run[p].checked \in accepted /\ run[p].cert = run[p].checked
        /\ Classify(run[p].cert) \in Preserving \/ run[p].allow
    BY <1>1 DEF BackedInv, RunBacked, AfterConsume, AfterLoad, AfterDigest
  <2> QED
    BY <2>1, <2>2 DEF MakeLock, Summary, Gate, Reproduction
<1>2. TypeInv /\ BackedInv /\ [Next]_vars =>
        [\A p \in Runs :
           run[p].pc = "lock" /\ run'[p].pc = "done" =>
             /\ lockFile'.commit.assurance = run[p].checked
             /\ lockFile'.commit.assurance \in accepted
             /\ lockFile'.policy = Gate <=> Classify(run[p].checked) \in Preserving
             /\ lockFile'.policy = Reproduction => run[p].allow]_vars
  BY <1>1
<1>3. Spec => []TypeInv /\ []BackedInv
  BY TypeInit, NextTyped, BackedInit, NextBacked, PTL DEF Spec
<1> QED
  BY <1>2, <1>3, PTL DEF Spec, LockWritesBacked

-----------------------------------------------------------------------------
(* A checkout that stays where it is while an invocation is active: what a   *)
(* run verified, it verified of the one revision it took its metadata from.  *)

AfterGates   == AfterConsume \cup {"cert", "consume"}
AfterProduce == AfterConsume \cup {"consume"}
SemanticCodes == {Ok, ExitRegression, ExitIncomplete, ExitLockMismatch}

\* The manifest of a run with record r whose directory is o.
ManifestOf(r, o) ==
  [id |-> Case[r.meta].id, cert |-> o.cert, report |-> o.report, markdown |-> o.markdown,
   logs |-> o.logs, assurance |-> r.cert, pins |-> MetaPins(r.meta)]

\* What SemanticExitIsWarranted says of a run with record r and directory o.
Warranted(r, o) ==
  /\ Case[r.meta].corePinned
  /\ ProvenanceHolds(r.meta, r.meta)
  /\ PredeclarationHolds(r.meta, r.meta)
  /\ r.cert = Case[r.meta].assurance
  /\ r.cert = r.checked
  /\ Core[r.cert].producer = "accepts" /\ Core[r.cert].sound
  /\ o.report = Summary(r)
  /\ o.manifest = ManifestOf(r, o)

\* The part of it that has been established at each program counter.
WarrantedSoFar(r, o) ==
  /\ r.pc \in AfterOpen => Case[r.meta].corePinned
  /\ r.pc \in AfterOpen \ {"provenance"} => ProvenanceHolds(r.meta, r.meta)
  /\ r.pc \in AfterGates => PredeclarationHolds(r.meta, r.meta)
  /\ r.pc \in AfterProduce =>
       o.cert = Case[r.meta].assurance /\ Core[o.cert].producer = "accepts"
  /\ r.pc \in AfterConsume => Core[o.cert].sound
  /\ r.pc \in {"decide", "lock"} => o.manifest = ManifestOf(r, o)
  /\ r.pc = "done" /\ r.exit \in SemanticCodes => Warranted(r, o)

WarrantInv ==
  /\ \A p \in Runs : run[p].pc \in AfterOpen => run[p].meta = rev
  /\ \A p \in Runs : WarrantedSoFar(run[p], out[Dir[p]])

LEMMA WarrantInit == Init => WarrantInv
BY DEF Init, WarrantInv, WarrantedSoFar, Fresh, AfterOpen, AfterGates, AfterProduce,
       AfterConsume, AfterLoad, AfterDigest

\* A step of the run p touches no record and no directory but its own.
LEMMA WarrantFrame ==
  ASSUME PrivateDirs, TypeInv, WarrantInv, NEW p \in Runs, NEW r, NEW o,
         run' = [run EXCEPT ![p] = r], out' = [out EXCEPT ![Dir[p]] = o], UNCHANGED rev,
         r.pc \in AfterOpen => r.meta = rev, WarrantedSoFar(r, o)
  PROVE  WarrantInv'
<1>1. Dir \in [Runs -> Dirs] /\ run \in [Runs -> RunStates] /\ out \in [Dirs -> Directories]
  BY ConstantsTyped DEF TypeInv, TypeOK
<1>2. ASSUME NEW q \in Runs
      PROVE  /\ run'[q].pc \in AfterOpen => run'[q].meta = rev'
             /\ WarrantedSoFar(run'[q], out'[Dir[q]])
  <2>1. CASE q = p
    BY <1>1, <2>1
  <2>2. CASE q # p
    <3>1. run'[q] = run[q] /\ out'[Dir[q]] = out[Dir[q]]
      BY <1>1, <2>2 DEF PrivateDirs
    <3> QED
      BY <3>1 DEF WarrantInv
  <2> QED
    BY <2>1, <2>2
<1> QED
  BY <1>2 DEF WarrantInv

LEMMA WarrantRecord ==
  ASSUME PrivateDirs, TypeInv, WarrantInv, NEW p \in Runs, NEW r,
         run' = [run EXCEPT ![p] = r], UNCHANGED <<rev, out>>,
         r.pc \in AfterOpen => r.meta = rev, WarrantedSoFar(r, out[Dir[p]])
  PROVE  WarrantInv'
<1>1. out' = [out EXCEPT ![Dir[p]] = out[Dir[p]]]
  BY ConstantsTyped DEF TypeInv, TypeOK
<1> QED
  BY <1>1, WarrantFrame

LEMMA WarrantFile ==
  ASSUME PrivateDirs, TypeInv, WarrantInv, NEW p \in Runs, NEW r, NEW f, NEW x,
         run' = [run EXCEPT ![p] = r], Write(p, f, x), UNCHANGED rev,
         r.pc \in AfterOpen => r.meta = rev, WarrantedSoFar(r, [out[Dir[p]] EXCEPT ![f] = x])
  PROVE  WarrantInv'
BY WarrantFrame DEF Write

\* When a run decides, everything a semantic exit code warrants is established.
LEMMA DecisionIsWarranted ==
  ASSUME NEW r, NEW o, NEW acc, RunBacked(r, o, acc), WarrantedSoFar(r, o),
         r.pc \in {"decide", "lock"}
  PROVE  Warranted(r, o)
BY DEF RunBacked, WarrantedSoFar, Warranted, AfterOpen, AfterGates, AfterProduce, AfterConsume,
       AfterLoad, AfterDigest, AfterReport

\* A run keeps its warrant when it ends or goes on to write the lock.
LEMMA WarrantKept ==
  ASSUME NEW r, NEW n, NEW o, NEW acc, RunBacked(r, o, acc), WarrantedSoFar(r, o),
         r.pc \in {"decide", "lock"}, n.pc \in {"done", "lock"},
         n.meta = r.meta, n.cert = r.cert, n.checked = r.checked, n.sha = r.sha
  PROVE  WarrantedSoFar(n, o)
<1>1. Warranted(r, o)
  BY DecisionIsWarranted
<1>2. Warranted(n, o)
  BY <1>1 DEF Warranted, Summary, ManifestOf
<1>3. o.cert = n.cert
  BY DEF RunBacked, AfterConsume, AfterLoad, AfterDigest
<1> QED
  BY <1>2, <1>3 DEF Warranted, WarrantedSoFar

LEMMA StepWarranted ==
  ASSUME PrivateDirs, TypeInv, BackedInv, WarrantInv,
         NEW p \in Runs, Invoke(p) \/ Step(p) \/ Crash(p)
  PROVE  WarrantInv'
<1> DEFINE o == out[Dir[p]]
           r == run[p]
<1> USE DEF AfterOpen, AfterGates, AfterProduce, AfterConsume, AfterLoad, AfterDigest
<1>a. RunBacked(r, o, accepted) /\ RunTyped(r) /\ r \in RunStates
  BY TypeInvSplit DEF BackedInv, RunsTyped, RunTyped
<1>b. Dir[p] \in Dirs /\ o \in Directories
  BY ConstantsTyped DEF TypeInv, TypeOK
<1>c. WarrantedSoFar(r, o) /\ (r.pc \in AfterOpen => r.meta = rev)
  BY DEF WarrantInv
<1>d. ExitInvalid \notin SemanticCodes /\ Traceback \notin SemanticCodes
  BY DEF SemanticCodes, ExitInvalid, Traceback, Ok, ExitRegression, ExitIncomplete, ExitLockMismatch
<1>e. UNCHANGED rev
  BY DEF Invoke, Step, Crash, Open, VerifyCaseProvenance, VerifyPredeclaration, Produce, Consume,
     WriteLogs, LoadCertificate, DigestCertificate, WriteReport, WriteMarkdown, WriteManifest,
     VerifyExit, ApproveLock, WriteLock, CheckLock
\* A run that fails claims nothing.
<1>1. ASSUME NEW code, ExitWith(p, code), code \notin SemanticCodes,
             UNCHANGED out \/ \E f, x : Write(p, f, x)
      PROVE  WarrantInv'
  <2> DEFINE n == [r EXCEPT !.pc = "done", !.exit = code]
  <2>1. run' = [run EXCEPT ![p] = n]
    BY <1>1 DEF ExitWith
  <2>2. n.pc = "done" /\ n.exit = code
    BY <1>a DEF RunStates
  <2>3. \A w : WarrantedSoFar(n, w)
    BY <1>1, <2>2 DEF WarrantedSoFar
  <2>4. ASSUME NEW f, NEW x, Write(p, f, x) PROVE WarrantInv'
    BY <1>e, <2>1, <2>2, <2>3, <2>4, WarrantFile
  <2> HIDE DEF n
  <2> QED
    BY <1>1, <1>e, <2>1, <2>2, <2>3, <2>4, WarrantRecord
\* A run that moves its counter, and what it has then established.
<1>2. ASSUME NEW pc, Goto(p, pc), UNCHANGED out, pc \in AfterOpen, r.pc \in AfterOpen,
             WarrantedSoFar([r EXCEPT !.pc = pc], o)
      PROVE  WarrantInv'
  <2> DEFINE n == [r EXCEPT !.pc = pc]
  <2>1. run' = [run EXCEPT ![p] = n] /\ n.meta = r.meta
    BY <1>a, <1>2 DEF Goto, RunStates
  <2> QED
    BY <1>c, <1>e, <1>2, <2>1, WarrantRecord
<1>3. ASSUME NEW pc, NEW f, NEW x, Goto(p, pc), Write(p, f, x), r.pc \in AfterOpen,
             WarrantedSoFar([r EXCEPT !.pc = pc], [o EXCEPT ![f] = x])
      PROVE  WarrantInv'
  <2> DEFINE n == [r EXCEPT !.pc = pc]
  <2>1. run' = [run EXCEPT ![p] = n] /\ n.meta = r.meta
    BY <1>a, <1>3 DEF Goto, RunStates
  <2> QED
    BY <1>c, <1>e, <1>3, <2>1, WarrantFile
<1>4. CASE Invoke(p)
  <2>1. PICK cmd \in Commands[p], allow \in BOOLEAN :
           run' = [run EXCEPT ![p] = [Fresh EXCEPT !.pc = "open", !.cmd = cmd, !.allow = allow]]
    BY <1>4 DEF Invoke
  <2> DEFINE n == [Fresh EXCEPT !.pc = "open", !.cmd = cmd, !.allow = allow]
  <2>2. n.pc = "open" /\ WarrantedSoFar(n, o)
    BY DEF WarrantedSoFar, Fresh
  <2> QED
    BY <1>4, <1>e, <2>1, <2>2, WarrantRecord DEF Invoke
<1>5. CASE Open(p)
  <2>1. CASE ExitWith(p, ExitInvalid)
    BY <1>1, <1>5, <1>d, <2>1 DEF Open
  <2>2. CASE /\ run' = [run EXCEPT ![p].pc = "provenance", ![p].meta = rev]
             /\ Case[rev].corePinned
    <3> DEFINE n == [r EXCEPT !.pc = "provenance", !.meta = rev]
    <3>1. run' = [run EXCEPT ![p] = n] /\ n.pc = "provenance" /\ n.meta = rev
      BY <1>a, <2>2 DEF RunStates
    <3>2. WarrantedSoFar(n, o)
      BY <2>2, <3>1 DEF WarrantedSoFar
    <3> QED
      BY <1>5, <1>e, <3>1, <3>2, WarrantRecord DEF Open
  <2> QED
    BY <1>5, <2>1, <2>2 DEF Open
<1>6. CASE VerifyCaseProvenance(p) \/ VerifyPredeclaration(p)
  <2>1. ASSUME NEW code, ExitWith(p, code), code = ExitInvalid PROVE WarrantInv'
    BY <1>1, <1>6, <1>d, <2>1 DEF VerifyCaseProvenance, VerifyPredeclaration
  <2>2. ASSUME VerifyCaseProvenance(p), ProvenanceHolds(r.meta, rev), Goto(p, "predeclaration")
        PROVE  WarrantInv'
    <3>1. WarrantedSoFar([r EXCEPT !.pc = "predeclaration"], o)
      BY <1>a, <1>c, <2>2 DEF VerifyCaseProvenance, WarrantedSoFar, At, RunStates, ProvenanceHolds
    <3> QED
      BY <1>2, <2>2, <3>1 DEF VerifyCaseProvenance, At
  <2>3. ASSUME VerifyPredeclaration(p), PredeclarationHolds(r.meta, rev), Goto(p, "cert")
        PROVE  WarrantInv'
    <3>1. WarrantedSoFar([r EXCEPT !.pc = "cert"], o)
      BY <1>a, <1>c, <2>3 DEF VerifyPredeclaration, WarrantedSoFar, At, RunStates,
         PredeclarationHolds
    <3> QED
      BY <1>2, <2>3, <3>1 DEF VerifyPredeclaration, At
  <2> QED
    BY <1>6, <2>1, <2>2, <2>3 DEF VerifyCaseProvenance, VerifyPredeclaration
<1>7. CASE Produce(p)
  <2> DEFINE x == Case[rev].assurance
  <2>1. CASE ExitWith(p, ExitInvalid)
    BY <1>1, <1>7, <1>d, <2>1 DEF Produce
  <2>2. CASE Write(p, "cert", x) /\ Core[x].producer = "accepts" /\ Goto(p, "consume")
    <3>1. [o EXCEPT !["cert"] = x].cert = x
      BY <1>b DEF Directories
    <3>2. WarrantedSoFar([r EXCEPT !.pc = "consume"], [o EXCEPT !["cert"] = x])
      BY <1>a, <1>c, <1>7, <2>2, <3>1 DEF Produce, WarrantedSoFar, At, RunStates
    <3> QED
      BY <1>3, <1>7, <2>2, <3>2 DEF Produce, At
  <2> QED
    BY <1>7, <2>1, <2>2 DEF Produce
<1>8. CASE Consume(p)
  <2> DEFINE c == Artifact(p, "cert")
             n == [r EXCEPT !.pc = "logs", !.checked = c]
  <2>1. CASE ExitWith(p, ExitInvalid)
    BY <1>1, <1>8, <1>d, <2>1 DEF Consume
  <2>2. CASE /\ run' = [run EXCEPT ![p].pc = "logs", ![p].checked = c]
             /\ ConsumerAccepts(c, rev)
    <3>1. run' = [run EXCEPT ![p] = n] /\ n.pc = "logs" /\ n.meta = r.meta
      BY <1>a, <2>2 DEF RunStates
    <3>2. WarrantedSoFar(n, o)
      BY <1>c, <1>8, <2>2, <3>1 DEF Consume, WarrantedSoFar, At, Artifact, ConsumerAccepts
    <3> QED
      BY <1>c, <1>8, <1>e, <3>1, <3>2, WarrantRecord DEF Consume, At
  <2> QED
    BY <1>8, <2>1, <2>2 DEF Consume
<1>9. CASE WriteLogs(p) \/ WriteReport(p) \/ WriteMarkdown(p)
  <2>1. ASSUME NEW f \in {"logs", "report", "markdown"}, NEW x,
               NEW pc \in {"load", "markdown", "manifest"},
               r.pc \in {"logs", "report", "markdown"}, Goto(p, pc), Write(p, f, x)
        PROVE  WarrantInv'
    <3>1. [o EXCEPT ![f] = x].cert = o.cert
      BY <1>b DEF Directories
    <3>2. WarrantedSoFar([r EXCEPT !.pc = pc], [o EXCEPT ![f] = x])
      BY <1>a, <1>c, <2>1, <3>1 DEF WarrantedSoFar, RunStates
    <3> QED
      BY <1>3, <2>1, <3>2
  <2> QED
    BY <1>9, <2>1 DEF WriteLogs, WriteReport, WriteMarkdown, At
<1>10. CASE LoadCertificate(p) \/ DigestCertificate(p)
  <2>1. CASE ExitWith(p, Traceback)
    BY <1>1, <1>10, <1>d, <2>1 DEF LoadCertificate, DigestCertificate
  <2>2. ASSUME NEW n, run' = [run EXCEPT ![p] = n], n.pc \in {"digest", "report"},
               n.meta = r.meta
        PROVE  WarrantInv'
    <3>1. r.pc \in {"load", "digest"} /\ UNCHANGED out
      BY <1>10 DEF LoadCertificate, DigestCertificate, At
    <3>2. WarrantedSoFar(n, o)
      BY <1>c, <2>2, <3>1 DEF WarrantedSoFar
    <3> QED
      BY <1>c, <1>e, <2>2, <3>1, <3>2, WarrantRecord
  <2>3. ASSUME NEW c, run' = [run EXCEPT ![p].pc = "digest", ![p].cert = c] PROVE WarrantInv'
    <3> DEFINE n == [r EXCEPT !.pc = "digest", !.cert = c]
    <3>1. run' = [run EXCEPT ![p] = n] /\ n.pc = "digest" /\ n.meta = r.meta
      BY <1>a, <2>3 DEF RunStates
    <3> QED
      BY <2>2, <3>1
  <2>4. ASSUME NEW c, run' = [run EXCEPT ![p].pc = "report", ![p].sha = c] PROVE WarrantInv'
    <3> DEFINE n == [r EXCEPT !.pc = "report", !.sha = c]
    <3>1. run' = [run EXCEPT ![p] = n] /\ n.pc = "report" /\ n.meta = r.meta
      BY <1>a, <2>4 DEF RunStates
    <3> QED
      BY <2>2, <3>1
  <2> QED
    BY <1>10, <2>1, <2>3, <2>4 DEF LoadCertificate, DigestCertificate
<1>11. CASE WriteManifest(p)
  <2> DEFINE m == [id |-> Case[r.meta].id, assurance |-> Case[rev].assurance,
                   pins |-> MetaPins(r.meta), cert |-> r.sha,
                   report |-> Artifact(p, "report"), markdown |-> Artifact(p, "markdown"),
                   logs |-> Artifact(p, "logs")]
             n == [r EXCEPT !.pc = "decide"]
             w == [o EXCEPT !["manifest"] = m]
  <2>1. CASE ExitWith(p, Traceback)
    BY <1>1, <1>11, <1>d, <2>1 DEF WriteManifest
  <2>2. CASE Write(p, "manifest", m) /\ Goto(p, "decide")
    <3>1. r.pc = "manifest"
      BY <1>11 DEF WriteManifest, At
    <3>2. /\ w.manifest = m /\ w.markdown = o.markdown
          /\ w.report = o.report /\ w.cert = o.cert /\ w.logs = o.logs
      BY <1>b DEF Directories
    <3>3. n.pc = "decide" /\ n.meta = r.meta /\ n.cert = r.cert
      BY <1>a DEF RunStates
    <3>4. r.sha = o.cert /\ r.cert = o.cert /\ o.cert = Case[rev].assurance
      BY <1>a, <1>c, <3>1 DEF RunBacked, WarrantedSoFar
    <3>5. w.manifest = ManifestOf(n, w)
      BY <3>2, <3>3, <3>4 DEF ManifestOf, Artifact
    <3>6. WarrantedSoFar(n, w)
      BY <1>c, <3>1, <3>2, <3>3, <3>5 DEF WarrantedSoFar
    <3> QED
      BY <1>3, <2>2, <3>1, <3>6
  <2> QED
    BY <1>11, <2>1, <2>2 DEF WriteManifest
<1>12. CASE VerifyExit(p) \/ ApproveLock(p) \/ WriteLock(p) \/ CheckLock(p)
  <2>1. ASSUME NEW n, run' = [run EXCEPT ![p] = n], n.pc \in {"done", "lock"},
               n.meta = r.meta, n.cert = r.cert, n.checked = r.checked, n.sha = r.sha
        PROVE  WarrantInv'
    <3>1. r.pc \in {"decide", "lock"} /\ UNCHANGED out
      BY <1>12 DEF VerifyExit, ApproveLock, WriteLock, CheckLock, At
    <3>2. WarrantedSoFar(n, o)
      BY <1>a, <1>c, <2>1, <3>1, WarrantKept
    <3> QED
      BY <1>c, <1>e, <2>1, <3>1, <3>2, WarrantRecord
  <2>2. ASSUME NEW code, ExitWith(p, code) PROVE WarrantInv'
    <3> DEFINE n == [r EXCEPT !.pc = "done", !.exit = code]
    <3>1. /\ run' = [run EXCEPT ![p] = n] /\ n.pc = "done"
          /\ n.meta = r.meta /\ n.cert = r.cert /\ n.checked = r.checked /\ n.sha = r.sha
      BY <1>a, <2>2 DEF ExitWith, RunStates
    <3> QED
      BY <2>1, <3>1
  <2>3. ASSUME Goto(p, "lock") PROVE WarrantInv'
    <3> DEFINE n == [r EXCEPT !.pc = "lock"]
    <3>1. /\ run' = [run EXCEPT ![p] = n] /\ n.pc = "lock"
          /\ n.meta = r.meta /\ n.cert = r.cert /\ n.checked = r.checked /\ n.sha = r.sha
      BY <1>a, <2>3 DEF Goto, RunStates
    <3> QED
      BY <2>1, <3>1
  <2>4. ASSUME CheckLock(p) PROVE WarrantInv'
    <3>1. PICK l, code : run' = [run EXCEPT ![p].pc = "done", ![p].seen = l, ![p].exit = code]
      BY <2>4 DEF CheckLock
    <3> DEFINE n == [r EXCEPT !.pc = "done", !.seen = l, !.exit = code]
    <3>2. /\ run' = [run EXCEPT ![p] = n] /\ n.pc = "done"
          /\ n.meta = r.meta /\ n.cert = r.cert /\ n.checked = r.checked /\ n.sha = r.sha
      BY <1>a, <3>1 DEF RunStates
    <3> QED
      BY <2>1, <3>2
  <2> QED
    BY <1>12, <2>2, <2>3, <2>4 DEF VerifyExit, ApproveLock, WriteLock
<1>13. CASE Crash(p)
  <2>1. Fresh.pc = "idle" /\ (\A w : WarrantedSoFar(Fresh, w)) /\ run' = [run EXCEPT ![p] = Fresh]
    BY <1>13 DEF WarrantedSoFar, Fresh, Crash
  <2>2. UNCHANGED out \/ \E f, x : Write(p, f, x)
    BY <1>13 DEF Crash
  <2> QED
    BY <1>e, <2>1, <2>2, WarrantRecord, WarrantFile
<1> QED
  BY <1>4, <1>5, <1>6, <1>7, <1>8, <1>9, <1>10, <1>11, <1>12, <1>13 DEF Step

LEMMA NextWarranted ==
  ASSUME PrivateDirs, ~EditsDuringRun
  PROVE  TypeInv /\ BackedInv /\ WarrantInv /\ [Next]_vars => WarrantInv'
<1> SUFFICES ASSUME TypeInv, BackedInv, WarrantInv, [Next]_vars PROVE WarrantInv'
  OBVIOUS
<1>1. CASE Checkout
  BY <1>1 DEF Checkout, WarrantInv, AfterOpen, AfterConsume, AfterLoad, AfterDigest
<1>2. CASE EditLock \/ UNCHANGED vars
  BY <1>2 DEF EditLock, vars, WarrantInv
<1> QED
  BY <1>1, <1>2, StepWarranted DEF Next

\* With private output directories and a checkout that stays put under a run,
\* an exit code 0, 10, 20 or 40 warrants the whole pipeline of perform_verify:
\* core pin, provenance and predeclaration of one revision, the certificate of
\* that revision accepted by the consumer, and its artifacts in the directory.
THEOREM SemanticExitsAreWarranted ==
  ASSUME PrivateDirs, ~EditsDuringRun PROVE Spec => []SemanticExitIsWarranted
<1>1. Spec => [](TypeInv /\ BackedInv /\ WarrantInv)
  BY TypeInit, NextTyped, BackedInit, NextBacked, WarrantInit, NextWarranted, PTL DEF Spec
<1>2. WarrantInv => SemanticExitIsWarranted
  BY DEF WarrantInv, WarrantedSoFar, Warranted, ManifestOf, SemanticCodes, SemanticExitIsWarranted
<1> QED
  BY <1>1, <1>2, PTL

-----------------------------------------------------------------------------
(* make_lock and compare_lock.                                               *)

\* The lock made from a report is one compare_lock accepts for that report.
LEMMA MadeLockMatches ==
  ASSUME NEW s \in Summaries
  PROVE  LockMatches(s, MakeLock(s))
<1>1. s.commit.status \in Statuses
  BY DEF Summaries, Commits
<1> QED
  BY <1>1 DEF LockMatches, MakeLock, Gate, Reproduction

\* Only the comparison with the lock ends a `check` run with a mismatch.
LEMMA OnlyCheckLockMismatches ==
  ASSUME TypeInv, [Next]_vars, NEW p \in Runs, run'[p] # run[p],
         run'[p].pc = "done", run'[p].cmd = "check", run'[p].exit = ExitLockMismatch
  PROVE  CheckLock(p)
<1> USE DEF TypeInv, TypeOK
<1>1. run[p] \in RunStates /\ (Invoke(p) \/ Step(p) \/ Crash(p))
  BY RunChangesOnlyItself
<1>2. ~Invoke(p) /\ ~Crash(p)
  <2>1. \A r : run' = [run EXCEPT ![p] = r] => r.pc = "done"
    OBVIOUS
  <2>2. ~Crash(p)
    BY <2>1 DEF Crash, Fresh
  <2>3. ASSUME NEW cmd, NEW allow,
               run' = [run EXCEPT ![p] = [Fresh EXCEPT !.pc = "open", !.cmd = cmd, !.allow = allow]]
        PROVE  FALSE
    <3>1. [Fresh EXCEPT !.pc = "open", !.cmd = cmd, !.allow = allow].pc = "open"
      BY DEF Fresh
    <3> QED
      BY <2>1, <2>3, <3>1
  <2> QED
    BY <2>2, <2>3 DEF Invoke
<1>3. ASSUME NEW pc, Goto(p, pc) PROVE pc = "done"
  BY <1>1, <1>3 DEF Goto, RunStates
<1>4. ASSUME NEW code, ExitWith(p, code) PROVE code = ExitLockMismatch /\ run[p].cmd = "check"
  BY <1>1, <1>4 DEF ExitWith, RunStates
<1>5. /\ ExitInvalid # ExitLockMismatch /\ Traceback # ExitLockMismatch
      /\ ExitRegression # ExitLockMismatch /\ Ok # ExitLockMismatch
  BY DEF ExitInvalid, Traceback, ExitLockMismatch, Ok, ExitRegression
<1>6. ~(Open(p) \/ VerifyCaseProvenance(p) \/ VerifyPredeclaration(p) \/ Produce(p))
  <2>1. ~Open(p)
    BY <1>1, <1>4, <1>5 DEF Open, RunStates
  <2> QED
    BY <2>1, <1>3, <1>4, <1>5 DEF VerifyCaseProvenance, VerifyPredeclaration, Produce
<1>7. ~(Consume(p) \/ LoadCertificate(p) \/ DigestCertificate(p))
  <2>1. ASSUME NEW c, \/ run' = [run EXCEPT ![p].pc = "logs", ![p].checked = c]
                      \/ run' = [run EXCEPT ![p].pc = "digest", ![p].cert = c]
                      \/ run' = [run EXCEPT ![p].pc = "report", ![p].sha = c]
        PROVE  FALSE
    BY <1>1, <2>1 DEF RunStates
  <2> QED
    BY <2>1, <1>4, <1>5 DEF Consume, LoadCertificate, DigestCertificate
<1>8. ~(WriteLogs(p) \/ WriteReport(p) \/ WriteMarkdown(p) \/ WriteManifest(p))
  BY <1>3, <1>4, <1>5 DEF WriteLogs, WriteReport, WriteMarkdown, WriteManifest
<1>9. ~(VerifyExit(p) \/ ApproveLock(p) \/ WriteLock(p))
  BY <1>3, <1>4, <1>5 DEF VerifyExit, ApproveLock, WriteLock
<1> QED
  BY <1>1, <1>2, <1>6, <1>7, <1>8, <1>9 DEF Step

\* Whatever the locks, the directories and the other runs do, `check` never
\* reports a mismatch with the lock that `lock` would write for its result.
THEOREM MismatchesAreReal == Spec => []NoSpuriousMismatch
<1>1. Init => NoSpuriousMismatch
  BY DEF Init, NoSpuriousMismatch, Fresh
<1>2. TypeInv /\ NoSpuriousMismatch /\ [Next]_vars => NoSpuriousMismatch'
  <2> SUFFICES ASSUME TypeInv, NoSpuriousMismatch, [Next]_vars, NEW p \in Runs,
                      run'[p].pc = "done", run'[p].cmd = "check", run'[p].exit = ExitLockMismatch
               PROVE  run'[p].seen # MakeLock(Summary(run'[p]))
    BY DEF NoSpuriousMismatch
  <2>1. CASE run'[p] = run[p]
    BY <2>1 DEF NoSpuriousMismatch
  <2>2. CASE run'[p] # run[p]
    <3> DEFINE s == Summary(run[p])
    <3>1. CheckLock(p) /\ run[p] \in RunStates /\ run \in [Runs -> RunStates]
      BY <2>2, OnlyCheckLockMismatches DEF TypeInv, TypeOK
    <3>2. Summary(run'[p]) = s
      BY <3>1 DEF CheckLock, Summary, RunStates
    <3>3. s \in Summaries /\ MakeLock(s) \in Locks
      <4>1. RunTyped(run[p]) /\ run[p].pc \in AfterDigest
        BY <3>1, TypeInvSplit DEF RunsTyped, CheckLock, At, AfterDigest
      <4> QED
        BY <4>1, SummaryTyped DEF RunTyped, AfterOpen, AfterConsume, AfterLoad
    <3>4. LockMatches(s, MakeLock(s))
      BY <3>3, MadeLockMatches
    <3>5. run'[p].seen # MakeLock(s)
      <4>1. Ok # ExitLockMismatch
        BY DEF Ok, ExitLockMismatch
      <4>2. /\ run'[p].seen = IF lockFile \in Locks /\ Case[rev].adapter THEN lockFile ELSE None
            /\ lockFile \in Locks /\ LockMatches(s, lockFile) =>
                 run'[p].exit \in {ExitInvalid, Ok}
        BY <3>1, ConstantsTyped DEF CheckLock, RunStates
      <4>3. ExitInvalid # ExitLockMismatch
        BY DEF ExitInvalid, ExitLockMismatch
      <4> QED
        BY <3>3, <3>4, <4>1, <4>2, <4>3, ConstantsTyped
    <3> QED
      BY <3>2, <3>5
  <2> QED
    BY <2>1, <2>2
<1>3. Spec => []TypeInv
  BY TypeInit, NextTyped, PTL DEF Spec
<1> QED
  BY <1>1, <1>2, <1>3, PTL DEF Spec

-----------------------------------------------------------------------------
(* The pipeline with private output directories implements AssuranceGate:    *)
(* each step maps to the step named in the comment of its case, or to a      *)
(* stutter.                                                                  *)

Verdicts     == [p \in Runs |-> run[p].cert]
Publications == [d \in Dirs |-> Published(d)]

\* A run whose parsed certificate is the same keeps its verdict.
LEMMA VerdictsKept ==
  ASSUME TypeInv, NEW p \in Runs, NEW r, run' = [run EXCEPT ![p] = r], r.cert = run[p].cert
  PROVE  UNCHANGED Verdicts
<1>1. run \in [Runs -> RunStates]
  BY DEF TypeInv, TypeOK
<1>2. \A q \in Runs : run'[q].cert = run[q].cert
  BY <1>1
<1> QED
  BY <1>2 DEF Verdicts

LEMMA VerdictSet ==
  ASSUME TypeInv, NEW p \in Runs, NEW r, run' = [run EXCEPT ![p] = r]
  PROVE  Verdicts' = [Verdicts EXCEPT ![p] = r.cert]
<1>1. run \in [Runs -> RunStates]
  BY DEF TypeInv, TypeOK
<1>2. \A q \in Runs : run'[q].cert = IF q = p THEN r.cert ELSE run[q].cert
  BY <1>1
<1> QED
  BY <1>2 DEF Verdicts

\* Moving the counter or ending keeps every verdict.
LEMMA MovesKeepVerdicts ==
  ASSUME TypeInv, NEW p \in Runs,
         (\E pc : Goto(p, pc)) \/ (\E code : ExitWith(p, code))
  PROVE  UNCHANGED Verdicts
<1>1. run[p] \in RunStates
  BY DEF TypeInv, TypeOK
<1>2. ASSUME NEW pc, Goto(p, pc) PROVE UNCHANGED Verdicts
  <2> DEFINE r == [run[p] EXCEPT !.pc = pc]
  <2>1. run' = [run EXCEPT ![p] = r] /\ r.cert = run[p].cert
    BY <1>1, <1>2 DEF Goto, RunStates
  <2> QED
    BY <2>1, VerdictsKept
<1>3. ASSUME NEW code, ExitWith(p, code) PROVE UNCHANGED Verdicts
  <2> DEFINE r == [run[p] EXCEPT !.pc = "done", !.exit = code]
  <2>1. run' = [run EXCEPT ![p] = r] /\ r.cert = run[p].cert
    BY <1>1, <1>3 DEF ExitWith, RunStates
  <2> QED
    BY <2>1, VerdictsKept
<1> QED
  BY <1>2, <1>3

\* Only the report file is a publication.
LEMMA PublicationsKept ==
  ASSUME TypeInv, NEW p \in Runs, NEW f \in OutFiles \ {"report"}, NEW x, Write(p, f, x)
  PROVE  UNCHANGED Publications
<1>1. out \in [Dirs -> Directories] /\ Dir[p] \in Dirs
  BY ConstantsTyped DEF TypeInv, TypeOK
<1>2. \A d \in Dirs : out'[d].report = out[d].report
  BY <1>1 DEF Write, Directories
<1> QED
  BY <1>2 DEF Publications, Published

LEMMA PublicationSet ==
  ASSUME TypeInv, NEW p \in Runs, NEW x, Write(p, "report", x)
  PROVE  Publications' = [Publications EXCEPT ![Dir[p]] =
                            IF x \in Summaries THEN x.commit.assurance ELSE None]
<1>1. out \in [Dirs -> Directories] /\ Dir[p] \in Dirs
  BY ConstantsTyped DEF TypeInv, TypeOK
<1>2. \A d \in Dirs : out'[d].report = IF d = Dir[p] THEN x ELSE out[d].report
  BY <1>1 DEF Write, Directories
<1> QED
  BY <1>1, <1>2 DEF Publications, Published

LEMMA SameDirectoriesSamePublications ==
  UNCHANGED out => UNCHANGED Publications
BY DEF Publications, Published

LEMMA RefineInit == Init => Promise!Init
BY ConstantsTyped DEF Init, Promise!Init, Fresh, EmptyDirectory, OutFiles, Published

\* The steps of one invocation.
LEMMA RefineStep ==
  ASSUME PrivateDirs, TypeInv, BackedInv, NEW p \in Runs, Invoke(p) \/ Step(p) \/ Crash(p)
  PROVE  [Promise!Next]_(Promise!vars)
<1> DEFINE r == run[p]
<1> USE SameDirectoriesSamePublications
<1>a. /\ r \in RunStates /\ RunBacked(r, out[Dir[p]], accepted) /\ RunTyped(r)
      /\ Dir[p] \in Dirs
  BY TypeInvSplit, ConstantsTyped DEF BackedInv, RunsTyped
<1>b. ASSUME UNCHANGED <<accepted, Publications, Verdicts>>
      PROVE  UNCHANGED Promise!vars
  BY <1>b DEF Promise!vars, Publications, Verdicts
<1>c. UNCHANGED <<accepted, out>> /\ ((\E pc : Goto(p, pc)) \/ (\E code : ExitWith(p, code)))
        => UNCHANGED Promise!vars
  BY <1>b, MovesKeepVerdicts
\* Forget
<1>d. ASSUME run' = [run EXCEPT ![p] = r'], r'.cert = None, UNCHANGED accepted,
             \/ UNCHANGED Publications
             \/ \E d \in Dirs : Publications' = [Publications EXCEPT ![d] = None]
      PROVE  Promise!Forget(p)
  <2>1. Verdicts' = [Verdicts EXCEPT ![p] = None]
    BY <1>d, VerdictSet
  <2> QED
    BY <1>d, <2>1 DEF Promise!Forget, Verdicts, Publications
<1>1. CASE Invoke(p)
  <2>1. PICK cmd \in Commands[p], allow \in BOOLEAN :
           run' = [run EXCEPT ![p] = [Fresh EXCEPT !.pc = "open", !.cmd = cmd, !.allow = allow]]
    BY <1>1 DEF Invoke
  <2> DEFINE n == [Fresh EXCEPT !.pc = "open", !.cmd = cmd, !.allow = allow]
  <2>2. n.cert = None
    BY DEF Fresh
  <2>3. run' = [run EXCEPT ![p] = r'] /\ r'.cert = None
    BY <2>1, <2>2 DEF TypeInv, TypeOK
  <2>4. Promise!Forget(p)
    BY <1>1, <1>d, <2>3 DEF Invoke
  <2> QED
    BY <2>4 DEF Promise!Next
<1>2. CASE Open(p) \/ VerifyCaseProvenance(p) \/ VerifyPredeclaration(p)
  <2>1. CASE run' = [run EXCEPT ![p].pc = "provenance", ![p].meta = rev] /\ UNCHANGED <<out, accepted>>
    <3> DEFINE n == [r EXCEPT !.pc = "provenance", !.meta = rev]
    <3>1. run' = [run EXCEPT ![p] = n] /\ n.cert = r.cert
      BY <1>a, <2>1 DEF RunStates
    <3> QED
      BY <1>b, <2>1, <3>1, VerdictsKept
  <2> QED
    BY <1>2, <1>c, <2>1 DEF Open, VerifyCaseProvenance, VerifyPredeclaration
<1>3. CASE \/ Produce(p) \/ WriteLogs(p) \/ WriteMarkdown(p) \/ WriteManifest(p)
           \/ VerifyExit(p) \/ ApproveLock(p) \/ WriteLock(p)
  <2>1. (\E pc : Goto(p, pc)) \/ (\E code : ExitWith(p, code))
    BY <1>3 DEF Produce, WriteLogs, WriteMarkdown, WriteManifest, VerifyExit, ApproveLock, WriteLock
  <2>2. UNCHANGED accepted /\ (UNCHANGED out \/ \E f \in OutFiles \ {"report"} : \E x : Write(p, f, x))
    BY <1>3 DEF Produce, WriteLogs, WriteMarkdown, WriteManifest, VerifyExit, ApproveLock,
       WriteLock, OutFiles
  <2>3. UNCHANGED Verdicts
    BY <2>1, MovesKeepVerdicts
  <2>4. UNCHANGED Publications
    BY <2>2, PublicationsKept
  <2> QED
    BY <1>b, <2>2, <2>3, <2>4
\* Accept
<1>4. CASE Consume(p)
  <2> DEFINE c == Artifact(p, "cert")
             n == [r EXCEPT !.pc = "logs", !.checked = c]
  <2>1. CASE ExitWith(p, ExitInvalid) /\ UNCHANGED accepted
    BY <1>4, <1>c, <2>1 DEF Consume
  <2>2. CASE /\ c \in Assurances
             /\ run' = [run EXCEPT ![p].pc = "logs", ![p].checked = c]
             /\ accepted' = accepted \cup {c}
    <3>1. run' = [run EXCEPT ![p] = n] /\ n.cert = r.cert
      BY <1>a, <2>2 DEF RunStates
    <3>2. UNCHANGED <<Verdicts, Publications>>
      BY <1>4, <3>1, VerdictsKept DEF Consume
    <3>3. Promise!Accept(c)
      BY <2>2, <3>2 DEF Promise!Accept, Verdicts, Publications
    <3> QED
      BY <2>2, <3>3 DEF Promise!Next
  <2> QED
    BY <1>4, <2>1, <2>2 DEF Consume
\* Derive
<1>5. CASE LoadCertificate(p)
  <2> DEFINE c == Artifact(p, "cert")
             n == [r EXCEPT !.pc = "digest", !.cert = c]
  <2>1. CASE c \in Assurances
    <3>1. run' = [run EXCEPT ![p] = n] /\ n.cert = c /\ r.pc = "load"
      BY <1>5, <1>a, <2>1 DEF LoadCertificate, RunStates, At
    <3>2. c \in accepted /\ r.cert = None
      BY <1>a, <3>1 DEF RunBacked, AfterConsume, AfterLoad, AfterDigest, BeforeLoad, Artifact
    <3>3. PICK x \in Assurances :
             x \in accepted /\ Verdicts' = [Verdicts EXCEPT ![p] = x] /\ Verdicts[p] = None
      BY <2>1, <3>1, <3>2, VerdictSet DEF Verdicts
    <3>4. UNCHANGED <<accepted, Publications>>
      BY <1>5 DEF LoadCertificate
    <3>5. Promise!Derive(p, x)
      BY <3>3, <3>4 DEF Promise!Derive, Verdicts, Publications
    <3> QED
      BY <3>5 DEF Promise!Next
  <2>2. CASE c \notin Assurances
    BY <1>5, <1>c, <2>2 DEF LoadCertificate
  <2> QED
    BY <2>1, <2>2
<1>6. CASE DigestCertificate(p)
  <2> DEFINE c == Artifact(p, "cert")
             n == [r EXCEPT !.pc = "report", !.sha = c]
  <2>1. CASE c # None
    <3>1. run' = [run EXCEPT ![p] = n] /\ n.cert = r.cert
      BY <1>6, <1>a, <2>1 DEF DigestCertificate, RunStates
    <3> QED
      BY <1>6, <1>b, <3>1, VerdictsKept DEF DigestCertificate
  <2>2. CASE c = None
    BY <1>6, <1>c, <2>2 DEF DigestCertificate
  <2> QED
    BY <2>1, <2>2
\* Publish
<1>7. CASE WriteReport(p)
  <2>1. r.pc = "report" /\ UNCHANGED <<accepted, Verdicts>>
    BY <1>7, MovesKeepVerdicts DEF WriteReport, At
  <2>2. r.cert \in Assurances /\ Summary(r) \in Summaries
    BY <1>a, <2>1, SummaryTyped
    DEF RunTyped, AfterOpen, AfterConsume, AfterLoad, AfterDigest
  <2>3. Publications' = [Publications EXCEPT ![Dir[p]] = Verdicts[p]]
    BY <1>7, <2>2, PublicationSet DEF WriteReport, Summary, Verdicts
  <2>4. Verdicts[p] # None
    BY <2>2, ConstantsTyped DEF Verdicts
  <2>5. Promise!Publish(p, Dir[p])
    BY <2>1, <2>3, <2>4 DEF Promise!Publish, Verdicts, Publications
  <2> QED
    BY <1>a, <2>5 DEF Promise!Next
<1>8. CASE CheckLock(p)
  <2>1. PICK l, code : run' = [run EXCEPT ![p].pc = "done", ![p].seen = l, ![p].exit = code]
    BY <1>8 DEF CheckLock
  <2> DEFINE n == [r EXCEPT !.pc = "done", !.seen = l, !.exit = code]
  <2>2. run' = [run EXCEPT ![p] = n] /\ n.cert = r.cert
    BY <1>a, <2>1 DEF RunStates
  <2> QED
    BY <1>8, <1>b, <2>2, VerdictsKept DEF CheckLock
<1>9. CASE Crash(p)
  <2>1. run' = [run EXCEPT ![p] = r'] /\ r'.cert = None /\ UNCHANGED accepted
    BY <1>9 DEF Crash, Fresh, TypeInv, TypeOK
  <2>2. CASE UNCHANGED out
    BY <1>d, <2>1, <2>2 DEF Promise!Next
  <2>3. CASE r.pc \in OutFiles /\ Write(p, r.pc, Torn)
    <3>1. CASE r.pc = "report"
      <4>1. Publications' = [Publications EXCEPT ![Dir[p]] = None]
        BY <2>3, <3>1, PublicationSet, ConstantsTyped
      <4> QED
        BY <1>a, <1>d, <2>1, <4>1 DEF Promise!Next
    <3>2. CASE r.pc # "report"
      BY <1>d, <2>1, <2>3, <3>2, PublicationsKept DEF Promise!Next
    <3> QED
      BY <3>1, <3>2
  <2> QED
    BY <1>9, <2>2, <2>3 DEF Crash
<1> QED
  BY <1>1, <1>2, <1>3, <1>4, <1>5, <1>6, <1>7, <1>8, <1>9 DEF Step

\* With private output directories the pipeline of risu_verify.py implements
\* AssuranceGate: acceptance by the consumer comes before a verdict, a verdict
\* before a report, in every interleaving and across crashes.
THEOREM PipelineImplementsGate ==
  ASSUME PrivateDirs PROVE Spec => ImplementsGate
<1>1. TypeInv /\ BackedInv /\ [Next]_vars => [Promise!Next]_(Promise!vars)
  <2> SUFFICES ASSUME TypeInv, BackedInv, [Next]_vars PROVE [Promise!Next]_(Promise!vars)
    OBVIOUS
  <2>1. CASE Checkout \/ EditLock \/ UNCHANGED vars
    BY <2>1 DEF Checkout, EditLock, vars, Promise!vars, Published
  <2> QED
    BY <2>1, RefineStep DEF Next
<1>2. Spec => []TypeInv /\ []BackedInv
  BY TypeInit, NextTyped, BackedInit, NextBacked, PTL DEF Spec
<1> QED
  BY <1>1, <1>2, RefineInit, PTL DEF Spec, ImplementsGate, Promise!Spec

-----------------------------------------------------------------------------
(* How an invocation ends *)

\* The steps an invocation has at most before it.
StepsLeft ==
  [open |-> 13, provenance |-> 12, predeclaration |-> 11, cert |-> 10, consume |-> 9, logs |-> 8,
   load |-> 7, digest |-> 6, report |-> 5, markdown |-> 4, manifest |-> 3, decide |-> 2, lock |-> 1,
   idle |-> 0, done |-> 0]

\* Whatever moves an active invocation brings it closer to its end.
Descends(p) ==
  run'[p] # run[p] /\ run[p].pc \notin {"idle", "done"} =>
    StepsLeft[run'[p].pc] < StepsLeft[run[p].pc]

LEMMA StepDescends ==
  ASSUME TypeOK, NEW p \in Runs, Step(p)
  PROVE  Descends(p) /\ \A q \in Runs \ {p} : run'[q] = run[q]
<1>1. run \in [Runs -> RunStates]
  BY DEF TypeOK
<1>2. CASE Open(p) \/ VerifyCaseProvenance(p) \/ VerifyPredeclaration(p)
  BY <1>1, <1>2 DEF Open, VerifyCaseProvenance, VerifyPredeclaration, At, Goto, ExitWith, Descends,
     StepsLeft, RunStates
<1>3. CASE Produce(p) \/ Consume(p) \/ WriteLogs(p)
  BY <1>1, <1>3 DEF Produce, Consume, WriteLogs, At, Goto, ExitWith, Descends, StepsLeft, RunStates
<1>4. CASE LoadCertificate(p) \/ DigestCertificate(p)
  BY <1>1, <1>4 DEF LoadCertificate, DigestCertificate, At, Goto, ExitWith, Descends, StepsLeft,
     RunStates
<1>5. CASE WriteReport(p) \/ WriteMarkdown(p) \/ WriteManifest(p)
  BY <1>1, <1>5 DEF WriteReport, WriteMarkdown, WriteManifest, At, Goto, ExitWith, Descends,
     StepsLeft, RunStates
<1>6. CASE VerifyExit(p) \/ ApproveLock(p) \/ WriteLock(p)
  BY <1>1, <1>6 DEF VerifyExit, ApproveLock, WriteLock, At, Goto, ExitWith, Descends, StepsLeft,
     RunStates
<1>7. CASE CheckLock(p)
  BY <1>1, <1>7 DEF CheckLock, At, Descends, StepsLeft, RunStates
<1> QED
  BY <1>2, <1>3, <1>4, <1>5, <1>6, <1>7 DEF Step

\* No step of the pipeline goes back: an invocation takes at most thirteen steps and is
\* then at its exit code, whatever other invocations, authors and its own death do
\* (src/risu_verify.py perform_verify).  What is left of EveryRunEnds is that the operating
\* system lets it take them.
THEOREM InvocationsDescend == Spec => [][\A p \in Runs : Descends(p)]_vars
<1>1. TypeInv /\ [Next]_vars => [\A p \in Runs : Descends(p)]_vars
  <2> SUFFICES ASSUME TypeInv, Next, NEW p \in Runs PROVE Descends(p)
    OBVIOUS
  <2>1. TypeOK /\ run \in [Runs -> RunStates]
    BY DEF TypeInv, TypeOK
  <2>2. CASE \E q \in Runs : Step(q)
    BY <2>1, <2>2, StepDescends DEF Descends
  <2>3. ASSUME NEW q \in Runs, Invoke(q) \/ Crash(q) PROVE Descends(p)
    <3>1. Fresh.pc = "idle"
      BY DEF Fresh
    <3>2. run[p].pc \in {"open", "provenance", "predeclaration", "cert", "consume", "logs", "load",
                         "digest", "report", "markdown", "manifest", "decide", "lock", "idle", "done"}
      BY <2>1 DEF RunStates, Pcs, OutFiles
    <3>3. run[p].pc \notin {"idle", "done"} => StepsLeft["idle"] < StepsLeft[run[p].pc]
      BY <3>2 DEF StepsLeft
    <3>4. run'[p] = run[p] \/ run[p].pc \in {"idle", "done"} \/ run'[p].pc = "idle"
      BY <3>1, <2>1, <2>3 DEF Invoke, Crash
    <3> QED
      BY <3>3, <3>4 DEF Descends
  <2>4. CASE Checkout \/ EditLock
    BY <2>4 DEF Checkout, EditLock, Descends
  <2> QED
    BY <2>2, <2>3, <2>4 DEF Next
<1> QED
  BY <1>1, TypeInit, NextTyped, PTL DEF Spec
=============================================================================
