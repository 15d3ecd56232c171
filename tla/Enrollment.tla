----------------------------- MODULE Enrollment ------------------------------
(***************************************************************************)
(* The prospective corpus from its candidate pool to an enrollment of       *)
(* Target units (eight in the code), as tools/corpus01_validate.py lets it  *)
(* grow.  CI runs the validator on every commit, so a commit is adopted     *)
(* when the validator passes on the whole tree it leaves: pool, screening   *)
(* log, enrollment and friction ledgers.                                    *)
(*                                                                         *)
(* The log and the enrollment are appended to, as the screening procedure   *)
(* demands; what is appended may be wrong in every way the validator        *)
(* distinguishes, and candidates may be put into, taken out of or moved in  *)
(* the pool, whose contents no check pins.                                  *)
(***************************************************************************)
EXTENDS Naturals, Sequences, FiniteSets, SequencesExt

CONSTANTS
  Candidates,  \* everything that may be a candidate
  OrderKey,    \* [Candidates -> Nat]: the hash of protocol and candidate id
  Org, Stratum, Mechanism,   \* of a candidate
  Strata,      \* the required ones
  FirstPool,   \* the pool at the start
  MinPool, Target, OrgCap, MinOrgs, MinMechanisms,
  Ledgers,     \* friction ledgers that are written, see LedgerRecords
  Unset

PhaseStatus == {"NOT_STARTED", "IN_PROGRESS", "COMPLETE", "BLOCKED"}
\* Clock times are natural numbers when they are present.
PhaseRecords ==
  [status : PhaseStatus, wall : Nat \cup {Unset}, active : Nat \cup {Unset},
   notes : BOOLEAN, corrections : Nat \cup {Unset}]
\* Of the eight phases, verification_runtime and one that stands for the others.
LedgerPhases == {"verification_runtime", "other_phase"}
LedgerRecords ==
  [candidate : Candidates, phases : [LedgerPhases -> PhaseRecords \cup {Unset}],
   resultFrozen : BOOLEAN]

\* The fields a row copies from the pool, or a unit from its row, and the flags that
\* deny a look at the verdict are compared one by one and left out here.
Rows == [candidate : Candidates, eligible : BOOLEAN, reasons : {Unset, "known", "unknown"}]
EnrolledUnits ==
  [candidate : Candidates, started : BOOLEAN, ledger : LedgerRecords \cup {Unset}]
Summaries == [screened : Nat, eligible : Nat, rejected : Nat, reserve : Nat]

ASSUME EnrollmentConstants ==
  /\ OrderKey \in [Candidates -> Nat] /\ IsInjective(OrderKey)
  /\ FirstPool \in Seq(Candidates)
  /\ {Target, OrgCap, MinOrgs, MinMechanisms, MinPool} \subseteq Nat \ {0}
  /\ Ledgers \subseteq LedgerRecords
  /\ Unset \notin Candidates \cup LedgerRecords \cup Summaries \cup Nat

VARIABLES
  pool,     \* CANDIDATE_POOL.json
  log,      \* SCREENING_LOG.jsonl
  units,    \* the units of ENROLLMENT.json
  summary   \* its status and counts, once it says that it is complete

enrollVars == <<pool, log, units, summary>>

----------------------------------------------------------------------------
(* The validator. *)

IsStrictlyOrdered(p) ==
  \A i, j \in DOMAIN p : i < j => OrderKey[p[i]] < OrderKey[p[j]]

StaticValid(p) == Len(p) >= MinPool /\ IsStrictlyOrdered(p)

\* Mutant: the candidates of the rows are not compared with the pool.
ScreeningValidInAnyOrder(p, rows) ==
  /\ Len(rows) <= Len(p)
  /\ \A i \in DOMAIN rows :
       IF rows[i].eligible THEN rows[i].reasons = Unset ELSE rows[i].reasons = "known"

ScreeningValid(p, rows) ==
  /\ Len(rows) <= Len(p)
  /\ \A i \in DOMAIN rows :
       /\ rows[i].candidate = p[i]
       /\ IF rows[i].eligible THEN rows[i].reasons = Unset ELSE rows[i].reasons = "known"

EligibleRows(rows) == {i \in DOMAIN rows : rows[i].eligible}

\* The place of row i among the rows s.
Rank(s, i) == Cardinality({j \in s : j <= i})

\* The eligible stream under the organization cap: an eligible row is passed over
\* when OrgCap eligible rows of its organization precede it.
SameOrgBefore(rows, i) ==
  {j \in EligibleRows(rows) : j < i /\ Org[rows[j].candidate] = Org[rows[i].candidate]}
Taken(rows) == {i \in EligibleRows(rows) : Cardinality(SameOrgBefore(rows, i)) < OrgCap}
Stream(rows) ==
  LET all == Cardinality(Taken(rows)) IN
  [k \in 1 .. (IF all < Target THEN all ELSE Target) |->
     rows[CHOOSE i \in Taken(rows) : Rank(Taken(rows), i) = k].candidate]

CandidatesOf(us) == [k \in DOMAIN us |-> us[k].candidate]

\* Mutant: units may be any eligible candidates.
UnitsValidOutOfStream(rows, us) ==
  /\ Len(us) <= Target
  /\ IsInjective(CandidatesOf(us))
  /\ \A k \in DOMAIN us :
       \E i \in EligibleRows(rows) : rows[i].candidate = us[k].candidate
  /\ \A o \in {Org[us[k].candidate] : k \in DOMAIN us} :
       Cardinality({k \in DOMAIN us : Org[us[k].candidate] = o}) <= OrgCap

UnitsValid(rows, us) ==
  /\ Len(us) <= Target
  /\ IsInjective(CandidatesOf(us))
  /\ \A k \in DOMAIN us :
       \E i \in EligibleRows(rows) : rows[i].candidate = us[k].candidate
  /\ \A o \in {Org[us[k].candidate] : k \in DOMAIN us} :
       Cardinality({k \in DOMAIN us : Org[us[k].candidate] = o}) <= OrgCap
  /\ IsPrefix(CandidatesOf(us), Stream(rows))

Diverse(us) ==
  /\ Cardinality({Org[us[k].candidate] : k \in DOMAIN us}) >= MinOrgs
  /\ Cardinality({Mechanism[us[k].candidate] : k \in DOMAIN us}) >= MinMechanisms
  /\ Strata \subseteq {Stratum[us[k].candidate] : k \in DOMAIN us}

\* Screening stops with the row of the Target-th eligible candidate.
StoppedInTime(rows) ==
  \E i \in EligibleRows(rows) :
    /\ Rank(EligibleRows(rows), i) = Target
    /\ Len(rows) = i

SummaryOf(rows) ==
  [screened |-> Len(rows), eligible |-> Cardinality(EligibleRows(rows)),
   rejected |-> Len(rows) - Cardinality(EligibleRows(rows)), reserve |-> Len(rows) + 1]

\* Mutant: completion is looked for beyond the target.
CompletionValidTooLate(rows, us, s) ==
  Len(us) > Target => Diverse(us) /\ s = SummaryOf(rows) /\ StoppedInTime(rows)

CompletionValid(rows, us, s) ==
  Len(us) = Target => Diverse(us) /\ s = SummaryOf(rows) /\ StoppedInTime(rows)

PhaseValid(ph) ==
  /\ ph # Unset /\ ph.corrections # Unset
  /\ ph.status = "COMPLETE" => ph.wall # Unset /\ ph.active # Unset /\ ph.active <= ph.wall
  /\ ph.status = "BLOCKED" => ph.notes

LedgerValid(u) ==
  IF u.started
  THEN /\ u.ledger # Unset /\ u.ledger.candidate = u.candidate
       /\ \A p \in LedgerPhases : PhaseValid(u.ledger.phases[p])
       /\ u.ledger.resultFrozen => u.ledger.phases["verification_runtime"].status = "COMPLETE"
  ELSE u.ledger = Unset

Valid(p, rows, us, s) ==
  /\ StaticValid(p) /\ ScreeningValid(p, rows)
  /\ UnitsValid(rows, us) /\ CompletionValid(rows, us, s)
  /\ \A k \in DOMAIN us : LedgerValid(us[k])

EnrollmentComplete == Len(units) = Target

\* What the validator reports as the next candidate to screen.
NextCandidate ==
  IF EnrollmentComplete \/ Len(log) = Len(pool) THEN Unset ELSE pool[Len(log) + 1]

----------------------------------------------------------------------------
(* Commits. *)

EnrollInit ==
  /\ pool = FirstPool /\ StaticValid(FirstPool)
  /\ log = <<>> /\ units = <<>> /\ summary = Unset

Adopted == Valid(pool', log', units', summary')

\* One row more: of any candidate, with any decision.
Screen(row) ==
  /\ Len(log) < Len(pool)
  /\ log' = Append(log, row)
  /\ UNCHANGED <<pool, units, summary>> /\ Adopted

\* One unit more, and the record of completion or none; a commit may screen as well.
Enroll(u, rows) ==
  /\ log' = rows
  /\ units' = Append(units, u)
  /\ summary' \in {Unset, SummaryOf(log), SummaryOf(rows)}
  /\ UNCHANGED pool /\ Adopted

EnrollScreened(u) == Enroll(u, log)
ScreenAndEnroll(row, u) == Len(log) < Len(pool) /\ Enroll(u, Append(log, row))

WriteLedger(k, ledger) ==
  /\ units' = [units EXCEPT ![k].started = TRUE, ![k].ledger = ledger]
  /\ UNCHANGED <<pool, log, summary>> /\ Adopted

\* The pool is changed after it was frozen.
AddCandidate(i, c) ==
  /\ pool' = InsertAt(pool, i, c)
  /\ UNCHANGED <<log, units, summary>> /\ Adopted
DropCandidate(i) ==
  /\ pool' = RemoveAt(pool, i)
  /\ UNCHANGED <<log, units, summary>> /\ Adopted
MoveCandidate(i, j) ==
  /\ pool' = [pool EXCEPT ![i] = pool[j], ![j] = pool[i]]
  /\ UNCHANGED <<log, units, summary>> /\ Adopted

NewUnits ==
  {[candidate |-> c, started |-> FALSE, ledger |-> Unset] : c \in Candidates}

EnrollNext ==
  \/ \E row \in Rows : Screen(row)
  \/ \E u \in NewUnits : EnrollScreened(u)
  \/ \E row \in Rows, u \in NewUnits : ScreenAndEnroll(row, u)
  \/ \E k \in DOMAIN units, ledger \in Ledgers \cup {Unset} : WriteLedger(k, ledger)
  \/ \E i \in 1 .. Len(pool) + 1, c \in Candidates : AddCandidate(i, c)
  \/ \E i \in DOMAIN pool : DropCandidate(i)
  \/ \E i, j \in DOMAIN pool : i < j /\ MoveCandidate(i, j)

EnrollSpec == EnrollInit /\ [][EnrollNext]_enrollVars

----------------------------------------------------------------------------
(* Properties. *)

EnrollTypeOK ==
  /\ pool \in Seq(Candidates)
  /\ log \in Seq(Rows)
  /\ units \in Seq(EnrolledUnits)
  /\ summary \in Summaries \cup {Unset}

\* A completed enrollment is the first Target eligible candidates of the pool, all of
\* them and in its order, nobody was passed over or screened beyond the last of them,
\* and it is as diverse as the protocol demands.  The cap branch of the stream is never
\* taken on the way there: an organization's surplus candidate has to be rejected with a
\* reason, or the enrollment cannot complete.
CompletedEnrollmentIsFirstEligible ==
  EnrollmentComplete =>
    /\ IsPrefix([i \in DOMAIN log |-> log[i].candidate], pool)
    /\ Last(log).eligible
    /\ Len(units) = Cardinality(EligibleRows(log))
    /\ \A i \in EligibleRows(log) :
         units[Rank(EligibleRows(log), i)].candidate = log[i].candidate
    /\ \A o \in {Org[c] : c \in Candidates} :
         Cardinality({i \in EligibleRows(log) : Org[log[i].candidate] = o}) <= OrgCap
    /\ Diverse(units)

\* Once complete, no commit that appends is adopted any more: log and enrolled
\* candidates stay, whatever happens to the pool and the ledgers.
CompletionIsFinal ==
  [][EnrollmentComplete =>
       log' = log /\ CandidatesOf(units') = CandidatesOf(units) /\ summary' = summary]_enrollVars

\* While the pool is open to changes, no change of it unsettles a decision: the screened
\* candidates stay the ones in front, so a candidate that was not screened can never be
\* enrolled, and none that was screened is the next one to screen.
ScreenedStaysInFront ==
  /\ \A i \in DOMAIN log : pool[i] = log[i].candidate
  /\ \A i \in DOMAIN log, j \in DOMAIN pool : j > i => pool[j] # log[i].candidate
  /\ \A k \in DOMAIN units : \E i \in DOMAIN log :
       log[i].eligible /\ log[i].candidate = units[k].candidate
  /\ \A i \in DOMAIN log : log[i].candidate # NextCandidate

\* A frozen primary result is one of an enrolled unit that was screened as eligible and
\* whose own ledger times the verification.
FrozenResultsAreTimed ==
  \A k \in DOMAIN units :
    units[k].ledger # Unset /\ units[k].ledger.resultFrozen =>
      /\ units[k].ledger.candidate = units[k].candidate
      /\ LET run == units[k].ledger.phases["verification_runtime"] IN
           run.status = "COMPLETE" /\ run.active <= run.wall
=============================================================================
