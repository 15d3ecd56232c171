-------------------------- MODULE Enrollment_proofs ---------------------------
(***************************************************************************)
(* What every adopted enrollment satisfies, for all pools, sizes and caps.   *)
(*                                                                         *)
(* A step is adopted only if the validator accepts the tree it leaves, so     *)
(* what the validator says (Lawful) is an invariant at once.  What is left    *)
(* is to draw the consequences that the validator does not look for.  The     *)
(* one that matters is about the stream: when Target eligible rows are all    *)
(* there are, and Target of them were taken, the organization cap has passed  *)
(* over nobody, and the places in the stream are the places in the log.       *)
(***************************************************************************)
EXTENDS Enrollment, FiniteSetTheorems, SequenceTheorems, TLAPS

Lawful ==
  /\ StaticValid(pool)
  /\ ScreeningValid(pool, log)
  /\ UnitsValid(log, units)
  /\ CompletionValid(log, units, summary)
  /\ \A k \in DOMAIN units : LedgerValid(units[k])

EnrollInv == EnrollTypeOK /\ Lawful

----------------------------------------------------------------------------
(* Rows and summaries. *)

LEMMA EligibleRowsFinite ==
  ASSUME NEW rows \in Seq(Rows)
  PROVE  /\ IsFiniteSet(EligibleRows(rows))
         /\ EligibleRows(rows) \subseteq 1 .. Len(rows)
         /\ Cardinality(EligibleRows(rows)) \in 0 .. Len(rows)
<1>1. EligibleRows(rows) \in SUBSET (1 .. Len(rows))
  BY DEF EligibleRows
<1>2. Len(rows) \in Nat
  OBVIOUS
<1>3. IsFiniteSet(1 .. Len(rows)) /\ Cardinality(1 .. Len(rows)) = Len(rows)
  BY <1>2, FS_Interval
<1>4. IsFiniteSet(EligibleRows(rows)) /\ Cardinality(EligibleRows(rows)) <= Len(rows)
  BY <1>1, <1>3, FS_Subset
<1> QED
  BY <1>1, <1>2, <1>4, FS_CardinalityType

LEMMA SummaryType ==
  ASSUME NEW rows \in Seq(Rows)
  PROVE  SummaryOf(rows) \in Summaries
<1>1. Len(rows) \in Nat /\ Cardinality(EligibleRows(rows)) \in 0 .. Len(rows)
  BY EligibleRowsFinite
<1>2. Len(rows) - Cardinality(EligibleRows(rows)) \in Nat /\ Len(rows) + 1 \in Nat
      /\ Cardinality(EligibleRows(rows)) \in Nat
  BY <1>1
<1> QED
  BY <1>1, <1>2 DEF SummaryOf, Summaries

\* A log that stopped in time cannot stop in time once more with another row.
LEMMA StopsOnce ==
  ASSUME NEW rows \in Seq(Rows), NEW row \in Rows,
         StoppedInTime(rows), StoppedInTime(Append(rows, row))
  PROVE  FALSE
<1> DEFINE n == Len(rows)
           more == Append(rows, row)
           upTo(r, i) == {j \in EligibleRows(r) : j <= i}
<1>1. n \in Nat /\ Len(more) = n + 1 /\ more \in Seq(Rows)
  OBVIOUS
<1>2. Cardinality(upTo(rows, n)) = Target /\ upTo(rows, n) = EligibleRows(rows)
  <2>1. PICK i \in EligibleRows(rows) : Cardinality(upTo(rows, i)) = Target /\ Len(rows) = i
    BY DEF StoppedInTime, Rank
  <2>2. \A j \in EligibleRows(rows) : j <= n
    <3>1. EligibleRows(rows) \subseteq 1 .. n
      BY EligibleRowsFinite
    <3> QED
      BY <1>1, <3>1
  <2>3. upTo(rows, n) = EligibleRows(rows)
    BY <2>2
  <2> QED
    BY <2>1, <2>3
<1>3. /\ n + 1 \in EligibleRows(more)
      /\ Cardinality(upTo(more, n + 1)) = Target /\ upTo(more, n + 1) = EligibleRows(more)
  <2>1. PICK i \in EligibleRows(more) : Cardinality(upTo(more, i)) = Target /\ Len(more) = i
    BY DEF StoppedInTime, Rank
  <2>2. \A j \in EligibleRows(more) : j <= n + 1
    <3>1. EligibleRows(more) \subseteq 1 .. (n + 1)
      BY <1>1, EligibleRowsFinite
    <3> QED
      BY <1>1, <3>1
  <2>3. upTo(more, n + 1) = EligibleRows(more)
    BY <2>2
  <2> QED
    BY <1>1, <2>1, <2>3
<1>4. EligibleRows(more) = EligibleRows(rows) \cup {n + 1}
  <2>1. \A j \in 1 .. n : more[j] = rows[j]
    OBVIOUS
  <2>2. DOMAIN more = 1 .. (n + 1) /\ DOMAIN rows = 1 .. n
    BY <1>1
  <2>3. 1 .. (n + 1) = (1 .. n) \cup {n + 1}
    BY <1>1
  <2> HIDE DEF more
  <2>4. \A j : j \in EligibleRows(more) <=> j \in EligibleRows(rows) \/ j = n + 1
    <3> TAKE j
    <3>1. CASE j \in 1 .. n
      BY <1>1, <2>1, <2>2, <2>3, <3>1 DEF EligibleRows
    <3>2. CASE j \notin 1 .. n
      BY <1>3, <2>2, <2>3, <3>2 DEF EligibleRows
    <3> QED
      BY <3>1, <3>2
  <2> QED
    BY <2>4
<1>5. n + 1 \notin EligibleRows(rows)
  BY <1>1, EligibleRowsFinite
<1>6. Cardinality(EligibleRows(more)) = Cardinality(EligibleRows(rows)) + 1
  BY <1>4, <1>5, EligibleRowsFinite, FS_AddElement
<1>7. Target \in Nat
  BY EnrollmentConstants
<1>8. Cardinality(EligibleRows(rows)) = Target /\ Cardinality(EligibleRows(more)) = Target
  BY <1>2, <1>3
<1> HIDE DEF more
<1> QED
  BY <1>6, <1>7, <1>8

----------------------------------------------------------------------------
(* Ranks and the stream. *)

\* The members of a set of rows have different ranks, from 1 to their number.
LEMMA RankInjective ==
  ASSUME NEW n \in Nat, NEW s \in SUBSET (1 .. n)
  PROVE  /\ IsFiniteSet(s) /\ Cardinality(s) \in Nat
         /\ \A i \in s : Rank(s, i) \in 1 .. Cardinality(s)
         /\ \A i, j \in s : Rank(s, i) = Rank(s, j) => i = j
<1> DEFINE upTo(i) == {j \in s : j <= i}
<1>1. IsFiniteSet(1 .. n)
  BY FS_Interval
<1>2. IsFiniteSet(s) /\ Cardinality(s) \in Nat
  BY <1>1, FS_Subset, FS_CardinalityType
<1>3. ASSUME NEW i \in s
      PROVE  /\ IsFiniteSet(upTo(i)) /\ Cardinality(upTo(i)) \in 1 .. Cardinality(s)
             /\ Rank(s, i) = Cardinality(upTo(i))
  <2>1. upTo(i) \in SUBSET s /\ i \in upTo(i)
    OBVIOUS
  <2> HIDE DEF upTo
  <2>2. IsFiniteSet(upTo(i)) /\ Cardinality(upTo(i)) <= Cardinality(s)
    BY <1>2, <2>1, FS_Subset
  <2>3. Cardinality(upTo(i)) \in Nat /\ Cardinality(upTo(i)) # 0
    BY <2>1, <2>2, FS_CardinalityType, FS_EmptySet
  <2>4. Rank(s, i) = Cardinality(upTo(i))
    BY DEF Rank, upTo
  <2> QED
    BY <1>2, <2>2, <2>3, <2>4
<1>4. ASSUME NEW i \in s, NEW j \in s, i < j
      PROVE  Rank(s, i) # Rank(s, j)
  <2>1. upTo(i) \in SUBSET upTo(j) /\ j \in upTo(j) /\ j \notin upTo(i)
    <3>1. \A m \in s : m <= i => m <= j
      BY <1>4
    <3>2. j <= j /\ ~(j <= i)
      BY <1>4
    <3> QED
      BY <3>1, <3>2
  <2> HIDE DEF upTo
  <2>2. Cardinality(upTo(i)) # Cardinality(upTo(j))
    BY <1>3, <2>1, FS_Subset
  <2> QED
    BY <1>3, <2>2
<1>5. \A i, j \in s : i < j \/ j < i \/ i = j
  OBVIOUS
<1> HIDE DEF upTo
<1> QED
  BY <1>2, <1>3, <1>4, <1>5

\* When a full enrollment stops in time, the units are all the eligible rows in their order:
\* all of them were taken, so none was passed over for its organization.
LEMMA FullStreamIsAll ==
  ASSUME NEW rows \in Seq(Rows), NEW us \in Seq(EnrolledUnits),
         UnitsValid(rows, us), StoppedInTime(rows), Len(us) = Target
  PROVE  /\ Cardinality(EligibleRows(rows)) = Target
         /\ Len(rows) \in EligibleRows(rows)
         /\ \A i \in EligibleRows(rows) :
              us[Rank(EligibleRows(rows), i)].candidate = rows[i].candidate
<1> DEFINE E == EligibleRows(rows)
           T == Taken(rows)
           all == Cardinality(T)
<1>1. Len(rows) \in Nat /\ Target \in Nat /\ E \in SUBSET (1 .. Len(rows)) /\ T \in SUBSET E
  BY EligibleRowsFinite, EnrollmentConstants DEF Taken
<1>2. PICK i \in E : Rank(E, i) = Target /\ Len(rows) = i
  BY DEF StoppedInTime
<1>3. Cardinality(E) = Target
  <2>1. {j \in E : j <= Len(rows)} = E
    BY <1>1
  <2> QED
    BY <1>2, <2>1 DEF Rank
<1>4. IsFiniteSet(E)
  BY <1>1, RankInjective
<1>5. IsFiniteSet(T) /\ all <= Target /\ all \in Nat
  BY <1>1, <1>3, <1>4, FS_Subset, FS_CardinalityType
<1>6. /\ Len(CandidatesOf(us)) = Target
      /\ \A k \in 1 .. Target : CandidatesOf(us)[k] = us[k].candidate
  BY <1>1 DEF CandidatesOf
<1>7. Stream(rows) = [k \in 1 .. all |-> rows[CHOOSE m \in T : Rank(T, m) = k].candidate]
  <2>1. (IF all < Target THEN all ELSE Target) = all
    BY <1>1, <1>5
  <2> QED
    BY <2>1 DEF Stream
<1> HIDE DEF all
<1>8. Len(Stream(rows)) = all
  BY <1>5, <1>7
<1>9. /\ Target <= all
      /\ SubSeq(CandidatesOf(us), 1, Target) = SubSeq(Stream(rows), 1, Target)
  BY <1>6, <1>8 DEF UnitsValid, IsPrefix
<1>10. T = E
  <2>1. all = Cardinality(E)
    BY <1>1, <1>3, <1>5, <1>9
  <2> QED
    BY <1>1, <1>4, <2>1, FS_Subset DEF all
<1>11. \A k \in 1 .. Target : us[k].candidate = Stream(rows)[k]
  <2> SUFFICES ASSUME NEW k \in 1 .. Target
               PROVE  us[k].candidate = Stream(rows)[k]
    OBVIOUS
  <2>1. SubSeq(CandidatesOf(us), 1, Target)[k] = CandidatesOf(us)[k]
    BY <1>1
  <2>2. SubSeq(Stream(rows), 1, Target)[k] = Stream(rows)[k]
    BY <1>1
  <2> QED
    BY <1>6, <1>9, <2>1, <2>2
<1>12. ASSUME NEW m \in E
       PROVE  us[Rank(E, m)].candidate = rows[m].candidate
  <2>1. Rank(E, m) \in 1 .. Target
    BY <1>1, <1>3, RankInjective
  <2>2. 1 .. Target \subseteq 1 .. all
    BY <1>1, <1>5, <1>9
  <2>3. Stream(rows)[Rank(E, m)] = rows[CHOOSE j \in E : Rank(E, j) = Rank(E, m)].candidate
    BY <1>7, <1>10, <2>1, <2>2
  <2>4. (CHOOSE j \in E : Rank(E, j) = Rank(E, m)) = m
    <3>1. \A j \in E : Rank(E, j) = Rank(E, m) => j = m
      BY <1>1, RankInjective
    <3> HIDE DEF E
    <3> QED
      BY <1>12, <3>1
  <2> QED
    BY <1>11, <2>1, <2>3, <2>4
<1> QED
  BY <1>2, <1>3, <1>12

----------------------------------------------------------------------------
(* Types. *)

LEMMA EnrollInitType == EnrollInit => EnrollTypeOK
BY EnrollmentConstants DEF EnrollInit, EnrollTypeOK

LEMMA EnrollStepType ==
  ASSUME EnrollTypeOK, [EnrollNext]_enrollVars
  PROVE  EnrollTypeOK'
<1> USE DEF EnrollTypeOK
<1>1. ASSUME NEW row \in Rows, Screen(row)
      PROVE  EnrollTypeOK'
  BY <1>1 DEF Screen
<1>2. ASSUME NEW rows \in Seq(Rows), NEW u \in NewUnits, Enroll(u, rows)
      PROVE  EnrollTypeOK'
  <2>1. u \in EnrolledUnits
    <3>1. PICK c \in Candidates : u = [candidate |-> c, started |-> FALSE, ledger |-> Unset]
      BY DEF NewUnits
    <3> QED
      BY <3>1 DEF EnrolledUnits
  <2>2. units' \in Seq(EnrolledUnits)
    BY <1>2, <2>1 DEF Enroll
  <2>3. summary' \in Summaries \cup {Unset}
    BY <1>2, SummaryType DEF Enroll
  <2> QED
    BY <1>2, <2>2, <2>3 DEF Enroll
<1>3. ASSUME NEW u \in NewUnits, EnrollScreened(u)
      PROVE  EnrollTypeOK'
  BY <1>2, <1>3 DEF EnrollScreened
<1>4. ASSUME NEW row \in Rows, NEW u \in NewUnits, ScreenAndEnroll(row, u)
      PROVE  EnrollTypeOK'
  <2>1. Append(log, row) \in Seq(Rows)
    OBVIOUS
  <2> QED
    BY <1>2, <1>4, <2>1 DEF ScreenAndEnroll
<1>5. ASSUME NEW k \in DOMAIN units, NEW ledger \in Ledgers \cup {Unset}, WriteLedger(k, ledger)
      PROVE  EnrollTypeOK'
  <2>1. ledger \in LedgerRecords \cup {Unset}
    BY EnrollmentConstants
  <2>2. units[k] \in EnrolledUnits
    OBVIOUS
  <2>3. [units[k] EXCEPT !.started = TRUE, !.ledger = ledger] \in EnrolledUnits
    BY <2>1, <2>2 DEF EnrolledUnits
  <2>4. units' = [units EXCEPT ![k] = [units[k] EXCEPT !.started = TRUE, !.ledger = ledger]]
    BY <1>5 DEF WriteLedger
  <2>5. units' \in Seq(EnrolledUnits)
    BY <2>3, <2>4
  <2> QED
    BY <1>5, <2>5 DEF WriteLedger
<1>6. ASSUME NEW i \in 1 .. Len(pool) + 1, NEW c \in Candidates, AddCandidate(i, c)
      PROVE  EnrollTypeOK'
  <2>1. SubSeq(pool, 1, i - 1) \in Seq(Candidates)
    BY SubSeqProperties
  <2>2. SubSeq(pool, i, Len(pool)) \in Seq(Candidates)
    BY SubSeqProperties
  <2>3. <<c>> \in Seq(Candidates)
    OBVIOUS
  <2>4. InsertAt(pool, i, c) \in Seq(Candidates)
    BY <2>1, <2>2, <2>3, ConcatProperties DEF InsertAt
  <2> QED
    BY <1>6, <2>4 DEF AddCandidate
<1>7. ASSUME NEW i \in DOMAIN pool, DropCandidate(i)
      PROVE  EnrollTypeOK'
  <2>1. SubSeq(pool, 1, i - 1) \in Seq(Candidates)
    BY SubSeqProperties
  <2>2. SubSeq(pool, i + 1, Len(pool)) \in Seq(Candidates)
    BY SubSeqProperties
  <2>3. RemoveAt(pool, i) \in Seq(Candidates)
    BY <2>1, <2>2, ConcatProperties DEF RemoveAt
  <2> QED
    BY <1>7, <2>3 DEF DropCandidate
<1>8. ASSUME NEW i \in DOMAIN pool, NEW j \in DOMAIN pool, MoveCandidate(i, j)
      PROVE  EnrollTypeOK'
  BY <1>8 DEF MoveCandidate
<1>9. CASE UNCHANGED enrollVars
  BY <1>9 DEF enrollVars
<1> QED
  BY <1>1, <1>3, <1>4, <1>5, <1>6, <1>7, <1>8, <1>9 DEF EnrollNext

----------------------------------------------------------------------------
(* The invariant. *)

LEMMA AdoptedIsLawful ==
  ASSUME Adopted
  PROVE  Lawful'
BY DEF Adopted, Valid, Lawful

\* Every commit is adopted or changes nothing.
LEMMA EveryStepIsAdopted ==
  ASSUME [EnrollNext]_enrollVars
  PROVE  Adopted \/ UNCHANGED enrollVars
BY DEF EnrollNext, Screen, Enroll, EnrollScreened, ScreenAndEnroll, WriteLedger,
       AddCandidate, DropCandidate, MoveCandidate

LEMMA EnrollInitLawful == EnrollInit => Lawful
<1> SUFFICES ASSUME EnrollInit
             PROVE  Lawful
  OBVIOUS
<1>1. StaticValid(pool) /\ log = <<>> /\ units = <<>>
  BY DEF EnrollInit
<1>2. Target \in Nat \ {0}
  BY EnrollmentConstants
<1>3. Len(pool) \in Nat
  BY EnrollmentConstants DEF EnrollInit
<1>4. UnitsValid(log, units)
  <2>1. DOMAIN units = {} /\ Len(units) = 0 /\ CandidatesOf(units) = <<>>
    BY <1>1 DEF CandidatesOf
  <2>2. Taken(log) = {}
    BY <1>1 DEF Taken, EligibleRows
  <2>3. Stream(log) \in Seq({})
    <3>1. Cardinality(Taken(log)) = 0
      BY <2>2, FS_EmptySet
    <3>2. Cardinality(Taken(log)) < Target
      BY <1>2, <3>1
    <3> QED
      BY <3>1, <3>2 DEF Stream
  <2>4. IsPrefix(CandidatesOf(units), Stream(log))
    <3>1. Len(Stream(log)) \in Nat /\ Len(CandidatesOf(units)) = 0
      BY <2>1, <2>3
    <3>2. SubSeq(CandidatesOf(units), 1, 0) = <<>> /\ SubSeq(Stream(log), 1, 0) = <<>>
      BY <2>1, <2>3
    <3> QED
      BY <3>1, <3>2 DEF IsPrefix
  <2> QED
    BY <1>2, <2>1, <2>4 DEF UnitsValid, IsInjective
<1> QED
  BY <1>1, <1>2, <1>3, <1>4 DEF Lawful, ScreeningValid, CompletionValid

\* What is adopted stays typed and lawful, in every behaviour.
THEOREM EnrollInvariant == EnrollSpec => []EnrollInv
<1>1. EnrollInit => EnrollInv
  BY EnrollInitType, EnrollInitLawful DEF EnrollInv
<1>2. EnrollInv /\ [EnrollNext]_enrollVars => EnrollInv'
  <2> SUFFICES ASSUME EnrollInv, [EnrollNext]_enrollVars
               PROVE  EnrollInv'
    OBVIOUS
  <2>1. EnrollTypeOK'
    BY EnrollStepType DEF EnrollInv
  <2>2. CASE Adopted
    BY <2>1, <2>2, AdoptedIsLawful DEF EnrollInv
  <2>3. CASE UNCHANGED enrollVars
    BY <2>1, <2>3 DEF EnrollInv, Lawful, enrollVars
  <2> QED
    BY <2>2, <2>3, EveryStepIsAdopted
<1> QED
  BY <1>1, <1>2, PTL DEF EnrollSpec

----------------------------------------------------------------------------
(* Theorems. *)

\* The variables keep their types (corpus01_validate.py:142).
THEOREM EnrollTypeCorrect == EnrollSpec => []EnrollTypeOK
<1>1. EnrollInv => EnrollTypeOK
  BY DEF EnrollInv
<1> QED
  BY <1>1, EnrollInvariant, PTL

\* Whatever happens to the pool, the screened candidates are its first ones, once each, and
\* only eligible ones of them are enrolled (corpus01_validate.py:142).
THEOREM ScreeningIsIrrevocable == EnrollSpec => []ScreenedStaysInFront
<1>1. EnrollInv => ScreenedStaysInFront
  <2> SUFFICES ASSUME EnrollInv
               PROVE  ScreenedStaysInFront
    OBVIOUS
  <2>1. /\ pool \in Seq(Candidates) /\ log \in Seq(Rows)
        /\ Len(log) <= Len(pool) /\ IsStrictlyOrdered(pool)
        /\ \A i \in DOMAIN log : log[i].candidate = pool[i]
    BY DEF EnrollInv, EnrollTypeOK, Lawful, StaticValid, ScreeningValid
  <2>2. DOMAIN pool = 1 .. Len(pool) /\ DOMAIN log = 1 .. Len(log)
        /\ Len(pool) \in Nat /\ Len(log) \in Nat
    BY <2>1
  <2>3. \A i, j \in DOMAIN pool : i < j => pool[i] # pool[j]
    <3> SUFFICES ASSUME NEW i \in DOMAIN pool, NEW j \in DOMAIN pool, i < j, pool[i] = pool[j]
                 PROVE  FALSE
      OBVIOUS
    <3>1. OrderKey[pool[i]] < OrderKey[pool[j]]
      BY <2>1 DEF IsStrictlyOrdered
    <3>2. OrderKey[pool[i]] \in Nat
      BY <2>1, EnrollmentConstants
    <3> QED
      BY <3>1, <3>2
  <2>4. \A k \in DOMAIN units : \E i \in DOMAIN log :
          log[i].eligible /\ log[i].candidate = units[k].candidate
    BY DEF EnrollInv, Lawful, UnitsValid, EligibleRows
  <2>5. \A i \in DOMAIN log : log[i].candidate # NextCandidate
    <3> SUFFICES ASSUME NEW i \in DOMAIN log
                 PROVE  log[i].candidate # NextCandidate
      OBVIOUS
    <3>1. CASE EnrollmentComplete \/ Len(log) = Len(pool)
      <4>1. log[i].candidate \in Candidates /\ NextCandidate = Unset
        BY <2>1, <3>1 DEF NextCandidate, Rows
      <4> QED
        BY <4>1, EnrollmentConstants
    <3>2. CASE ~(EnrollmentComplete \/ Len(log) = Len(pool))
      <4>1. NextCandidate = pool[Len(log) + 1]
        BY <3>2 DEF NextCandidate
      <4>2. Len(log) + 1 \in DOMAIN pool
        <5>1. Len(log) # Len(pool)
          BY <3>2
        <5>2. Len(log) <= Len(pool)
          BY <2>1
        <5>3. Len(log) \in Nat /\ Len(pool) \in Nat
          BY <2>2
        <5>4. \A a, b \in Nat : a <= b /\ a # b => a + 1 \in 1 .. b
          OBVIOUS
        <5>5. Len(log) + 1 \in 1 .. Len(pool)
          BY <5>1, <5>2, <5>3, <5>4
        <5> QED
          BY <2>2, <5>5
      <4>3. log[i].candidate = pool[i] /\ i \in DOMAIN pool /\ i < Len(log) + 1
        BY <2>1, <2>2
      <4> QED
        BY <2>3, <4>1, <4>2, <4>3
    <3> QED
      BY <3>1, <3>2
  <2>6. \A i \in DOMAIN log, j \in DOMAIN pool : j > i => pool[j] # log[i].candidate
    BY <2>1, <2>2, <2>3
  <2> QED
    BY <2>1, <2>4, <2>5, <2>6 DEF ScreenedStaysInFront
<1> QED
  BY <1>1, EnrollInvariant, PTL

\* A completed enrollment is the first Target eligible candidates of the pool in its order,
\* the log ends with the last of them, no organization has more than OrgCap of them, and they
\* are diverse (corpus01_validate.py:226).
THEOREM CompletedIsFirstEligible == EnrollSpec => []CompletedEnrollmentIsFirstEligible
<1> DEFINE E == EligibleRows(log)
<1>1. EnrollInv => CompletedEnrollmentIsFirstEligible
  <2> SUFFICES ASSUME EnrollInv, EnrollmentComplete
               PROVE  CompletedEnrollmentIsFirstEligible
    BY DEF CompletedEnrollmentIsFirstEligible
  <2>1. /\ log \in Seq(Rows) /\ units \in Seq(EnrolledUnits) /\ pool \in Seq(Candidates)
        /\ Len(units) = Target /\ UnitsValid(log, units)
        /\ StoppedInTime(log) /\ Diverse(units) /\ ScreeningValid(pool, log)
    BY DEF EnrollInv, EnrollTypeOK, Lawful, CompletionValid, EnrollmentComplete
  <2>2. Len(log) \in Nat /\ Target \in Nat /\ OrgCap \in Nat /\ E \in SUBSET (1 .. Len(log))
    BY <2>1, EligibleRowsFinite, EnrollmentConstants
  <2>3. /\ Cardinality(E) = Target /\ Len(log) \in E
        /\ \A i \in E : units[Rank(E, i)].candidate = log[i].candidate
    BY <2>1, FullStreamIsAll
  <2>4. Last(log).eligible
    BY <2>3 DEF Last, EligibleRows
  <2>5. IsPrefix([i \in DOMAIN log |-> log[i].candidate], pool)
    <3> DEFINE screened == [i \in DOMAIN log |-> log[i].candidate]
    <3>1. /\ Len(log) <= Len(pool) /\ Len(pool) \in Nat
          /\ \A i \in 1 .. Len(log) : log[i].candidate = pool[i]
      BY <2>1 DEF ScreeningValid
    <3>2. Len(screened) = Len(log) /\ \A i \in 1 .. Len(log) : screened[i] = pool[i]
      BY <2>1, <3>1
    <3> HIDE DEF screened
    <3>3. SubSeq(screened, 1, Len(log)) = SubSeq(pool, 1, Len(log))
      BY <2>2, <3>2
    <3> QED
      BY <3>1, <3>2, <3>3 DEF IsPrefix, screened
  <2>6. ASSUME NEW o
        PROVE  Cardinality({i \in E : Org[log[i].candidate] = o}) <= OrgCap
    <3> DEFINE S == {i \in E : Org[log[i].candidate] = o}
               U == {k \in DOMAIN units : Org[units[k].candidate] = o}
               f == [i \in S |-> Rank(E, i)]
    <3>1. \A i \in E : Rank(E, i) \in 1 .. Target
      BY <2>2, <2>3, RankInjective
    <3>2. \A i, j \in E : Rank(E, i) = Rank(E, j) => i = j
      BY <2>2, RankInjective
    <3>3. DOMAIN units = 1 .. Target
      BY <2>1
    <3>4. f \in Injection(S, U)
      <4>1. \A i \in S : Rank(E, i) \in U
        BY <2>3, <3>1, <3>3
      <4>2. f \in [S -> U]
        BY <4>1
      <4>3. \A a, b \in S : f[a] = f[b] => a = b
        BY <3>2
      <4> HIDE DEF S, U, f
      <4> QED
        BY <4>2, <4>3 DEF Injection, IsInjective
    <3>5. IsFiniteSet(U)
      <4>1. U \in SUBSET (1 .. Target)
        BY <3>3
      <4> QED
        BY <2>2, <4>1, RankInjective
    <3>6. Cardinality(S) <= Cardinality(U) /\ IsFiniteSet(S)
      <4> HIDE DEF S, U, f
      <4> QED
        BY <3>4, <3>5, FS_Injection
    <3>7. CASE U = {}
      <4>1. S = {}
        <5> HIDE DEF S, U, f
        <5> QED
          BY <3>4, <3>7 DEF Injection
      <4>2. Cardinality(S) = 0
        BY <4>1, FS_EmptySet
      <4> QED
        BY <2>2, <4>2
    <3>8. CASE U # {}
      <4>1. Cardinality(U) <= OrgCap
        BY <2>1, <3>8 DEF UnitsValid
      <4>2. Cardinality(S) \in Nat /\ Cardinality(U) \in Nat
        BY <3>5, <3>6, FS_CardinalityType
      <4> HIDE DEF S, U, f
      <4>3. Cardinality(S) <= OrgCap
        BY <2>2, <3>6, <4>1, <4>2
      <4> QED
        BY <4>3 DEF S
    <3> QED
      BY <3>7, <3>8
  <2> QED
    BY <2>1, <2>3, <2>4, <2>5, <2>6 DEF CompletedEnrollmentIsFirstEligible
<1> QED
  BY <1>1, EnrollInvariant, PTL

\* A frozen result is that of its own unit and its verification is timed
\* (corpus01_validate.py:371).
THEOREM FrozenIsTimed == EnrollSpec => []FrozenResultsAreTimed
<1>1. EnrollInv => FrozenResultsAreTimed
  <2> SUFFICES ASSUME EnrollInv, NEW k \in DOMAIN units,
                      units[k].ledger # Unset, units[k].ledger.resultFrozen
               PROVE  /\ units[k].ledger.candidate = units[k].candidate
                      /\ LET run == units[k].ledger.phases["verification_runtime"] IN
                           run.status = "COMPLETE" /\ run.active <= run.wall
    BY DEF FrozenResultsAreTimed
  <2>1. LedgerValid(units[k]) /\ units[k].started
    BY DEF EnrollInv, Lawful, LedgerValid
  <2>2. /\ units[k].ledger.candidate = units[k].candidate
        /\ PhaseValid(units[k].ledger.phases["verification_runtime"])
        /\ units[k].ledger.phases["verification_runtime"].status = "COMPLETE"
    BY <2>1 DEF LedgerValid, LedgerPhases
  <2> QED
    BY <2>2 DEF PhaseValid
<1> QED
  BY <1>1, EnrollInvariant, PTL

\* No adopted commit adds a row or a unit to a completed enrollment
\* (corpus01_validate.py:226).
THEOREM CompletionStays == EnrollSpec => CompletionIsFinal
<1> DEFINE Final == log' = log /\ CandidatesOf(units') = CandidatesOf(units) /\ summary' = summary
<1>1. ASSUME EnrollInv, EnrollInv', [EnrollNext]_enrollVars, EnrollmentComplete
      PROVE  Final
  <2>1. Len(units) = Target /\ Target \in Nat /\ log \in Seq(Rows) /\ units \in Seq(EnrolledUnits)
    BY <1>1, EnrollmentConstants DEF EnrollmentComplete, EnrollInv, EnrollTypeOK
  <2>2. StoppedInTime(log)
    BY <1>1, <2>1 DEF EnrollInv, Lawful, CompletionValid
  <2>3. Len(units') <= Target /\ (Len(units') = Target => StoppedInTime(log'))
    BY <1>1 DEF EnrollInv, Lawful, UnitsValid, CompletionValid
  <2>4. ASSUME NEW row \in Rows, Screen(row)
        PROVE  FALSE
    <3>1. log' = Append(log, row) /\ units' = units
      BY <2>4 DEF Screen
    <3>2. StoppedInTime(Append(log, row))
      BY <2>1, <2>3, <3>1
    <3> QED
      BY <2>1, <2>2, <3>2, StopsOnce
  <2>5. ASSUME NEW u, NEW rows, Enroll(u, rows)
        PROVE  FALSE
    <3>1. Len(units') = Target + 1
      BY <2>1, <2>5 DEF Enroll
    <3> QED
      BY <2>1, <2>3, <3>1
  <2>6. ASSUME NEW k \in DOMAIN units, NEW ledger, WriteLedger(k, ledger)
        PROVE  Final
    <3>1. log' = log /\ summary' = summary
          /\ units' = [units EXCEPT ![k].started = TRUE, ![k].ledger = ledger]
      BY <2>6 DEF WriteLedger
    <3>2. DOMAIN units' = DOMAIN units
      BY <3>1
    <3>3. \A n \in DOMAIN units : units'[n].candidate = units[n].candidate
      <4>1. \A n \in DOMAIN units : units[n] \in EnrolledUnits
        BY <2>1
      <4> QED
        BY <3>1, <4>1 DEF EnrolledUnits
    <3> QED
      BY <3>1, <3>2, <3>3 DEF CandidatesOf
  <2>7. ASSUME UNCHANGED <<log, units, summary>>
        PROVE  Final
    BY <2>7
  <2> QED
    BY <1>1, <2>4, <2>5, <2>6, <2>7
       DEF EnrollNext, EnrollScreened, ScreenAndEnroll, AddCandidate, DropCandidate,
           MoveCandidate, enrollVars
<1>2. EnrollInv /\ EnrollInv' /\ [EnrollNext]_enrollVars => [EnrollmentComplete => Final]_enrollVars
  BY <1>1
<1> QED
  BY <1>2, EnrollInvariant, PTL DEF EnrollSpec, CompletionIsFinal
=============================================================================
