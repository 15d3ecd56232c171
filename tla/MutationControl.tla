--------------------------- MODULE MutationControl ---------------------------
(***************************************************************************)
(* tools/unit002_mutation_control.py: the paired mutation control of the    *)
(* detector.  Two preserved seeds are compiled and verified twice; each of  *)
(* three operators that lose a consequence and three that change nothing    *)
(* semantic is applied to a copy of each compiled seed, verified twice, and *)
(* scored.  Only a full score promotes the detector.  The corrected         *)
(* executor (unit002_mutation_control_correction001.py) runs the plain one  *)
(* with another comparison of paths and annotates the result it finds.      *)
(*                                                                         *)
(* The detector under control (the verification pipeline) is external: a    *)
(* sound one reports what VbeProgram says; one with faulty parts reports    *)
(* anything at all in those parts, in every single verification anew.  With *)
(* all parts faulty it is an arbitrary detector.                            *)
(***************************************************************************)
EXTENDS VbeProgram, Sequences

CONSTANTS
  Plans,      \* contents of PLAN.json, see PlanRecords
  Detectors   \* the detectors that are put under control, each by its faulty parts

Positives == {"P_MECHANISM_ALWAYS_ACCEPTS", "P_DISCRIMINATOR_COLLAPSE",
              "P_INTERPRETER_ALWAYS_SUCCESS"}
Negatives == {"N_CASE_METADATA_ONLY", "N_PROVENANCE_EDGE_ORDER_ONLY",
              "N_DERIVATION_FACT_ORDER_ONLY"}
Operators == <<"P_MECHANISM_ALWAYS_ACCEPTS", "P_DISCRIMINATOR_COLLAPSE",
               "P_INTERPRETER_ALWAYS_SUCCESS", "N_CASE_METADATA_ONLY",
               "N_PROVENANCE_EDGE_ORDER_ONLY", "N_DERIVATION_FACT_ORDER_ONLY">>

\* Besides its instance a seed has what the operators touch: does the case have a
\* display record, and do its edges and facts read differently when reversed?
Seeds ==
  [instance : Instances, staleAt : Versions, calibration : BOOLEAN, display : BOOLEAN,
   edgesReversible : BOOLEAN, factsReversible : BOOLEAN]
PlanRecords == [seeds : Seq(Seeds), operators : SUBSET (Positives \cup Negatives)]

\* What a report consists of, as far as the control looks at it.
Parts == {"status", "exact", "d", "effects", "witness"}

ASSUME ControlConstants ==
  /\ Plans \subseteq PlanRecords /\ Detectors \subseteq SUBSET Parts
  /\ None \notin Positives \cup Negatives /\ None \notin Worlds

VARIABLES
  frozen,    \* the plan in the freeze commit
  plan,      \* PLAN.json as it is now
  detector,  \* the faulty parts of the detector, which stay
  control,   \* the executor: where it is and what it holds
  metrics,   \* the counts it has so far
  result,    \* MATRIX_RESULT.json in the work directory: what it says, which executor
             \* wrote it, whether it is annotated as a corrected execution
  deceived   \* history: did this execution see a report that differs from a sound one in
             \* what the control scores of it (see Note)?

controlVars == <<frozen, plan, detector, control, metrics, result, deceived>>

NoMetrics == [baseline |-> 0, positive |-> 0, negative |-> 0, localized |-> 0,
              discriminator |-> 0, repeatable |-> 0, local |-> 0]
Executors == {"plain", "corrected"}
AtRest == [pc |-> "rest", by |-> "plain", seed |-> 1, op |-> 0, first |-> None,
           base |-> None, baselinePass |-> FALSE, pass |-> FALSE]

ControlInit ==
  /\ frozen \in Plans /\ plan = frozen /\ detector \in Detectors
  /\ control = AtRest /\ metrics = NoMetrics
  /\ result = None /\ deceived = FALSE

----------------------------------------------------------------------------
(* Programs, reports and scores. *)

Mutated(program, op) ==
  IF op = "P_MECHANISM_ALWAYS_ACCEPTS" THEN [program EXCEPT !.mechanism = "accept"]
  ELSE IF op = "P_DISCRIMINATOR_COLLAPSE" THEN [program EXCEPT !.discriminator = "literal"]
  ELSE IF op = "P_INTERPRETER_ALWAYS_SUCCESS" THEN [program EXCEPT !.interpreter = "success"]
  ELSE program

\* The paths at which adapter and case differ after the operator.  A replaced expression
\* differs in the leaves below it, which only the corrected executor takes together; a
\* display record that was not there is a change of its own; reversing may change nothing.
Surface(op) ==
  IF op = "P_MECHANISM_ALWAYS_ACCEPTS" THEN {"mechanism.expr"}
  ELSE IF op = "P_DISCRIMINATOR_COLLAPSE" THEN {"discriminator.expr"}
  ELSE IF op = "P_INTERPRETER_ALWAYS_SUCCESS" THEN {"interpreter.expr"}
  ELSE IF op = "N_CASE_METADATA_ONLY" THEN {"title", "display.unit002_m_control"}
  ELSE IF op = "N_PROVENANCE_EDGE_ORDER_ONLY" THEN {"provenance.edges"}
  ELSE {"derivation.facts"}

Reversible(seed, op) ==
  IF op = "N_PROVENANCE_EDGE_ORDER_ONLY" THEN seed.edgesReversible ELSE seed.factsReversible

DiffPaths(seed, op, by) ==
  IF op \in Positives
    THEN IF by = "corrected" THEN Surface(op) ELSE {"leaves of the expression"}
  ELSE IF op = "N_CASE_METADATA_ONLY"
    THEN IF seed.display THEN Surface(op) ELSE {"title", "display"}
  ELSE IF Reversible(seed, op) THEN Surface(op) ELSE {}

IsLocal(seed, op, by) == DiffPaths(seed, op, by) = Surface(op)

\* The semantic view of a summary, and the witness beside it.
View(r) == [part \in Parts \ {"witness"} |-> r[part]]

Report(inst, program, exact, d, witness) ==
  [status |-> ProductStatus(exact, d), exact |-> exact, d |-> d,
   effects |-> [w \in WorldsOf(inst) |-> EffectOf(inst, program, w)], witness |-> witness]

SoundReports(inst, program) ==
  LET wrong == Mismatches(inst, program)
      found == IF wrong = {} THEN {None} ELSE wrong
  IN  {Report(inst, program, wrong = {}, Discriminates(inst, program), w) : w \in found}

\* A faulty part says anything, every other part what a sound report says.
Said(r, part, anything) == IF part \in detector THEN anything ELSE {r[part]}
Reports(inst, program) ==
  UNION {[status  : Said(r, "status", {"PRESERVED", "INCOMPLETE", "REGRESSION"}),
          exact   : Said(r, "exact", BOOLEAN),
          d       : Said(r, "d", BOOLEAN),
          effects : Said(r, "effects", [WorldsOf(inst) -> Effects]),
          witness : Said(r, "witness", WorldsOf(inst) \cup {None})] :
           r \in SoundReports(inst, program)}

BaselinePasses(r) == r.status = "PRESERVED" /\ r.d /\ r.exact

Contradicts(inst, r, w) == r.effects[w] # RequiredIn(inst, w)

\* Mutants: the witness is not looked at; every loss has to show in the discriminator.
PositivePassesAnyWitness(seed, op, r) ==
  IF op = "P_DISCRIMINATOR_COLLAPSE"
  THEN ~r.d /\ r.status \in {"INCOMPLETE", "REGRESSION"}
  ELSE r.status = "REGRESSION" /\ ~r.exact
PositivePassesByDiscriminator(seed, op, r) ==
  ~r.d /\ r.status \in {"INCOMPLETE", "REGRESSION"}

\* Of the worlds at the stale version the report's first is looked at, besides the witness.
PositivePasses(seed, op, r) ==
  LET stale == {w \in WorldsOf(seed.instance) : w.current = seed.staleAt} IN
  IF op = "P_DISCRIMINATOR_COLLAPSE"
  THEN ~r.d /\ r.status \in {"INCOMPLETE", "REGRESSION"}
  ELSE /\ r.status = "REGRESSION" /\ ~r.exact
       /\ r.witness \in stale /\ Contradicts(seed.instance, r, r.witness)
       /\ Contradicts(seed.instance, r, CHOOSE first \in stale : TRUE)

NegativePasses(r, base) == View(r) = base

----------------------------------------------------------------------------
(* The executor.  A plan that has passed the freeze check is the frozen one. *)

Seed     == frozen.seeds[control.seed]
Program  == ProgramOf[Seed.instance.pattern]
Operator == Operators[control.op]
Surroundings == UNCHANGED <<frozen, plan, detector>>

EditPlan ==
  /\ control.pc = "rest" /\ plan' \in Plans \ {plan}
  /\ UNCHANGED <<frozen, detector, control, metrics, result, deceived>>

Start ==
  /\ control.pc = "rest"
  /\ \E by \in Executors : control' = [AtRest EXCEPT !.pc = "freeze", !.by = by]
  /\ UNCHANGED <<metrics, result, deceived>> /\ Surroundings

\* The plan is the frozen one, with two seeds and exactly the expected operators, and the
\* cases are materialized; then the work directory is cleared.
VerifyFreeze ==
  /\ control.pc = "freeze"
  /\ plan = frozen
  /\ plan.operators = Positives \cup Negatives /\ Len(plan.seeds) = 2
  /\ control' = [control EXCEPT !.pc = "seed"]
  /\ metrics' = NoMetrics /\ result' = None /\ deceived' = FALSE
  /\ Surroundings

CompileSeed ==
  /\ control.pc = "seed" /\ Seed.calibration
  /\ control' = [control EXCEPT !.pc = "base1", !.op = 0, !.first = None, !.base = None]
  /\ UNCHANGED <<metrics, result, deceived>> /\ Surroundings

Localizing == {"P_MECHANISM_ALWAYS_ACCEPTS", "P_INTERPRETER_ALWAYS_SUCCESS"}

\* What the control scores of a report: where a loss has to be localized, its witness in
\* the place of D; of a collapsed discriminator, D and that it is not called preserved.
\* A report that is wrong elsewhere (in D of the mutants that are localized, in the exact
\* status of a collapsed discriminator, in the rows of the worlds) deceives nobody here.
AgreesWith(q, r, op) ==
  IF op = "P_DISCRIMINATOR_COLLAPSE"
  THEN (q.d <=> r.d) /\ (q.status = "PRESERVED" <=> r.status = "PRESERVED")
  ELSE /\ q.status = r.status /\ (q.exact <=> r.exact)
       /\ IF op \in Localizing THEN q.witness = r.witness ELSE q.d <=> r.d

Agrees(inst, program, r, op) == \E q \in SoundReports(inst, program) : AgreesWith(q, r, op)

Note(r, program) ==
  LET op == IF control.op = 0 THEN None ELSE Operator
  IN  deceived' = (deceived \/ ~Agrees(Seed.instance, program, r, op))

FirstBaseline ==
  /\ control.pc = "base1"
  /\ \E r \in Reports(Seed.instance, Program) :
       /\ control' = [control EXCEPT !.pc = "base2", !.base = View(r), !.pass = BaselinePasses(r)]
       /\ Note(r, Program)
  /\ UNCHANGED <<metrics, result>> /\ Surroundings

SecondBaseline ==
  /\ control.pc = "base2"
  /\ \E r \in Reports(Seed.instance, Program) :
       LET passed == control.pass /\ BaselinePasses(r) /\ View(r) = control.base IN
       /\ control' = [control EXCEPT !.pc = "first", !.op = 1, !.baselinePass = passed]
       /\ metrics' = [metrics EXCEPT !.baseline = @ + (IF passed THEN 1 ELSE 0)]
       /\ Note(r, Program)
  /\ UNCHANGED result /\ Surroundings

RunPasses(r) ==
  IF Operator \in Positives THEN PositivePasses(Seed, Operator, r)
  ELSE NegativePasses(r, control.base)

FirstRepeat ==
  /\ control.pc = "first"
  /\ \E r \in Reports(Seed.instance, Mutated(Program, Operator)) :
       /\ control' = [control EXCEPT !.pc = "second", !.first = View(r), !.pass = RunPasses(r)]
       /\ Note(r, Mutated(Program, Operator))
  /\ UNCHANGED <<metrics, result>> /\ Surroundings

\* Mutant: one cell too many.
AfterCellPastLast ==
  IF control.op <= Len(Operators) THEN [control EXCEPT !.pc = "first", !.op = @ + 1, !.first = None]
  ELSE IF control.seed < Len(frozen.seeds)
       THEN [control EXCEPT !.pc = "seed", !.seed = @ + 1]
       ELSE [control EXCEPT !.pc = "score"]

AfterCell ==
  IF control.op < Len(Operators) THEN [control EXCEPT !.pc = "first", !.op = @ + 1, !.first = None]
  ELSE IF control.seed < Len(frozen.seeds)
       THEN [control EXCEPT !.pc = "seed", !.seed = @ + 1]
       ELSE [control EXCEPT !.pc = "score"]

SecondRepeat ==
  /\ control.pc = "second"
  /\ \E r \in Reports(Seed.instance, Mutated(Program, Operator)) :
       LET repeatable == View(r) = control.first
           local      == IsLocal(Seed, Operator, control.by)
           passed     == control.baselinePass /\ local /\ control.pass /\ RunPasses(r) /\ repeatable
           Count(c)   == IF c THEN 1 ELSE 0
       IN
       /\ control' = AfterCell
       /\ metrics' =
            [metrics EXCEPT
               !.positive = @ + Count(passed /\ Operator \in Positives),
               !.negative = @ + Count(passed /\ Operator \in Negatives),
               !.localized = @ + Count(passed /\ Operator \in Localizing),
               !.discriminator = @ + Count(passed /\ Operator = "P_DISCRIMINATOR_COLLAPSE"),
               !.repeatable = @ + Count(repeatable),
               !.local = @ + Count(local)]
       /\ Note(r, Mutated(Program, Operator))
  /\ UNCHANGED result /\ Surroundings

FullScore == [baseline |-> 2, positive |-> 6, negative |-> 6, localized |-> 4,
              discriminator |-> 2, repeatable |-> 12, local |-> 12]

\* The corrected executor annotates whatever result lies in the work directory when the
\* plain one returns, however it returns.
Annotated(r) ==
  IF r = None \/ control.by = "plain" THEN r ELSE [r EXCEPT !.annotated = TRUE]

Outcome ==
  [status |-> IF metrics = FullScore THEN "PROMOTED" ELSE "NOT_PROMOTED",
   by |-> control.by, annotated |-> FALSE]

WriteResult ==
  /\ control.pc = "score" /\ result' = Annotated(Outcome)
  /\ control' = AtRest /\ metrics' = NoMetrics
  /\ UNCHANGED deceived /\ Surroundings

\* An exception ends the execution with exit code 2.
InvalidExecution ==
  /\ control.pc # "rest"
  /\ result' = Annotated(result)
  /\ control' = AtRest /\ metrics' = NoMetrics
  /\ UNCHANGED deceived /\ Surroundings

\* A killed executor annotates nothing; it may have written the result.
Killed ==
  /\ control.pc # "rest"
  /\ \/ UNCHANGED result
     \/ control.pc = "score" /\ result' = Outcome
  /\ control' = AtRest /\ metrics' = NoMetrics
  /\ UNCHANGED deceived /\ Surroundings

ControlNext ==
  \/ EditPlan \/ Start \/ VerifyFreeze \/ CompileSeed \/ FirstBaseline \/ SecondBaseline
  \/ FirstRepeat \/ SecondRepeat \/ WriteResult \/ InvalidExecution \/ Killed

ControlSpec == ControlInit /\ [][ControlNext]_controlVars

----------------------------------------------------------------------------
(* Properties. *)

Promoted == result # None /\ result.status = "PROMOTED"

\* The variables have their types, and no metric exceeds its total.
ControlTypeOK ==
  /\ frozen \in Plans /\ plan \in Plans /\ detector \in Detectors
  /\ control.pc \in {"rest", "freeze", "seed", "base1", "base2", "first", "second", "score"}
  /\ control.by \in Executors
  /\ control.pc \notin {"rest", "freeze", "score"} => control.seed \in DOMAIN frozen.seeds
  /\ control.pc \in {"first", "second"} => control.op \in DOMAIN Operators
  /\ \A f \in DOMAIN metrics : metrics[f] \in 0 .. FullScore[f]
  /\ result \in {None} \cup [status : {"PROMOTED", "NOT_PROMOTED"}, by : Executors,
                              annotated : BOOLEAN]
  /\ deceived \in BOOLEAN

\* A seed is preserved if its target is a preserved comparison, the anchor is the
\* only reviewed version, and both it and the stale version occur in admissible worlds.
PreservedSeed(s) ==
  /\ s.instance.pattern = "PRESERVED_COMPARE" /\ s.instance.reviewed = {s.instance.anchor}
  /\ s.instance.anchor # s.staleAt
  /\ \A v \in {s.instance.anchor, s.staleAt} : \E w \in WorldsOf(s.instance) : w.current = v

\* If the frozen seeds are preserved, a promoted detector, whatever it is, said in every
\* single verification of the execution, in what the control scores, what a sound one
\* says: no loss passed, no alarm without one, no witness misplaced, not even in one repeat.
\* And only the corrected executor promotes, as the path comparison of the plain one rejects
\* all six semantic cells: so the annotation of the corrected one, which may land on an
\* earlier result of the plain one (when it stopped before it cleared the work directory),
\* never turns such a result into an eligible promotion.
AllPreserved == \A i \in DOMAIN frozen.seeds : PreservedSeed(frozen.seeds[i])
PromotedWasSound ==
  Promoted => (AllPreserved => ~deceived) /\ result.by = "corrected"

\* A sound detector that the corrected executor controls to the end is promoted, provided
\* the frozen seeds are preserved ones of just the two versions, with the display record
\* and the reversible lists that the operators take for granted.
FitSeed(s) ==
  /\ PreservedSeed(s) /\ s.instance.domain = {s.instance.anchor, s.staleAt}
  /\ s.display /\ s.edgesReversible /\ s.factsReversible
AllFit == \A i \in DOMAIN frozen.seeds : FitSeed(frozen.seeds[i])
SoundIsPromoted ==
  detector = {} /\ AllFit /\ result # None /\ result.by = "corrected" => Promoted
=============================================================================
