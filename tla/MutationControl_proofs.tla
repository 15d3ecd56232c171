------------------------ MODULE MutationControl_proofs ------------------------
(***************************************************************************)
(* What a promotion says of the detector, for every frozen plan, every       *)
(* domain of versions and every detector.                                    *)
(*                                                                         *)
(* A promotion is a comparison of seven counts with the full score.  The      *)
(* invariant relates the counts to the place of the executor: Due is what a   *)
(* faultless execution would have counted there, no count is ever above it,   *)
(* and an execution that was deceived is behind it for good, or will be when  *)
(* the pair of verifications under way is scored.  That a deceiving report    *)
(* never passes is a matter of the operators and of the preserved seed:       *)
(* there a baseline that passes says what a sound one says, a localized       *)
(* witness is one a sound report can have, a collapse is one to a sound       *)
(* detector, and an unchanged case repeats the baseline.  Nothing is assumed  *)
(* of the reports themselves, so the detector may be anything.               *)
(***************************************************************************)
EXTENDS MCEngines, Engines_proofs

----------------------------------------------------------------------------
(* The reports. *)

LEMMA SomeReportIsSound ==
  ASSUME NEW inst, NEW program
  PROVE  SoundReports(inst, program) # {}
BY DEF SoundReports

\* What a sound report says.
LEMMA SoundReportIs ==
  ASSUME NEW inst, NEW program, NEW r \in SoundReports(inst, program)
  PROVE  LET wrong == Mismatches(inst, program) IN
         /\ \E w : r = Report(inst, program, wrong = {}, Discriminates(inst, program), w)
         /\ r.exact <=> wrong = {}
         /\ r.d <=> Discriminates(inst, program)
         /\ r.status = IF wrong # {} THEN "REGRESSION"
                       ELSE IF Discriminates(inst, program) THEN "PRESERVED" ELSE "INCOMPLETE"
         /\ r.effects = [w \in WorldsOf(inst) |-> EffectOf(inst, program, w)]
         /\ wrong # {} => r.witness \in wrong
<1> DEFINE wrong == Mismatches(inst, program)
           D     == Discriminates(inst, program)
<1>1. PICK w : /\ r = Report(inst, program, wrong = {}, D, w)
               /\ wrong # {} => w \in wrong
  BY DEF SoundReports
<1> HIDE DEF wrong, D
<1>2. /\ r.exact = (wrong = {}) /\ r.d = D /\ r.witness = w
      /\ r.effects = [u \in WorldsOf(inst) |-> EffectOf(inst, program, u)]
      /\ r.status = ProductStatus(wrong = {}, D)
  BY <1>1, Zenon DEF Report
<1>3. r.status = IF wrong # {} THEN "REGRESSION" ELSE IF D THEN "PRESERVED" ELSE "INCOMPLETE"
  BY <1>2, Zenon DEF ProductStatus
<1> QED
  BY <1>1, <1>2, <1>3, Zenon DEF wrong, D

\* The status tells of the discriminator, where no world is wrong and where it collapsed.
LEMMA StatusOfSound ==
  ASSUME NEW inst, NEW program, NEW r \in SoundReports(inst, program)
  PROVE  /\ Mismatches(inst, program) = {} /\ Discriminates(inst, program) =>
              r.status = "PRESERVED"
         /\ ~Discriminates(inst, program) => r.status # "PRESERVED"
<1> DEFINE wrong == Mismatches(inst, program)
           D     == Discriminates(inst, program)
<1>1. r.status = IF wrong # {} THEN "REGRESSION" ELSE IF D THEN "PRESERVED" ELSE "INCOMPLETE"
  BY SoundReportIs, Zenon
<1> HIDE DEF wrong, D
<1>2. CASE wrong # {}
  BY <1>1, <1>2 DEF wrong
<1>3. CASE wrong = {} /\ D
  BY <1>1, <1>3 DEF D
<1>4. CASE wrong = {} /\ ~D
  BY <1>1, <1>4 DEF D
<1> QED
  BY <1>2, <1>3, <1>4

\* Every world that the program gets wrong is the witness of a sound report.
LEMMA WitnessOfSound ==
  ASSUME NEW inst, NEW program, NEW w \in Mismatches(inst, program)
  PROVE  \E r \in SoundReports(inst, program) : r.witness = w
<1> DEFINE wrong == Mismatches(inst, program)
           r == Report(inst, program, wrong = {}, Discriminates(inst, program), w)
<1>1. r \in SoundReports(inst, program)
  BY DEF SoundReports
<1>2. r.witness = w
  BY DEF Report
<1> QED
  BY <1>1, <1>2

LEMMA ViewOf ==
  ASSUME NEW r
  PROVE  /\ View(r).status = r.status /\ View(r).exact = r.exact
         /\ View(r).d = r.d /\ View(r).effects = r.effects
BY DEF View, Parts

\* Sound reports of one program differ in the witness only.
LEMMA SoundViewsAgree ==
  ASSUME NEW inst, NEW program, NEW q \in SoundReports(inst, program),
         NEW r \in SoundReports(inst, program)
  PROVE  View(q) = View(r)
<1> DEFINE wrong == Mismatches(inst, program)
           D     == Discriminates(inst, program)
<1>1. PICK u : q = Report(inst, program, wrong = {}, D, u)
  BY DEF SoundReports
<1>2. PICK w : r = Report(inst, program, wrong = {}, D, w)
  BY DEF SoundReports
<1> HIDE DEF wrong, D
<1>3. q.status = r.status /\ q.exact = r.exact /\ q.d = r.d /\ q.effects = r.effects
  BY <1>1, <1>2, Zenon DEF Report
<1>4. \A part \in Parts \ {"witness"} : q[part] = r[part]
  BY <1>3 DEF Parts
<1> QED
  BY <1>4 DEF View

\* A detector without a faulty part is sound.
LEMMA SoundDetector ==
  ASSUME detector = {}, NEW inst, NEW program, NEW r \in Reports(inst, program)
  PROVE  r \in SoundReports(inst, program)
<1>1. PICK q \in SoundReports(inst, program) :
        r \in [status  : Said(q, "status", {"PRESERVED", "INCOMPLETE", "REGRESSION"}),
              exact   : Said(q, "exact", BOOLEAN),
              d       : Said(q, "d", BOOLEAN),
              effects : Said(q, "effects", [WorldsOf(inst) -> Effects]),
              witness : Said(q, "witness", WorldsOf(inst) \cup {None})]
  BY DEF Reports
<1>2. \A part, anything : Said(q, part, anything) = {q[part]}
  BY DEF Said
<1>3. r \in [status : {q.status}, exact : {q.exact}, d : {q.d}, effects : {q.effects},
             witness : {q.witness}]
  BY <1>1, <1>2
<1>4. r = [status |-> q.status, exact |-> q.exact, d |-> q.d, effects |-> q.effects,
           witness |-> q.witness]
  BY <1>3
<1>5. PICK w : q = Report(inst, program, Mismatches(inst, program) = {},
                          Discriminates(inst, program), w)
  BY SoundReportIs
<1>6. q = [status |-> q.status, exact |-> q.exact, d |-> q.d, effects |-> q.effects,
           witness |-> q.witness]
  BY <1>5, Zenon DEF Report
<1> QED
  BY <1>4, <1>6

----------------------------------------------------------------------------
(* Preserved seeds, and what passes on them. *)

\* The effect of a mutant that forgets to look, or to tell, is success everywhere.
LEMMA LostEffect ==
  ASSUME NEW inst \in Instances, inst.pattern = "PRESERVED_COMPARE", NEW op \in Localizing,
         NEW w \in WorldsOf(inst)
  PROVE  EffectOf(inst, Mutated(ProgramOf[inst.pattern], op), w) = "success"
<1>1. CASE op = "P_MECHANISM_ALWAYS_ACCEPTS"
  BY <1>1 DEF EffectOf, SignatureOf, NativeKind, Interpreted, ProgramOf, Mutated
<1>2. CASE op = "P_INTERPRETER_ALWAYS_SUCCESS"
  BY <1>2 DEF EffectOf, SignatureOf, NativeKind, Interpreted, ProgramOf, Mutated
<1> QED
  BY <1>1, <1>2 DEF Localizing

\* A lost consequence is missing in the stale worlds, as in every world but the anchor's.
LEMMA LossIsMismatch ==
  ASSUME NEW seed \in Seeds, PreservedSeed(seed), NEW op \in Localizing
  PROVE  LET inst == seed.instance IN
         Mismatches(inst, Mutated(ProgramOf[inst.pattern], op)) =
           {w \in WorldsOf(inst) : w.current # inst.anchor}
<1> DEFINE inst == seed.instance
<1>1. inst \in Instances /\ inst.pattern = "PRESERVED_COMPARE" /\ inst.reviewed = {inst.anchor}
  BY DEF Seeds, PreservedSeed
<1>2. \A w \in WorldsOf(inst) : RequiredIn(inst, w) = SourceShows(inst, w)
  BY <1>1, RequiredAtAnchor
<1>3. \A w \in WorldsOf(inst) :
        EffectOf(inst, Mutated(ProgramOf[inst.pattern], op), w) = "success"
  BY <1>1, LostEffect
<1> HIDE DEF inst
<1>4. Mismatches(inst, Mutated(ProgramOf[inst.pattern], op)) =
        {w \in WorldsOf(inst) : w.current # inst.anchor}
  BY <1>2, <1>3 DEF Mismatches, SourceShows
<1> QED
  BY <1>4 DEF inst

\* A collapsed discriminator does not discriminate.
LEMMA CollapseIsSeen ==
  ASSUME NEW seed, PreservedSeed(seed), NEW program, program.discriminator = "literal"
  PROVE  ~Discriminates(seed.instance, program)
<1> DEFINE inst == seed.instance
<1>1. PICK v \in WorldsOf(inst), w \in WorldsOf(inst) :
        v.current = inst.anchor /\ w.current = seed.staleAt
  BY DEF PreservedSeed
<1>2. RequiredIn(inst, v) = "success" /\ RequiredIn(inst, w) = "stale"
  BY <1>1, RequiredAtAnchor DEF PreservedSeed, SourceShows
<1>3. SameToDiscriminator(inst, program, v, w)
  BY DEF SameToDiscriminator
<1> QED
  BY <1>2, <1>3 DEF Discriminates

\* What the view of a preserved seed shows.
ShowsPreserved(view) == view.status = "PRESERVED" /\ view.d /\ view.exact

LEMMA SoundIsPreserved ==
  ASSUME NEW seed \in Seeds, PreservedSeed(seed),
         NEW q \in SoundReports(seed.instance, ProgramOf[seed.instance.pattern])
  PROVE  ShowsPreserved(q)
<1>1. seed.instance \in Instances
  BY DEF Seeds
<1>2. /\ Mismatches(seed.instance, ProgramOf[seed.instance.pattern]) = {}
      /\ Discriminates(seed.instance, ProgramOf[seed.instance.pattern])
  BY <1>1, PreservedIsExact DEF PreservedSeed
<1>3. q.d /\ q.exact
  BY <1>2, SoundReportIs, Zenon
<1>4. q.status = "PRESERVED"
  <2> DEFINE inst    == seed.instance
             program == ProgramOf[inst.pattern]
  <2>1. /\ q \in SoundReports(inst, program)
        /\ Mismatches(inst, program) = {} /\ Discriminates(inst, program)
    BY <1>2
  <2> HIDE DEF inst, program
  <2> QED
    BY <2>1, StatusOfSound
<1> QED
  BY <1>3, <1>4 DEF ShowsPreserved

LEMMA NoneIsNoOperator == None \notin Localizing /\ None # "P_DISCRIMINATOR_COLLAPSE"
BY ControlConstants DEF Localizing, Positives

\* A report that shows a preserved seed agrees with a sound one, where nothing is changed.
LEMMA UnchangedAgrees ==
  ASSUME NEW seed \in Seeds, PreservedSeed(seed), NEW op, op \notin Localizing,
         op # "P_DISCRIMINATOR_COLLAPSE", NEW r, ShowsPreserved(r)
  PROVE  Agrees(seed.instance, ProgramOf[seed.instance.pattern], r, op)
<1>1. PICK q \in SoundReports(seed.instance, ProgramOf[seed.instance.pattern]) : TRUE
  BY SomeReportIsSound
<1>2. ShowsPreserved(q)
  BY SoundIsPreserved
<1>3. AgreesWith(q, r, op)
  BY <1>2 DEF AgreesWith, ShowsPreserved
<1> QED
  BY <1>3 DEF Agrees

\* A loss that passes as localized has the witness of a sound report.
LEMMA LocalizedAgrees ==
  ASSUME NEW seed \in Seeds, PreservedSeed(seed), NEW op \in Localizing,
         NEW r, PositivePasses(seed, op, r)
  PROVE  Agrees(seed.instance, Mutated(ProgramOf[seed.instance.pattern], op), r, op)
<1> DEFINE inst    == seed.instance
           program == Mutated(ProgramOf[inst.pattern], op)
<1>1. /\ r.status = "REGRESSION" /\ ~r.exact
      /\ r.witness \in WorldsOf(inst) /\ r.witness.current = seed.staleAt
  BY DEF PositivePasses, Localizing
<1>2. r.witness \in Mismatches(inst, program)
  BY <1>1, LossIsMismatch DEF PreservedSeed
<1> HIDE DEF inst, program
<1>3. PICK q \in SoundReports(inst, program) : q.witness = r.witness
  BY <1>2, WitnessOfSound
<1>4. q.status = "REGRESSION" /\ ~q.exact
  BY <1>2, SoundReportIs
<1>5. op # "P_DISCRIMINATOR_COLLAPSE"
  BY DEF Localizing
<1>6. AgreesWith(q, r, op)
  BY <1>1, <1>3, <1>4, <1>5 DEF AgreesWith
<1> QED
  BY <1>6 DEF Agrees, inst, program

LEMMA CollapseAgrees ==
  ASSUME NEW seed \in Seeds, PreservedSeed(seed), NEW op, op = "P_DISCRIMINATOR_COLLAPSE",
         NEW r, PositivePasses(seed, op, r)
  PROVE  Agrees(seed.instance, Mutated(ProgramOf[seed.instance.pattern], op), r, op)
<1> DEFINE inst    == seed.instance
           program == Mutated(ProgramOf[inst.pattern], op)
<1>1. ~r.d /\ r.status # "PRESERVED"
  BY DEF PositivePasses
<1>2. program.discriminator = "literal"
  BY DEF Mutated, ProgramOf, PreservedSeed
<1> HIDE DEF program
<1>3. ~Discriminates(inst, program)
  BY <1>2, CollapseIsSeen
<1> HIDE DEF inst
<1>4. PICK q \in SoundReports(inst, program) : TRUE
  BY SomeReportIsSound
<1>5. ~q.d /\ q.status # "PRESERVED"
  <2>1. ~q.d
    BY <1>3, SoundReportIs, Zenon
  <2>2. q.status # "PRESERVED"
    BY <1>3, StatusOfSound, Zenon
  <2> QED
    BY <2>1, <2>2
<1>6. AgreesWith(q, r, op)
  BY <1>1, <1>5 DEF AgreesWith
<1> QED
  BY <1>6 DEF Agrees, inst, program

----------------------------------------------------------------------------
(* The invariant. *)

Executing == control.pc \notin {"rest", "freeze"}
InCell    == control.pc \in {"first", "second"}

\* The finished cells of the operators lo to hi at the place c, over both seeds.
Finished(c, lo, hi) ==
  LET width == (hi + 1) - lo
      here  == IF c.op < lo THEN 0 ELSE IF c.op > hi THEN width ELSE c.op - lo
  IN  IF c.pc = "score" THEN width + width
      ELSE (IF c.seed = 2 THEN width ELSE 0) + (IF c.pc \in {"first", "second"} THEN here ELSE 0)

\* The counts of a faultless execution at the place c.
Due(c) ==
  [baseline |-> IF c.pc = "score" THEN 2
                ELSE IF c.pc \in {"first", "second"} THEN c.seed ELSE c.seed - 1,
   positive |-> Finished(c, 1, 3), negative |-> Finished(c, 4, 6),
   localized |-> Finished(c, 1, 1) + Finished(c, 3, 3), discriminator |-> Finished(c, 2, 2),
   repeatable |-> Finished(c, 1, 6), local |-> Finished(c, 1, 6)]

Counts == [baseline : Nat, positive : Nat, negative : Nat, localized : Nat,
           discriminator : Nat, repeatable : Nat, local : Nat]
NotAbove(m, n) ==
  /\ m.baseline <= n.baseline /\ m.positive <= n.positive /\ m.negative <= n.negative
  /\ m.localized <= n.localized /\ m.discriminator <= n.discriminator
  /\ m.repeatable <= n.repeatable /\ m.local <= n.local
Behind(m, n) ==
  m.baseline < n.baseline \/ m.positive < n.positive \/ m.negative < n.negative

ControlShape ==
  /\ frozen \in Plans /\ plan \in Plans /\ detector \in Detectors /\ deceived \in BOOLEAN
  /\ control = [pc |-> control.pc, by |-> control.by, seed |-> control.seed, op |-> control.op,
                first |-> control.first, base |-> control.base,
                baselinePass |-> control.baselinePass, pass |-> control.pass]
  /\ control.pc \in {"rest", "freeze", "seed", "base1", "base2", "first", "second", "score"}
  /\ control.by \in Executors /\ control.seed \in {1, 2} /\ control.op \in 0 .. 6
  /\ control.baselinePass \in BOOLEAN /\ control.pass \in BOOLEAN
  /\ InCell => control.op \in 1 .. 6
  /\ ~Executing => control.seed = 1
  /\ control.pc \in {"base1", "base2"} => control.op = 0
  /\ metrics \in Counts
  /\ result \in {None} \cup [status : {"PROMOTED", "NOT_PROMOTED"}, by : Executors,
                              annotated : BOOLEAN]

\* No count is above what is due, and the plain executor passes no mutant.
CountsAreDue ==
  /\ NotAbove(metrics, FullScore)
  /\ Executing => /\ Len(frozen.seeds) = 2 /\ result = None
                  /\ NotAbove(metrics, Due(control))
                  /\ control.by = "plain" => metrics.positive = 0

\* What a baseline showed that has passed so far; one that has not keeps the count behind.
BaselineShown == ShowsPreserved(control.base)
BaselinesTell ==
  /\ control.pc = "base2" /\ control.pass => BaselineShown
  /\ InCell /\ control.baselinePass => BaselineShown
  /\ InCell /\ ~control.baselinePass => metrics.baseline < control.seed

DeceivedIsBehind ==
  AllPreserved /\ Executing /\ deceived =>
    \/ Behind(metrics, Due(control))
    \/ control.pc \in {"base2", "second"} /\ ~control.pass

ControlInv ==
  ControlShape /\ CountsAreDue /\ BaselinesTell /\ DeceivedIsBehind /\ PromotedWasSound

\* With a sound detector and fit seeds nothing is missed.
CompiledView(inst) == View(CHOOSE r \in SoundReports(inst, ProgramOf[inst.pattern]) : TRUE)
NothingIsMissed ==
  detector = {} /\ AllFit /\ Executing /\ control.by = "corrected" =>
    /\ metrics = Due(control)
    /\ control.pc \in {"base2", "second"} => control.pass
    /\ control.pc \in {"base2", "first", "second"} => control.base = CompiledView(Seed.instance)
    /\ control.pc = "second" =>
         \A r \in SoundReports(Seed.instance, Mutated(Program, Operator)) : View(r) = control.first
SoundInv == NothingIsMissed /\ SoundIsPromoted

----------------------------------------------------------------------------
(* Places and counts. *)

LEMMA SeedOfPlace ==
  ASSUME ControlShape, Len(frozen.seeds) = 2
  PROVE  /\ control.seed \in DOMAIN frozen.seeds
         /\ Seed \in Seeds /\ Seed.instance \in Instances
<1>1. frozen.seeds \in Seq(Seeds)
  BY ControlConstants DEF ControlShape, PlanRecords
<1>2. control.seed \in 1 .. Len(frozen.seeds)
  BY DEF ControlShape
<1>3. control.seed \in DOMAIN frozen.seeds /\ frozen.seeds[control.seed] \in Seeds
  BY <1>1, <1>2
<1> QED
  BY <1>3 DEF Seed, Seeds

LEMMA OperatorOfPlace ==
  ASSUME ControlShape, InCell
  PROVE  /\ Operator \in Positives <=> control.op \in 1 .. 3
         /\ Operator \in Negatives <=> control.op \in 4 .. 6
         /\ Operator \in Localizing <=> control.op \in {1, 3}
         /\ Operator = "P_DISCRIMINATOR_COLLAPSE" <=> control.op = 2
         /\ control.op # 0
<1>1. control.op \in {1, 2, 3, 4, 5, 6}
  BY DEF ControlShape
<1> QED
  BY <1>1 DEF Operator, Operators, Positives, Negatives, Localizing

\* The place after a cell.
LEMMA NextCell ==
  ASSUME ControlShape, Len(frozen.seeds) = 2, control.pc = "second"
  PROVE  \/ /\ control.op < 6
            /\ AfterCell = [pc |-> "first", by |-> control.by, seed |-> control.seed,
                            op |-> control.op + 1, first |-> None, base |-> control.base,
                            baselinePass |-> control.baselinePass, pass |-> control.pass]
         \/ /\ control.op = 6 /\ control.seed = 1
            /\ AfterCell = [pc |-> "seed", by |-> control.by, seed |-> 2,
                            op |-> control.op, first |-> control.first, base |-> control.base,
                            baselinePass |-> control.baselinePass, pass |-> control.pass]
         \/ /\ control.op = 6 /\ control.seed = 2
            /\ AfterCell = [pc |-> "score", by |-> control.by, seed |-> 2,
                            op |-> control.op, first |-> control.first, base |-> control.base,
                            baselinePass |-> control.baselinePass, pass |-> control.pass]
<1>1. Len(Operators) = 6
  BY DEF Operators
<1>2. control.op \in 1 .. 6 /\ control.seed \in {1, 2}
  BY DEF ControlShape, InCell
<1>3. CASE control.op < 6
  BY <1>1, <1>3 DEF AfterCell, ControlShape
<1>4. CASE control.op = 6 /\ control.seed = 1
  <2>1. AfterCell = [control EXCEPT !.pc = "seed", !.seed = @ + 1]
    BY <1>1, <1>4 DEF AfterCell
  <2>2. control.seed + 1 = 2
    BY <1>4
  <2> QED
    BY <1>4, <2>1, <2>2 DEF ControlShape
<1>5. CASE control.op = 6 /\ control.seed = 2
  BY <1>1, <1>5 DEF AfterCell, ControlShape
<1> QED
  BY <1>2, <1>3, <1>4, <1>5

LEMMA FinishedGrows ==
  ASSUME ControlShape, Len(frozen.seeds) = 2, control.pc = "second",
         NEW lo \in 1 .. 6, NEW hi \in lo .. 6
  PROVE  /\ Finished(control, lo, hi) \in Nat
         /\ Finished(AfterCell, lo, hi) =
              Finished(control, lo, hi) + (IF control.op \in lo .. hi THEN 1 ELSE 0)
<1>1. control.op \in 1 .. 6 /\ control.seed \in {1, 2}
  BY DEF ControlShape, InCell
<1> QED
  BY <1>1, NextCell DEF Finished

LEMMA DueGrows ==
  ASSUME ControlShape, Len(frozen.seeds) = 2, control.pc = "second"
  PROVE  /\ Due(control) \in Counts
         /\ Due(AfterCell) =
              [baseline |-> Due(control).baseline,
               positive |-> Due(control).positive + (IF Operator \in Positives THEN 1 ELSE 0),
               negative |-> Due(control).negative + (IF Operator \in Negatives THEN 1 ELSE 0),
               localized |-> Due(control).localized + (IF Operator \in Localizing THEN 1 ELSE 0),
               discriminator |-> Due(control).discriminator
                                   + (IF Operator = "P_DISCRIMINATOR_COLLAPSE" THEN 1 ELSE 0),
               repeatable |-> Due(control).repeatable + 1, local |-> Due(control).local + 1]
<1>1. control.op \in 1 .. 6 /\ control.seed \in {1, 2}
  BY DEF ControlShape, InCell
<1>2. Due(AfterCell).baseline = Due(control).baseline /\ Due(control).baseline \in Nat
  BY <1>1, NextCell DEF Due
<1>3. /\ Finished(control, 1, 3) \in Nat /\ Finished(control, 4, 6) \in Nat
      /\ Finished(control, 1, 1) \in Nat /\ Finished(control, 2, 2) \in Nat
      /\ Finished(control, 3, 3) \in Nat /\ Finished(control, 1, 6) \in Nat
  BY FinishedGrows
<1>4. /\ Finished(AfterCell, 1, 3) = Finished(control, 1, 3) + (IF Operator \in Positives THEN 1 ELSE 0)
      /\ Finished(AfterCell, 4, 6) = Finished(control, 4, 6) + (IF Operator \in Negatives THEN 1 ELSE 0)
      /\ Finished(AfterCell, 2, 2) =
           Finished(control, 2, 2) + (IF Operator = "P_DISCRIMINATOR_COLLAPSE" THEN 1 ELSE 0)
  BY <1>1, FinishedGrows, OperatorOfPlace DEF InCell
<1>5. Finished(AfterCell, 1, 6) = Finished(control, 1, 6) + 1
  BY <1>1, FinishedGrows
<1>6. Finished(AfterCell, 1, 1) + Finished(AfterCell, 3, 3) =
        Finished(control, 1, 1) + Finished(control, 3, 3) + (IF Operator \in Localizing THEN 1 ELSE 0)
  BY <1>1, <1>3, FinishedGrows, OperatorOfPlace DEF InCell
<1> QED
  BY <1>2, <1>3, <1>4, <1>5, <1>6 DEF Due, Counts

----------------------------------------------------------------------------
(* The steps that look at a report. *)

\* A cell that passes beside a baseline that has passed deceives nobody.
LEMMA PassingCellTells ==
  ASSUME ControlShape, Len(frozen.seeds) = 2, InCell, AllPreserved, BaselineShown,
         NEW r, RunPasses(r)
  PROVE  Agrees(Seed.instance, Mutated(Program, Operator), r, Operator)
<1>1. Seed \in Seeds /\ PreservedSeed(Seed)
  BY SeedOfPlace DEF AllPreserved, Seed
<1>2. Program = ProgramOf[Seed.instance.pattern]
  BY DEF Program
<1>3. CASE Operator \in Localizing
  <2>1. PositivePasses(Seed, Operator, r)
    BY <1>3 DEF RunPasses, Localizing, Positives
  <2> QED
    BY <1>1, <1>2, <1>3, <2>1, LocalizedAgrees
<1>4. CASE Operator = "P_DISCRIMINATOR_COLLAPSE"
  <2>1. PositivePasses(Seed, Operator, r)
    BY <1>4 DEF RunPasses, Positives
  <2> QED
    BY <1>1, <1>2, <1>4, <2>1, CollapseAgrees
<1>5. CASE Operator \in Negatives
  <2>1. View(r) = control.base
    BY <1>5 DEF RunPasses, NegativePasses, Negatives, Positives
  <2>2. ShowsPreserved(r)
    BY <2>1, ViewOf DEF BaselineShown, ShowsPreserved
  <2>3. Mutated(Program, Operator) = Program /\ Operator \notin Localizing
        /\ Operator # "P_DISCRIMINATOR_COLLAPSE"
    BY <1>5 DEF Mutated, Negatives, Localizing
  <2> QED
    BY <1>1, <1>2, <2>2, <2>3, UnchangedAgrees
<1> QED
  BY <1>3, <1>4, <1>5, OperatorOfPlace DEF ControlShape

\* A baseline that passes deceives nobody.
LEMMA PassingBaselineTells ==
  ASSUME ControlShape, Len(frozen.seeds) = 2, AllPreserved, NEW r, BaselinePasses(r)
  PROVE  Agrees(Seed.instance, Program, r, None)
<1>1. Seed \in Seeds /\ PreservedSeed(Seed)
  BY SeedOfPlace DEF AllPreserved, Seed
<1>2. ShowsPreserved(r)
  BY DEF BaselinePasses, ShowsPreserved
<1> QED
  BY <1>1, <1>2, NoneIsNoOperator, UnchangedAgrees DEF Program

LEMMA NoteOfCell ==
  ASSUME ControlShape, InCell, NEW r, Note(r, Mutated(Program, Operator))
  PROVE  /\ deceived' \in BOOLEAN
         /\ deceived' => \/ deceived
                         \/ ~Agrees(Seed.instance, Mutated(Program, Operator), r, Operator)
<1>1. control.op # 0 /\ deceived \in BOOLEAN
  BY OperatorOfPlace DEF ControlShape
<1> QED
  BY <1>1 DEF Note

LEMMA NoteOfBaseline ==
  ASSUME ControlShape, control.op = 0, NEW r, Note(r, Program)
  PROVE  /\ deceived' \in BOOLEAN
         /\ deceived' => deceived \/ ~Agrees(Seed.instance, Program, r, None)
BY DEF Note, ControlShape

LEMMA FirstBaselineInv ==
  ASSUME ControlInv, FirstBaseline
  PROVE  ControlInv'
<1> USE DEF ControlInv
<1>1. control.pc = "base1" /\ Executing /\ ~InCell
  BY DEF FirstBaseline, Executing, InCell
<1>2. PICK r \in Reports(Seed.instance, Program) :
        /\ control' = [control EXCEPT !.pc = "base2", !.base = View(r), !.pass = BaselinePasses(r)]
        /\ Note(r, Program)
  BY DEF FirstBaseline
<1>3. /\ frozen' = frozen /\ plan' = plan /\ detector' = detector
      /\ metrics' = metrics /\ result' = result
  BY DEF FirstBaseline, Surroundings
<1>4. PICK pass \in BOOLEAN : pass <=> BaselinePasses(r)
  OBVIOUS
<1>5. control' = [pc |-> "base2", by |-> control.by, seed |-> control.seed, op |-> control.op,
                  first |-> control.first, base |-> View(r),
                  baselinePass |-> control.baselinePass, pass |-> pass]
  <2>1. BaselinePasses(r) = pass
    BY <1>4 DEF BaselinePasses
  <2> QED
    BY <1>2, <2>1 DEF ControlShape
<1>6. control.op = 0 /\ Len(frozen.seeds) = 2 /\ Seed' = Seed /\ Program' = Program
  BY <1>1, <1>3, <1>5 DEF ControlShape, CountsAreDue, Seed, Program
<1>7. deceived' \in BOOLEAN /\ (deceived' => deceived \/ ~Agrees(Seed.instance, Program, r, None))
  BY <1>2, <1>6, NoteOfBaseline
<1>8. Due(control)' = Due(control)
  BY <1>1, <1>5 DEF Due, Finished
<1>9. ControlShape'
  BY <1>1, <1>3, <1>5, <1>7 DEF ControlShape, Executing, InCell
<1>10. CountsAreDue'
  BY <1>1, <1>3, <1>5, <1>8 DEF CountsAreDue, Executing
<1>11. pass => /\ BaselineShown'
               /\ AllPreserved => Agrees(Seed.instance, Program, r, None)
  <2> SUFFICES ASSUME pass
               PROVE  BaselineShown' /\ (AllPreserved => Agrees(Seed.instance, Program, r, None))
    OBVIOUS
  <2>1. BaselineShown'
    BY <1>4, <1>5, ViewOf DEF BaselineShown, ShowsPreserved, BaselinePasses
  <2>2. AllPreserved => Agrees(Seed.instance, Program, r, None)
    BY <1>4, <1>6, PassingBaselineTells
  <2> QED
    BY <2>1, <2>2
<1>12. BaselinesTell'
  BY <1>5, <1>11 DEF BaselinesTell, InCell
<1>13. DeceivedIsBehind'
  BY <1>1, <1>3, <1>5, <1>7, <1>8, <1>11 DEF DeceivedIsBehind, Executing, AllPreserved
<1>14. PromotedWasSound'
  BY <1>1, <1>3 DEF CountsAreDue, PromotedWasSound, Promoted
<1> QED
  BY <1>9, <1>10, <1>12, <1>13, <1>14

LEMMA SecondBaselineInv ==
  ASSUME ControlInv, SecondBaseline
  PROVE  ControlInv'
<1> USE DEF ControlInv
<1>1. control.pc = "base2" /\ Executing /\ ~InCell
  BY DEF SecondBaseline, Executing, InCell
<1>2. PICK r \in Reports(Seed.instance, Program) :
        LET passed == control.pass /\ BaselinePasses(r) /\ View(r) = control.base IN
        /\ control' = [control EXCEPT !.pc = "first", !.op = 1, !.baselinePass = passed]
        /\ metrics' = [metrics EXCEPT !.baseline = @ + (IF passed THEN 1 ELSE 0)]
        /\ Note(r, Program)
  BY DEF SecondBaseline
<1>3. /\ frozen' = frozen /\ plan' = plan /\ detector' = detector /\ result' = result
  BY DEF SecondBaseline, Surroundings
<1>4. PICK passed \in BOOLEAN :
        passed = (control.pass /\ BaselinePasses(r) /\ View(r) = control.base)
  BY DEF ControlShape
<1>5. control' = [pc |-> "first", by |-> control.by, seed |-> control.seed, op |-> 1,
                  first |-> control.first, base |-> control.base,
                  baselinePass |-> passed, pass |-> control.pass]
  BY <1>2, <1>4 DEF ControlShape
<1>6. metrics' = [metrics EXCEPT !.baseline = @ + (IF passed THEN 1 ELSE 0)]
  BY <1>2, <1>4
<1>7. control.op = 0 /\ Len(frozen.seeds) = 2 /\ Seed' = Seed /\ Program' = Program
  BY <1>1, <1>3, <1>5 DEF ControlShape, CountsAreDue, Seed, Program
<1>8. deceived' \in BOOLEAN /\ (deceived' => deceived \/ ~Agrees(Seed.instance, Program, r, None))
  BY <1>2, <1>7, NoteOfBaseline
<1>9. /\ Due(control).baseline = control.seed - 1
      /\ Due(control)' = [Due(control) EXCEPT !.baseline = control.seed]
  BY <1>1, <1>5, <1>7 DEF Due, Finished, ControlShape
<1>10. /\ metrics'.baseline = metrics.baseline + (IF passed THEN 1 ELSE 0)
       /\ metrics'.positive = metrics.positive /\ metrics'.negative = metrics.negative
       /\ metrics'.localized = metrics.localized /\ metrics'.repeatable = metrics.repeatable
       /\ metrics'.discriminator = metrics.discriminator /\ metrics'.local = metrics.local
       /\ metrics' \in Counts
  BY <1>6 DEF ControlShape, Counts
<1>11. /\ Due(control)'.baseline = control.seed
       /\ Due(control)'.positive = Due(control).positive
       /\ Due(control)'.negative = Due(control).negative
       /\ Due(control)'.localized = Due(control).localized
       /\ Due(control)'.repeatable = Due(control).repeatable
       /\ Due(control)'.discriminator = Due(control).discriminator
       /\ Due(control)'.local = Due(control).local
  BY <1>9 DEF Due
<1>12. ControlShape'
  BY <1>1, <1>3, <1>5, <1>8, <1>10 DEF ControlShape, Executing, InCell
<1>13. metrics.baseline \in Nat /\ control.seed \in {1, 2} /\ metrics.baseline <= control.seed - 1
  BY <1>1, <1>9 DEF ControlShape, CountsAreDue, NotAbove, Counts
<1>14. metrics'.baseline <= control.seed /\ metrics'.baseline <= 2
       /\ (~passed => metrics'.baseline < control.seed)
  BY <1>10, <1>13
<1>15. CountsAreDue'
  <2>1. NotAbove(metrics, FullScore)'
    BY <1>10, <1>14 DEF CountsAreDue, NotAbove, FullScore
  <2>2. NotAbove(metrics', Due(control)')
    BY <1>1, <1>10, <1>11, <1>14 DEF CountsAreDue, NotAbove
  <2> QED
    BY <1>1, <1>3, <1>5, <1>10, <2>1, <2>2 DEF CountsAreDue
<1>16. BaselinesTell'
  BY <1>1, <1>4, <1>5, <1>7, <1>14 DEF BaselinesTell, InCell, BaselineShown
<1>17. passed /\ AllPreserved => deceived' = deceived
  <2> SUFFICES ASSUME passed, AllPreserved PROVE deceived' = deceived
    OBVIOUS
  <2>1. Agrees(Seed.instance, Program, r, None)
    BY <1>4, <1>7, PassingBaselineTells
  <2> QED
    BY <1>2, <1>7, <1>8, <2>1 DEF Note, ControlShape
<1>18. DeceivedIsBehind'
  <2>1. CASE ~passed
    BY <1>11, <1>14, <2>1 DEF DeceivedIsBehind, Behind
  <2>2. CASE passed
    <3>1. AllPreserved /\ deceived' => Behind(metrics, Due(control))
      BY <1>1, <1>4, <1>17, <2>2 DEF DeceivedIsBehind
    <3>2. Behind(metrics, Due(control)) => Behind(metrics', Due(control)')
      BY <1>9, <1>10, <1>11, <1>13, <2>2 DEF Behind
    <3>3. AllPreserved' <=> AllPreserved
      BY <1>3 DEF AllPreserved
    <3> QED
      BY <3>1, <3>2, <3>3 DEF DeceivedIsBehind
  <2> QED
    BY <2>1, <2>2
<1>19. PromotedWasSound'
  BY <1>1, <1>3 DEF CountsAreDue, PromotedWasSound, Promoted
<1> QED
  BY <1>12, <1>15, <1>16, <1>18, <1>19

LEMMA FirstRepeatInv ==
  ASSUME ControlInv, FirstRepeat
  PROVE  ControlInv'
<1> USE DEF ControlInv
<1>1. control.pc = "first" /\ Executing /\ InCell
  BY DEF FirstRepeat, Executing, InCell
<1>2. PICK r \in Reports(Seed.instance, Mutated(Program, Operator)) :
        /\ control' = [control EXCEPT !.pc = "second", !.first = View(r), !.pass = RunPasses(r)]
        /\ Note(r, Mutated(Program, Operator))
  BY DEF FirstRepeat
<1>3. /\ frozen' = frozen /\ plan' = plan /\ detector' = detector
      /\ metrics' = metrics /\ result' = result
  BY DEF FirstRepeat, Surroundings
<1>4. PICK pass \in BOOLEAN : pass = RunPasses(r)
  BY DEF RunPasses, PositivePasses, NegativePasses
<1>5. control' = [pc |-> "second", by |-> control.by, seed |-> control.seed, op |-> control.op,
                  first |-> View(r), base |-> control.base,
                  baselinePass |-> control.baselinePass, pass |-> pass]
  BY <1>2, <1>4 DEF ControlShape
<1>6. Len(frozen.seeds) = 2 /\ Seed' = Seed /\ Program' = Program
  BY <1>1, <1>3, <1>5 DEF CountsAreDue, Seed, Program
<1>7. Due(control)' = Due(control) /\ Due(control).baseline = control.seed
  BY <1>1, <1>5 DEF Due, Finished
<1>8. /\ deceived' \in BOOLEAN
      /\ AllPreserved /\ deceived' /\ ~deceived => ~pass \/ ~BaselineShown
  BY <1>1, <1>2, <1>4, <1>6, NoteOfCell, PassingCellTells
<1>9. ControlShape'
  BY <1>1, <1>3, <1>5, <1>8 DEF ControlShape, Executing, InCell
<1>10. CountsAreDue'
  BY <1>1, <1>3, <1>5, <1>7 DEF CountsAreDue, Executing
<1>11. BaselinesTell'
  BY <1>1, <1>3, <1>5, <1>6 DEF BaselinesTell, InCell, BaselineShown
<1>12. DeceivedIsBehind'
  <2>1. AllPreserved /\ Executing /\ deceived => Behind(metrics, Due(control))
    BY <1>1 DEF DeceivedIsBehind
  <2>2. ~BaselineShown => Behind(metrics, Due(control))
    BY <1>1, <1>7 DEF BaselinesTell, Behind, ControlShape
  <2> QED
    BY <1>1, <1>3, <1>5, <1>7, <1>8, <2>1, <2>2 DEF DeceivedIsBehind, AllPreserved
<1>13. PromotedWasSound'
  BY <1>1, <1>3 DEF CountsAreDue, PromotedWasSound, Promoted
<1> QED
  BY <1>9, <1>10, <1>11, <1>12, <1>13

LEMMA SecondRepeatInv ==
  ASSUME ControlInv, SecondRepeat
  PROVE  ControlInv'
<1> USE DEF ControlInv
<1>1. control.pc = "second" /\ Executing /\ InCell
  BY DEF SecondRepeat, Executing, InCell
<1>2. PICK r \in Reports(Seed.instance, Mutated(Program, Operator)) :
        LET repeatable == View(r) = control.first
            local      == IsLocal(Seed, Operator, control.by)
            passed     == control.baselinePass /\ local /\ control.pass /\ RunPasses(r) /\ repeatable
            Count(c)   == IF c THEN 1 ELSE 0
        IN
        /\ control' = AfterCell
        /\ metrics' =
             [metrics EXCEPT
                !.positive = @ + Count(passed /\ Operator \in Positives),
                !.negative = @ + Count(passed /\ Operator \in Negatives),
                !.localized = @ + Count(passed /\ Operator \in Localizing),
                !.discriminator = @ + Count(passed /\ Operator = "P_DISCRIMINATOR_COLLAPSE"),
                !.repeatable = @ + Count(repeatable),
                !.local = @ + Count(local)]
        /\ Note(r, Mutated(Program, Operator))
  BY DEF SecondRepeat
<1> DEFINE repeatable == View(r) = control.first
           local  == IsLocal(Seed, Operator, control.by)
           passed == control.baselinePass /\ local /\ control.pass /\ RunPasses(r) /\ repeatable
           n == AfterCell
<1>3. /\ frozen' = frozen /\ plan' = plan /\ detector' = detector /\ result' = result
  BY DEF SecondRepeat, Surroundings
<1>4. /\ control' = n
      /\ metrics'.baseline = metrics.baseline
      /\ metrics'.positive = metrics.positive + (IF passed /\ Operator \in Positives THEN 1 ELSE 0)
      /\ metrics'.negative = metrics.negative + (IF passed /\ Operator \in Negatives THEN 1 ELSE 0)
      /\ metrics'.localized = metrics.localized + (IF passed /\ Operator \in Localizing THEN 1 ELSE 0)
      /\ metrics'.discriminator =
           metrics.discriminator + (IF passed /\ Operator = "P_DISCRIMINATOR_COLLAPSE" THEN 1 ELSE 0)
      /\ metrics'.repeatable = metrics.repeatable + (IF repeatable THEN 1 ELSE 0)
      /\ metrics'.local = metrics.local + (IF local THEN 1 ELSE 0)
      /\ metrics' = [baseline |-> metrics'.baseline, positive |-> metrics'.positive,
                     negative |-> metrics'.negative, localized |-> metrics'.localized,
                     discriminator |-> metrics'.discriminator,
                     repeatable |-> metrics'.repeatable, local |-> metrics'.local]
  BY <1>2 DEF ControlShape, Counts
<1>5. Len(frozen.seeds) = 2
  BY <1>1 DEF CountsAreDue
<1>6. /\ Operator \in Positives \/ Operator \in Negatives
      /\ ~(Operator \in Positives /\ Operator \in Negatives)
  BY <1>1, OperatorOfPlace DEF ControlShape
<1>7. Due(control) \in Counts /\ metrics \in Counts
  BY <1>1, <1>5, DueGrows DEF ControlShape
<1>8. /\ Due(n).baseline = Due(control).baseline
      /\ Due(n).positive = Due(control).positive + (IF Operator \in Positives THEN 1 ELSE 0)
      /\ Due(n).negative = Due(control).negative + (IF Operator \in Negatives THEN 1 ELSE 0)
      /\ Due(n).localized = Due(control).localized + (IF Operator \in Localizing THEN 1 ELSE 0)
      /\ Due(n).discriminator =
           Due(control).discriminator + (IF Operator = "P_DISCRIMINATOR_COLLAPSE" THEN 1 ELSE 0)
      /\ Due(n).repeatable = Due(control).repeatable + 1 /\ Due(n).local = Due(control).local + 1
  BY <1>1, <1>5, DueGrows
<1>9. NotAbove(Due(n), FullScore)
  <2>1. n.seed \in {1, 2} /\ n.op \in 1 .. 6 /\ n.pc \in {"first", "seed", "score"}
    BY <1>1, <1>5, NextCell DEF ControlShape
  <2> HIDE DEF n
  <2> QED
    BY <2>1 DEF Due, Finished, NotAbove, FullScore
<1>10. n = [pc |-> n.pc, by |-> control.by, seed |-> n.seed, op |-> n.op, first |-> n.first,
            base |-> control.base, baselinePass |-> control.baselinePass, pass |-> control.pass]
       /\ n.by = control.by /\ n.base = control.base
       /\ n.baselinePass = control.baselinePass /\ n.pass = control.pass
       /\ n.pc \in {"first", "seed", "score"} /\ n.seed \in {1, 2} /\ n.op \in 1 .. 6
       /\ (n.pc = "first" => n.seed = control.seed)
  BY <1>1, <1>5, NextCell DEF ControlShape
<1>11. deceived' \in BOOLEAN /\ (AllPreserved /\ deceived' => deceived \/ ~(passed /\ BaselineShown))
  BY <1>1, <1>2, <1>5, NoteOfCell, PassingCellTells
<1>12. passed \in BOOLEAN /\ local \in BOOLEAN
  BY DEF ControlShape, IsLocal
<1> HIDE DEF n, passed, local, repeatable
<1>13. NotAbove(metrics', Due(n)) /\ metrics' \in Counts
  <2>1. NotAbove(metrics, Due(control))
    BY <1>1 DEF CountsAreDue
  <2> QED
    BY <1>4, <1>7, <1>8, <2>1 DEF NotAbove, Counts
<1>14. ControlShape'
  BY <1>1, <1>3, <1>4, <1>10, <1>11, <1>13 DEF ControlShape, Executing, InCell
<1>15. CountsAreDue'
  <2>1. Due(n) \in Counts
    BY <1>7, <1>8, <1>10 DEF Due, Counts
  <2>2. NotAbove(metrics, FullScore)'
    BY <1>4, <1>9, <1>13, <2>1 DEF NotAbove, FullScore, Counts
  <2>3. control.by = "plain" => metrics'.positive = 0
    <3>1. ASSUME control.by = "plain", Operator \in Positives PROVE ~passed
      BY <3>1 DEF passed, local, IsLocal, DiffPaths, Surface, Positives
    <3>2. control.by = "plain" => metrics.positive = 0
      BY <1>1 DEF CountsAreDue
    <3> QED
      BY <1>4, <3>1, <3>2
  <2> QED
    BY <1>1, <1>3, <1>4, <1>5, <1>10, <1>13, <2>2, <2>3 DEF CountsAreDue
<1>16. BaselinesTell'
  <2>1. control'.pc # "base2"
    BY <1>4, <1>10
  <2>2. CASE ~InCell'
    BY <2>1, <2>2 DEF BaselinesTell
  <2>3. CASE InCell'
    <3>1. n.pc = "first" /\ n.seed = control.seed
      BY <1>4, <1>10, <2>3 DEF InCell
    <3>2. Seed' = Seed /\ Program' = Program
      BY <1>3, <1>4, <3>1 DEF Seed, Program
    <3> QED
      BY <1>1, <1>4, <1>10, <2>1, <3>1, <3>2 DEF BaselinesTell, BaselineShown
  <2> QED
    BY <2>2, <2>3
<1>17. DeceivedIsBehind'
  <2>1. CASE ~passed
    <3>1. Behind(metrics', Due(n))
      BY <1>1, <1>4, <1>6, <1>7, <1>8, <2>1 DEF Behind, CountsAreDue, NotAbove, Counts
    <3> QED
      BY <1>4, <3>1 DEF DeceivedIsBehind
  <2>2. CASE passed
    <3>1. control.pass /\ BaselineShown
      BY <1>1, <2>2 DEF passed, BaselinesTell
    <3>2. AllPreserved' /\ deceived' => Behind(metrics, Due(control))
      BY <1>1, <1>3, <1>11, <2>2, <3>1 DEF DeceivedIsBehind, AllPreserved
    <3>3. Behind(metrics, Due(control)) => Behind(metrics', Due(n))
      BY <1>4, <1>7, <1>8, <2>2 DEF Behind, Counts
    <3> QED
      BY <1>4, <3>2, <3>3 DEF DeceivedIsBehind
  <2> QED
    BY <2>1, <2>2
<1>18. PromotedWasSound'
  BY <1>1, <1>3 DEF CountsAreDue, PromotedWasSound, Promoted
<1> QED
  BY <1>14, <1>15, <1>16, <1>17, <1>18

----------------------------------------------------------------------------
(* The other steps. *)

\* A full score is behind nothing.
LEMMA FullScoreIsEarned ==
  ASSUME ControlInv, control.pc = "score", metrics = FullScore
  PROVE  (AllPreserved => ~deceived) /\ control.by = "corrected"
<1>1. Executing /\ Due(control) = FullScore
  BY DEF Executing, Due, Finished, FullScore
<1>2. ~Behind(metrics, Due(control))
  BY <1>1 DEF Behind, FullScore
<1>3. metrics.positive # 0
  BY DEF FullScore
<1> QED
  BY <1>1, <1>2, <1>3 DEF ControlInv, DeceivedIsBehind, CountsAreDue, ControlShape, Executors

LEMMA ControlInitInv == ControlInit => ControlInv
<1> SUFFICES ASSUME ControlInit PROVE ControlInv
  OBVIOUS
<1>1. ~Executing /\ ~InCell
  BY DEF ControlInit, AtRest, Executing, InCell
<1>2. ControlShape
  <2>1. control = AtRest /\ metrics = NoMetrics /\ result = None /\ deceived = FALSE
    BY DEF ControlInit
  <2>2. metrics \in Counts
    BY <2>1 DEF NoMetrics, Counts
  <2>3. /\ control = [pc |-> control.pc, by |-> control.by, seed |-> control.seed, op |-> control.op,
                      first |-> control.first, base |-> control.base,
                      baselinePass |-> control.baselinePass, pass |-> control.pass]
        /\ control.pc = "rest" /\ control.by \in Executors /\ control.seed = 1 /\ control.op = 0
        /\ control.baselinePass = FALSE /\ control.pass = FALSE
    BY <2>1 DEF AtRest, Executors
  <2>4. /\ control.op \in 0 .. 6 /\ control.seed \in {1, 2}
        /\ control.baselinePass \in BOOLEAN /\ control.pass \in BOOLEAN /\ deceived \in BOOLEAN
        /\ control.pc \notin {"base1", "base2"}
    <3>1. control.op \in 0 .. 6 /\ control.seed \in {1, 2}
      BY <2>3
    <3>2. control.baselinePass \in BOOLEAN /\ control.pass \in BOOLEAN /\ deceived \in BOOLEAN
      BY <2>1, <2>3
    <3> QED
      BY <2>3, <3>1, <3>2
  <2>5. frozen \in Plans /\ plan \in Plans /\ detector \in Detectors
    BY DEF ControlInit
  <2> QED
    BY <1>1, <2>1, <2>2, <2>3, <2>4, <2>5 DEF ControlShape
<1>3. CountsAreDue /\ BaselinesTell /\ DeceivedIsBehind
  BY <1>1 DEF ControlInit, CountsAreDue, BaselinesTell, DeceivedIsBehind, NotAbove, NoMetrics,
     FullScore, AtRest
<1>4. PromotedWasSound
  BY DEF ControlInit, PromotedWasSound, Promoted
<1> QED
  BY <1>2, <1>3, <1>4 DEF ControlInv

LEMMA ControlStepInv ==
  ASSUME ControlInv, [ControlNext]_controlVars
  PROVE  ControlInv'
<1> USE DEF ControlInv
<1>1. CASE EditPlan \/ Start
  <2>1. /\ frozen' = frozen /\ plan' \in Plans /\ detector' = detector
        /\ metrics' = metrics /\ result' = result /\ deceived' = deceived
        /\ control.pc = "rest"
    BY <1>1 DEF EditPlan, Start, Surroundings, ControlShape
  <2>2. control' = control \/ \E by \in Executors : control' = [AtRest EXCEPT !.pc = "freeze", !.by = by]
    BY <1>1 DEF EditPlan, Start
  <2>6. /\ control' = [pc |-> control'.pc, by |-> control'.by, seed |-> control'.seed,
                      op |-> control'.op, first |-> control'.first, base |-> control'.base,
                      baselinePass |-> control'.baselinePass, pass |-> control'.pass]
        /\ control'.pc \in {"rest", "freeze"} /\ control'.by \in Executors
        /\ control'.seed = 1 /\ control'.op \in 0 .. 6
        /\ control'.baselinePass \in BOOLEAN /\ control'.pass \in BOOLEAN
    <3>1. CASE control' = control
      BY <2>1, <3>1 DEF ControlShape, Executing
    <3>2. CASE \E by \in Executors : control' = [AtRest EXCEPT !.pc = "freeze", !.by = by]
      <4>1. PICK by \in Executors : control' = [AtRest EXCEPT !.pc = "freeze", !.by = by]
        BY <3>2
      <4>2. control' = [pc |-> "freeze", by |-> by, seed |-> 1, op |-> 0, first |-> None,
                        base |-> None, baselinePass |-> FALSE, pass |-> FALSE]
        BY <4>1 DEF AtRest
      <4> QED
        BY <4>2
    <3> QED
      BY <2>2, <3>1, <3>2
  <2>3. ControlShape' /\ ~Executing' /\ ~InCell'
    BY <2>1, <2>6 DEF ControlShape, Executing, InCell
  <2>4. control'.pc \in {"rest", "freeze"}
    BY <2>3 DEF Executing
  <2>5. CountsAreDue' /\ BaselinesTell' /\ DeceivedIsBehind' /\ PromotedWasSound'
    BY <2>1, <2>3, <2>4
       DEF CountsAreDue, BaselinesTell, DeceivedIsBehind, PromotedWasSound, Promoted, AllPreserved
  <2> QED
    BY <2>3, <2>5
<1>2. CASE VerifyFreeze
  <2>1. /\ frozen' = frozen /\ plan' = plan /\ detector' = detector
        /\ metrics' = NoMetrics /\ result' = None /\ deceived' = FALSE
        /\ control.pc = "freeze" /\ control' = [control EXCEPT !.pc = "seed"]
        /\ Len(frozen.seeds) = 2 /\ control.seed = 1
    BY <1>2 DEF VerifyFreeze, Surroundings, ControlShape, Executing
  <2>2. control' = [pc |-> "seed", by |-> control.by, seed |-> 1, op |-> control.op,
                    first |-> control.first, base |-> control.base,
                    baselinePass |-> control.baselinePass, pass |-> control.pass]
    BY <2>1 DEF ControlShape
  <2>3. NoMetrics \in Counts /\ NotAbove(NoMetrics, FullScore)
    BY DEF NoMetrics, Counts, NotAbove, FullScore
  <2>4. ControlShape'
    BY <2>1, <2>2, <2>3 DEF ControlShape, Executing, InCell
  <2>5. NotAbove(metrics, Due(control))'
    BY <2>1, <2>2 DEF NoMetrics, Due, Finished, NotAbove
  <2>6. CountsAreDue'
    BY <2>1, <2>3, <2>5 DEF CountsAreDue, NoMetrics
  <2>7. BaselinesTell' /\ DeceivedIsBehind' /\ PromotedWasSound'
    BY <2>1, <2>2 DEF BaselinesTell, InCell, DeceivedIsBehind, PromotedWasSound, Promoted
  <2> QED
    BY <2>4, <2>6, <2>7
<1>3. CASE CompileSeed
  <2>1. /\ frozen' = frozen /\ plan' = plan /\ detector' = detector
        /\ metrics' = metrics /\ result' = result /\ deceived' = deceived
        /\ control.pc = "seed"
        /\ control' = [control EXCEPT !.pc = "base1", !.op = 0, !.first = None, !.base = None]
    BY <1>3 DEF CompileSeed, Surroundings
  <2>2. control' = [pc |-> "base1", by |-> control.by, seed |-> control.seed, op |-> 0,
                    first |-> None, base |-> None,
                    baselinePass |-> control.baselinePass, pass |-> control.pass]
    BY <2>1 DEF ControlShape
  <2>3. Due(control)' = Due(control)
    BY <2>1, <2>2 DEF Due, Finished
  <2>6. Executing /\ Executing' /\ ~InCell'
    BY <2>1, <2>2 DEF Executing, InCell
  <2>8. control'.op \in 0 .. 6 /\ control'.op = 0
    BY <2>2
  <2>9. /\ control' = [pc |-> control'.pc, by |-> control'.by, seed |-> control'.seed,
                      op |-> control'.op, first |-> control'.first, base |-> control'.base,
                      baselinePass |-> control'.baselinePass, pass |-> control'.pass]
        /\ control'.pc = "base1" /\ control'.by \in Executors /\ control'.seed \in {1, 2}
        /\ control'.baselinePass \in BOOLEAN /\ control'.pass \in BOOLEAN
    BY <2>2 DEF ControlShape
  <2>7. ControlShape'
    BY <2>1, <2>6, <2>8, <2>9 DEF ControlShape
  <2>4. ControlShape' /\ CountsAreDue'
    BY <2>1, <2>2, <2>3, <2>6, <2>7 DEF CountsAreDue
  <2>5. BaselinesTell' /\ DeceivedIsBehind' /\ PromotedWasSound'
    BY <2>1, <2>2, <2>3
       DEF BaselinesTell, InCell, Executing, DeceivedIsBehind, PromotedWasSound, Promoted,
           AllPreserved
  <2> QED
    BY <2>4, <2>5
<1>4. CASE WriteResult \/ InvalidExecution \/ Killed
  <2>1. /\ frozen' = frozen /\ plan' = plan /\ detector' = detector
        /\ metrics' = NoMetrics /\ deceived' = deceived /\ control' = AtRest
    BY <1>4 DEF WriteResult, InvalidExecution, Killed, Surroundings
  <2>2. \/ control.pc = "score" /\ (result' = Outcome \/ result' = Annotated(Outcome))
        \/ result' = result \/ result' = Annotated(result)
    BY <1>4 DEF WriteResult, InvalidExecution, Killed
  <2> DEFINE Results == [status : {"PROMOTED", "NOT_PROMOTED"}, by : Executors, annotated : BOOLEAN]
  <2>3. \A x \in Results : Annotated(x) \in Results
                           /\ Annotated(x).status = x.status /\ Annotated(x).by = x.by
    BY DEF Annotated
  <2>4. Outcome \in Results
        /\ (control.pc = "score" /\ Outcome.status = "PROMOTED" =>
              (AllPreserved => ~deceived) /\ Outcome.by = "corrected")
    BY FullScoreIsEarned DEF Outcome, ControlShape
  <2>5. Annotated(None) = None
    BY DEF Annotated
  <2>6. PromotedWasSound' /\ result' \in {None} \cup Results
    <3>1. result = None \/ (result \in Results /\ (result.status = "PROMOTED" =>
                                                     (AllPreserved => ~deceived) /\ result.by = "corrected"))
      BY DEF ControlShape, PromotedWasSound, Promoted
    <3>2. AllPreserved' <=> AllPreserved
      BY <2>1 DEF AllPreserved
    <3> HIDE DEF Results
    <3> QED
      BY <2>1, <2>2, <2>3, <2>4, <2>5, <3>1, <3>2 DEF PromotedWasSound, Promoted
  <2>7. ControlShape' /\ ~Executing' /\ ~InCell'
    BY <2>1, <2>6 DEF AtRest, NoMetrics, Counts, ControlShape, Executing, InCell, Executors
  <2>8. CountsAreDue' /\ BaselinesTell' /\ DeceivedIsBehind'
    BY <2>1, <2>7 DEF CountsAreDue, BaselinesTell, DeceivedIsBehind, AtRest, NoMetrics,
       NotAbove, FullScore
  <2> QED
    BY <2>6, <2>7, <2>8
<1>5. CASE UNCHANGED controlVars
  <2>1. ControlShape' /\ CountsAreDue' /\ PromotedWasSound'
    BY <1>5 DEF controlVars, ControlShape, CountsAreDue, Executing, InCell, PromotedWasSound,
       Promoted, AllPreserved
  <2>2. BaselinesTell' /\ DeceivedIsBehind'
    BY <1>5 DEF controlVars, BaselinesTell, DeceivedIsBehind, Executing, InCell, BaselineShown,
       AllPreserved
  <2> QED
    BY <2>1, <2>2
<1> QED
  BY <1>1, <1>2, <1>3, <1>4, <1>5, FirstBaselineInv, SecondBaselineInv, FirstRepeatInv,
     SecondRepeatInv DEF ControlNext

----------------------------------------------------------------------------
(* A sound detector on fit seeds. *)

LEMMA FitLossPasses ==
  ASSUME NEW seed \in Seeds, FitSeed(seed), NEW op \in Localizing,
         NEW r \in SoundReports(seed.instance, Mutated(ProgramOf[seed.instance.pattern], op))
  PROVE  PositivePasses(seed, op, r)
<1> DEFINE inst    == seed.instance
           program == Mutated(ProgramOf[inst.pattern], op)
           stale   == {w \in WorldsOf(inst) : w.current = seed.staleAt}
<1>1. /\ inst \in Instances /\ inst.pattern = "PRESERVED_COMPARE" /\ PreservedSeed(seed)
      /\ inst.anchor # seed.staleAt /\ inst.domain = {inst.anchor, seed.staleAt}
  BY DEF Seeds, FitSeed, PreservedSeed
<1>2. stale # {}
  BY <1>1 DEF PreservedSeed
<1>3. Mismatches(inst, program) = stale
  <2>1. \A w \in WorldsOf(inst) : w.current \in {inst.anchor, seed.staleAt}
    BY <1>1 DEF WorldsOf
  <2> QED
    BY <1>1, <2>1, LossIsMismatch
<1>4. /\ r.status = "REGRESSION" /\ ~r.exact /\ r.witness \in stale
      /\ r.effects = [u \in WorldsOf(inst) |-> EffectOf(inst, program, u)]
  BY <1>2, <1>3, SoundReportIs
<1>5. \A u \in stale : Contradicts(inst, r, u)
  BY <1>3, <1>4 DEF Contradicts, Mismatches
<1>6. (CHOOSE first \in stale : TRUE) \in stale
  BY <1>2
<1>7. op # "P_DISCRIMINATOR_COLLAPSE"
  BY DEF Localizing
<1> HIDE DEF inst, program
<1>8. /\ r.status = "REGRESSION" /\ ~r.exact
      /\ r.witness \in stale /\ Contradicts(inst, r, r.witness)
      /\ Contradicts(inst, r, CHOOSE first \in stale : TRUE)
  BY <1>4, <1>5, <1>6
<1> QED
  BY <1>7, <1>8 DEF PositivePasses, inst

LEMMA FitCollapsePasses ==
  ASSUME NEW seed \in Seeds, FitSeed(seed), NEW op, op = "P_DISCRIMINATOR_COLLAPSE",
         NEW r \in SoundReports(seed.instance, Mutated(ProgramOf[seed.instance.pattern], op))
  PROVE  PositivePasses(seed, op, r)
<1> DEFINE inst    == seed.instance
           program == Mutated(ProgramOf[inst.pattern], op)
<1>1. program.discriminator = "literal"
  BY DEF Mutated, ProgramOf, FitSeed, PreservedSeed
<1> HIDE DEF program
<1>2. ~Discriminates(inst, program)
  BY <1>1, CollapseIsSeen DEF FitSeed
<1>3. r \in SoundReports(inst, program)
  BY DEF program
<1> HIDE DEF inst
<1>4. ~r.d /\ r.status \in {"INCOMPLETE", "REGRESSION"}
  BY <1>2, <1>3, SoundReportIs
<1> QED
  BY <1>4 DEF PositivePasses

LEMMA FitSeedOfPlace ==
  ASSUME ControlShape, Len(frozen.seeds) = 2, AllFit
  PROVE  /\ Seed \in Seeds /\ FitSeed(Seed) /\ PreservedSeed(Seed)
         /\ Program = ProgramOf[Seed.instance.pattern]
BY SeedOfPlace DEF AllFit, Seed, FitSeed, Program

LEMMA CompiledViewIs ==
  ASSUME NEW inst, NEW r \in SoundReports(inst, ProgramOf[inst.pattern])
  PROVE  View(r) = CompiledView(inst)
<1>1. (CHOOSE q \in SoundReports(inst, ProgramOf[inst.pattern]) : TRUE)
        \in SoundReports(inst, ProgramOf[inst.pattern])
  OBVIOUS
<1> QED
  BY <1>1, SoundViewsAgree DEF CompiledView

LEMMA FitCellPasses ==
  ASSUME ControlShape, Len(frozen.seeds) = 2, InCell, AllFit, detector = {},
         control.base = CompiledView(Seed.instance),
         NEW r \in Reports(Seed.instance, Mutated(Program, Operator))
  PROVE  /\ RunPasses(r) /\ IsLocal(Seed, Operator, "corrected")
         /\ r \in SoundReports(Seed.instance, Mutated(Program, Operator))
<1>1. Seed \in Seeds /\ FitSeed(Seed) /\ Program = ProgramOf[Seed.instance.pattern]
  BY FitSeedOfPlace
<1>2. r \in SoundReports(Seed.instance, Mutated(Program, Operator))
  BY SoundDetector
<1>3. Seed.display /\ Seed.edgesReversible /\ Seed.factsReversible
  BY <1>1 DEF FitSeed
<1>4. IsLocal(Seed, Operator, "corrected")
  BY <1>3 DEF IsLocal, DiffPaths, Reversible
<1>5. CASE Operator \in Localizing
  BY <1>1, <1>2, <1>4, <1>5, FitLossPasses DEF RunPasses, Localizing, Positives
<1>6. CASE Operator = "P_DISCRIMINATOR_COLLAPSE"
  BY <1>1, <1>2, <1>4, <1>6, FitCollapsePasses DEF RunPasses, Positives
<1>7. CASE Operator \in Negatives
  <2>1. Mutated(Program, Operator) = Program /\ Operator \notin Positives
    BY <1>7 DEF Mutated, Negatives, Positives
  <2>2. View(r) = control.base
    BY <1>1, <1>2, <2>1, CompiledViewIs
  <2> QED
    BY <1>2, <1>4, <2>1, <2>2 DEF RunPasses, NegativePasses
<1> QED
  BY <1>5, <1>6, <1>7, OperatorOfPlace DEF ControlShape

LEMMA FitBaselinePasses ==
  ASSUME ControlShape, Len(frozen.seeds) = 2, AllFit, detector = {},
         NEW r \in Reports(Seed.instance, Program)
  PROVE  BaselinePasses(r) /\ View(r) = CompiledView(Seed.instance)
<1>1. /\ Seed \in Seeds /\ PreservedSeed(Seed) /\ Program = ProgramOf[Seed.instance.pattern]
  BY FitSeedOfPlace
<1>2. r \in SoundReports(Seed.instance, Program)
  BY SoundDetector
<1> QED
  BY <1>1, <1>2, CompiledViewIs, SoundIsPreserved DEF BaselinePasses, ShowsPreserved

\* On the way to the score: every step keeps a faultless execution faultless.
LEMMA NothingMissedStep ==
  ASSUME ControlInv, NothingIsMissed, [ControlNext]_controlVars
  PROVE  NothingIsMissed'
<1> SUFFICES ASSUME detector' = {}, AllFit', Executing', control'.by = "corrected"
             PROVE  /\ metrics' = Due(control)'
                    /\ control'.pc \in {"base2", "second"} => control'.pass
                    /\ control'.pc \in {"base2", "first", "second"} =>
                         control'.base = CompiledView(Seed.instance)'
                    /\ control'.pc = "second" =>
                         \A r \in SoundReports(Seed.instance, Mutated(Program, Operator))' :
                           View(r) = control'.first
  BY DEF NothingIsMissed
<1>1. frozen' = frozen /\ detector' = detector
  BY DEF ControlNext, controlVars, Surroundings, EditPlan, Start, VerifyFreeze, CompileSeed,
     FirstBaseline, SecondBaseline, FirstRepeat, SecondRepeat, WriteResult, InvalidExecution, Killed
<1>2. AllFit /\ detector = {}
  BY <1>1 DEF AllFit
<1>3. ASSUME Executing, control.by = "corrected"
      PROVE  /\ metrics = Due(control) /\ Len(frozen.seeds) = 2
             /\ control.pc \in {"base2", "second"} => control.pass
             /\ control.pc \in {"base2", "first", "second"} =>
                  control.base = CompiledView(Seed.instance)
             /\ control.pc = "second" =>
                  \A r \in SoundReports(Seed.instance, Mutated(Program, Operator)) :
                    View(r) = control.first
  BY <1>2, <1>3 DEF NothingIsMissed, ControlInv, CountsAreDue
<1>4. ControlShape /\ BaselinesTell
  BY DEF ControlInv
<1>5. ASSUME control.pc \in {"base1", "base2", "first", "second"}
      PROVE  Executing
  BY <1>5 DEF Executing
<1>6. CASE EditPlan \/ Start \/ WriteResult \/ InvalidExecution \/ Killed
  <2>1. \/ control' = control /\ control.pc = "rest"
        \/ \E by \in Executors : control' = [AtRest EXCEPT !.pc = "freeze", !.by = by]
        \/ control' = AtRest
    BY <1>6 DEF EditPlan, Start, WriteResult, InvalidExecution, Killed
  <2>2. control'.pc \in {"rest", "freeze"}
    <3>1. CASE control' = control /\ control.pc = "rest"
      BY <3>1
    <3>2. CASE \E by \in Executors : control' = [AtRest EXCEPT !.pc = "freeze", !.by = by]
      BY <3>2 DEF AtRest
    <3>3. CASE control' = AtRest
      BY <3>3 DEF AtRest
    <3> QED
      BY <2>1, <3>1, <3>2, <3>3
  <2> QED
    BY <2>2 DEF Executing
<1>7. CASE VerifyFreeze
  <2>1. metrics' = NoMetrics /\ control.pc = "freeze" /\ control' = [control EXCEPT !.pc = "seed"]
    BY <1>7 DEF VerifyFreeze
  <2>2. control'.pc = "seed" /\ control'.seed = 1
    BY <1>4, <2>1 DEF ControlShape, Executing
  <2>3. Due(control)' = NoMetrics
    BY <2>2 DEF Due, Finished, NoMetrics
  <2> QED
    BY <2>1, <2>2, <2>3
<1>8. CASE CompileSeed
  <2>1. metrics' = metrics /\ control.pc = "seed"
        /\ control' = [control EXCEPT !.pc = "base1", !.op = 0, !.first = None, !.base = None]
    BY <1>8 DEF CompileSeed
  <2>2. control'.pc = "base1" /\ control'.seed = control.seed /\ control'.by = control.by
    BY <1>4, <2>1 DEF ControlShape
  <2>3. Due(control)' = Due(control)
    BY <2>1, <2>2 DEF Due, Finished
  <2> QED
    BY <1>3, <2>1, <2>2, <2>3 DEF Executing
<1>9. CASE FirstBaseline
  <2>1. PICK r \in Reports(Seed.instance, Program) :
          /\ control' = [control EXCEPT !.pc = "base2", !.base = View(r), !.pass = BaselinePasses(r)]
          /\ metrics' = metrics /\ control.pc = "base1"
    BY <1>9 DEF FirstBaseline
  <2>2. /\ control'.pc = "base2" /\ control'.seed = control.seed /\ control'.by = control.by
        /\ control'.pass = BaselinePasses(r) /\ control'.base = View(r)
    BY <1>4, <2>1 DEF ControlShape
  <2>3. metrics = Due(control) /\ Len(frozen.seeds) = 2
    BY <1>3, <1>5, <2>1, <2>2
  <2>4. BaselinePasses(r) /\ View(r) = CompiledView(Seed.instance)
    BY <1>2, <1>4, <2>3, FitBaselinePasses
  <2>5. Due(control)' = Due(control)
    BY <2>1, <2>2 DEF Due, Finished
  <2>6. CompiledView(Seed.instance)' = CompiledView(Seed.instance)
    BY <1>1, <2>2 DEF Seed
  <2> QED
    BY <2>1, <2>2, <2>3, <2>4, <2>5, <2>6
<1>10. CASE SecondBaseline
  <2>1. PICK r \in Reports(Seed.instance, Program) :
          LET passed == control.pass /\ BaselinePasses(r) /\ View(r) = control.base IN
          /\ control' = [control EXCEPT !.pc = "first", !.op = 1, !.baselinePass = passed]
          /\ metrics' = [metrics EXCEPT !.baseline = @ + (IF passed THEN 1 ELSE 0)]
          /\ control.pc = "base2"
    BY <1>10 DEF SecondBaseline
  <2>2. /\ control'.pc = "first" /\ control'.seed = control.seed /\ control'.by = control.by
        /\ control'.op = 1
    BY <1>4, <2>1 DEF ControlShape
  <2>3. metrics = Due(control) /\ Len(frozen.seeds) = 2 /\ control.pass
    BY <1>3, <1>5, <2>1, <2>2
  <2>4. BaselinePasses(r) /\ View(r) = control.base
    BY <1>2, <1>3, <1>4, <1>5, <2>1, <2>2, <2>3, FitBaselinePasses
  <2>6. metrics' = [metrics EXCEPT !.baseline = @ + 1]
    BY <2>1, <2>3, <2>4
  <2>7. Due(control).baseline = control.seed - 1 /\ control.seed \in {1, 2}
        /\ Due(control)' = [Due(control) EXCEPT !.baseline = control.seed]
    BY <1>4, <2>1, <2>2 DEF Due, Finished, ControlShape
  <2>8. (control.seed - 1) + 1 = control.seed
    BY <2>7
  <2>9. metrics' = [Due(control) EXCEPT !.baseline = control.seed]
    BY <2>3, <2>6, <2>7, <2>8
  <2>10. control'.base = CompiledView(Seed.instance)'
    <3>1. Seed' = Seed /\ control'.base = control.base
      BY <1>1, <1>4, <2>1, <2>2 DEF Seed, ControlShape
    <3>2. control.base = CompiledView(Seed.instance)
      BY <1>3, <1>5, <2>1, <2>2
    <3> QED
      BY <3>1, <3>2 DEF CompiledView
  <2> QED
    BY <2>2, <2>7, <2>9, <2>10
<1>11. CASE FirstRepeat
  <2>1. PICK r \in Reports(Seed.instance, Mutated(Program, Operator)) :
          /\ control' = [control EXCEPT !.pc = "second", !.first = View(r), !.pass = RunPasses(r)]
          /\ metrics' = metrics /\ control.pc = "first"
    BY <1>11 DEF FirstRepeat
  <2>2. /\ control'.pc = "second" /\ control'.seed = control.seed /\ control'.by = control.by
        /\ control'.op = control.op /\ control'.first = View(r) /\ control'.pass = RunPasses(r)
    BY <1>4, <2>1 DEF ControlShape
  <2>3. metrics = Due(control) /\ Len(frozen.seeds) = 2
    BY <1>3, <1>5, <2>1, <2>2
  <2>4. InCell /\ control.base = CompiledView(Seed.instance)
    BY <1>3, <1>5, <2>1, <2>2 DEF InCell
  <2>5. RunPasses(r) /\ r \in SoundReports(Seed.instance, Mutated(Program, Operator))
    BY <1>2, <1>4, <2>3, <2>4, FitCellPasses
  <2>6. Due(control)' = Due(control)
    BY <2>1, <2>2 DEF Due, Finished
  <2>7. Seed' = Seed /\ Program' = Program /\ Operator' = Operator
    BY <1>1, <2>2 DEF Seed, Program, Operator
  <2>8. \A q \in SoundReports(Seed.instance, Mutated(Program, Operator)) : View(q) = View(r)
    BY <2>5, SoundViewsAgree
  <2>9. SoundReports(Seed.instance, Mutated(Program, Operator))' =
          SoundReports(Seed.instance, Mutated(Program, Operator))
    BY <2>7
  <2>10. control'.base = CompiledView(Seed.instance)'
    <3>1. control'.base = control.base
      BY <1>4, <2>1 DEF ControlShape
    <3> QED
      BY <2>4, <2>7, <3>1 DEF CompiledView
  <2> QED
    BY <2>1, <2>2, <2>3, <2>5, <2>6, <2>8, <2>9, <2>10
<1>12. CASE SecondRepeat
  <2>1. PICK r \in Reports(Seed.instance, Mutated(Program, Operator)) :
          LET repeatable == View(r) = control.first
              local      == IsLocal(Seed, Operator, control.by)
              passed     == control.baselinePass /\ local /\ control.pass /\ RunPasses(r) /\ repeatable
              Count(c)   == IF c THEN 1 ELSE 0
          IN
          /\ control' = AfterCell
          /\ metrics' =
               [metrics EXCEPT
                  !.positive = @ + Count(passed /\ Operator \in Positives),
                  !.negative = @ + Count(passed /\ Operator \in Negatives),
                  !.localized = @ + Count(passed /\ Operator \in Localizing),
                  !.discriminator = @ + Count(passed /\ Operator = "P_DISCRIMINATOR_COLLAPSE"),
                  !.repeatable = @ + Count(repeatable),
                  !.local = @ + Count(local)]
          /\ control.pc = "second"
    BY <1>12 DEF SecondRepeat
  <2>2. Len(frozen.seeds) = 2
    BY <1>5, <2>1 DEF ControlInv, CountsAreDue
  <2>3. control'.by = control.by /\ control'.pc \in {"first", "seed", "score"}
    BY <1>4, <2>1, <2>2, NextCell
  <2>4. /\ metrics = Due(control) /\ control.pass
        /\ \A q \in SoundReports(Seed.instance, Mutated(Program, Operator)) : View(q) = control.first
    BY <1>3, <1>5, <2>1, <2>3
  <2>5. InCell /\ control.baselinePass /\ control.base = CompiledView(Seed.instance)
    <3>1. InCell /\ Due(control).baseline = control.seed
      BY <2>1 DEF InCell, Due
    <3>2. metrics.baseline = control.seed /\ control.seed \in Nat
      BY <1>4, <2>4, <3>1 DEF ControlShape
    <3>3. ~(metrics.baseline < control.seed)
      BY <3>2
    <3>4. control.base = CompiledView(Seed.instance)
      BY <1>3, <1>5, <2>1, <2>3
    <3> QED
      BY <1>4, <3>1, <3>3, <3>4 DEF BaselinesTell, ControlShape
  <2>6. /\ RunPasses(r) /\ IsLocal(Seed, Operator, control.by)
        /\ r \in SoundReports(Seed.instance, Mutated(Program, Operator))
    BY <1>2, <1>4, <2>2, <2>3, <2>5, FitCellPasses
  <2>7. View(r) = control.first
    BY <2>4, <2>6
  <2>8. metrics' =
          [metrics EXCEPT
             !.positive = @ + (IF Operator \in Positives THEN 1 ELSE 0),
             !.negative = @ + (IF Operator \in Negatives THEN 1 ELSE 0),
             !.localized = @ + (IF Operator \in Localizing THEN 1 ELSE 0),
             !.discriminator = @ + (IF Operator = "P_DISCRIMINATOR_COLLAPSE" THEN 1 ELSE 0),
             !.repeatable = @ + 1, !.local = @ + 1]
    BY <2>1, <2>4, <2>5, <2>6, <2>7
  <2> DEFINE m == metrics
  <2>10. m \in Counts
    BY <1>4 DEF ControlShape
  <2>11. metrics' =
           [baseline |-> m.baseline,
            positive |-> m.positive + (IF Operator \in Positives THEN 1 ELSE 0),
            negative |-> m.negative + (IF Operator \in Negatives THEN 1 ELSE 0),
            localized |-> m.localized + (IF Operator \in Localizing THEN 1 ELSE 0),
            discriminator |->
              m.discriminator + (IF Operator = "P_DISCRIMINATOR_COLLAPSE" THEN 1 ELSE 0),
            repeatable |-> m.repeatable + 1, local |-> m.local + 1]
    BY <2>8, <2>10 DEF Counts
  <2>9. metrics' = Due(AfterCell)
    BY <1>4, <2>1, <2>2, <2>4, <2>11, DueGrows
  <2>12. control'.pc = "first" => control'.base = CompiledView(Seed.instance)'
    <3>1. control'.pc = "first" => control'.seed = control.seed /\ control'.base = control.base
      BY <1>4, <2>1, <2>2, NextCell
    <3>2. control'.pc = "first" => Seed' = Seed
      BY <1>1, <3>1 DEF Seed
    <3> QED
      BY <2>5, <3>1, <3>2 DEF CompiledView
  <2> QED
    BY <2>1, <2>3, <2>9, <2>12
<1>13. CASE UNCHANGED controlVars
  <2>1. control' = control /\ metrics' = metrics
    BY <1>13 DEF controlVars
  <2>2. Seed' = Seed /\ Program' = Program /\ Operator' = Operator /\ Executing
        /\ CompiledView(Seed.instance)' = CompiledView(Seed.instance)
    BY <1>1, <2>1 DEF Seed, Program, Operator, Executing, CompiledView
  <2>3. /\ Due(control)' = Due(control)
        /\ SoundReports(Seed.instance, Mutated(Program, Operator))' =
             SoundReports(Seed.instance, Mutated(Program, Operator))
    BY <2>1, <2>2 DEF Due, Finished
  <2> QED
    BY <1>3, <2>1, <2>2, <2>3
<1> QED
  BY <1>6, <1>7, <1>8, <1>9, <1>10, <1>11, <1>12, <1>13 DEF ControlNext

LEMMA SoundStep ==
  ASSUME ControlInv, SoundInv, [ControlNext]_controlVars
  PROVE  SoundInv'
<1>1. NothingIsMissed'
  BY NothingMissedStep DEF SoundInv
<1> SUFFICES ASSUME detector' = {}, result' # None, result'.by = "corrected", AllFit'
             PROVE  Promoted'
  BY <1>1 DEF SoundInv, SoundIsPromoted, AllFit
<1>2. frozen' = frozen /\ detector' = detector
  BY DEF ControlNext, controlVars, Surroundings, EditPlan, Start, VerifyFreeze, CompileSeed,
     FirstBaseline, SecondBaseline, FirstRepeat, SecondRepeat, WriteResult, InvalidExecution, Killed
<1>3. AllFit /\ detector = {}
  BY <1>2 DEF AllFit
<1>4. result # None /\ result.by = "corrected" => result.status = "PROMOTED"
  BY <1>3 DEF SoundInv, SoundIsPromoted, AllFit, Promoted
<1>5. \/ result' = None \/ result' = result \/ result' = Annotated(result)
      \/ control.pc = "score" /\ (result' = Outcome \/ result' = Annotated(Outcome))
  BY DEF ControlNext, controlVars, EditPlan, Start, VerifyFreeze, CompileSeed,
     FirstBaseline, SecondBaseline, FirstRepeat, SecondRepeat, WriteResult, InvalidExecution, Killed
<1> DEFINE Results == [status : {"PROMOTED", "NOT_PROMOTED"}, by : Executors, annotated : BOOLEAN]
<1>6. \A x \in Results : Annotated(x) \in Results
                         /\ Annotated(x).status = x.status /\ Annotated(x).by = x.by
  BY DEF Annotated
<1>7. Annotated(None) = None /\ (result = None \/ result \in Results)
  BY DEF Annotated, ControlInv, ControlShape
<1>8. /\ Outcome \in Results /\ Outcome.by = control.by
      /\ control.pc = "score" /\ Outcome.by = "corrected" => Outcome.status = "PROMOTED"
  <2>1. ASSUME control.pc = "score", control.by = "corrected" PROVE metrics = FullScore
    <3>1. metrics = Due(control)
      BY <1>3, <2>1 DEF SoundInv, NothingIsMissed, Executing
    <3> QED
      BY <2>1, <3>1 DEF Due, Finished, FullScore
  <2> QED
    BY <2>1 DEF Outcome, ControlInv, ControlShape
<1> HIDE DEF Results
<1> QED
  BY <1>4, <1>5, <1>6, <1>7, <1>8 DEF Promoted

----------------------------------------------------------------------------
(* Theorems. *)

THEOREM ControlInvariant == ControlSpec => []ControlInv
<1>1. ControlInv /\ [ControlNext]_controlVars => ControlInv'
  BY ControlStepInv
<1> QED
  BY ControlInitInv, <1>1, PTL DEF ControlSpec

\* The variables keep their types, and no metric exceeds its total
\* (unit002_mutation_control.py:382).
THEOREM ControlTypeCorrect == ControlSpec => []ControlTypeOK
<1>1. ControlInv => ControlTypeOK
  <2> SUFFICES ASSUME ControlInv PROVE ControlTypeOK
    OBVIOUS
  <2> USE DEF ControlInv
  <2>1. \A f \in DOMAIN metrics : metrics[f] \in 0 .. FullScore[f]
    BY DEF ControlShape, CountsAreDue, NotAbove, Counts, FullScore
  <2>2. control.pc \notin {"rest", "freeze", "score"} => control.seed \in DOMAIN frozen.seeds
    BY SeedOfPlace DEF Executing, CountsAreDue
  <2>3. control.pc \in {"first", "second"} => control.op \in DOMAIN Operators
    BY DEF ControlShape, InCell, Operators
  <2> QED
    BY <2>1, <2>2, <2>3 DEF ControlShape, ControlTypeOK
<1> QED
  BY ControlInvariant, <1>1, PTL

\* If the frozen seeds are preserved, a promoted detector, whatever it is, said in every
\* verification, in what the control scores, what a sound one says; and only the corrected
\* executor promotes (unit002_mutation_control.py:321-341, 382).
THEOREM PromotionsAreSound == ControlSpec => []PromotedWasSound
<1>1. ControlInv => PromotedWasSound
  BY DEF ControlInv
<1> QED
  BY ControlInvariant, <1>1, PTL

\* On fit seeds a sound detector that the corrected executor controls to the end is
\* promoted (unit002_mutation_control.py:382).
THEOREM SoundDetectorsArePromoted == ControlSpec => []SoundIsPromoted
<1>1. ControlInit => SoundInv
  BY DEF ControlInit, AtRest, SoundInv, NothingIsMissed, Executing, SoundIsPromoted
<1>2. ControlInv /\ SoundInv /\ [ControlNext]_controlVars => SoundInv'
  BY SoundStep
<1>3. SoundInv => SoundIsPromoted
  BY DEF SoundInv
<1> QED
  BY ControlInvariant, <1>1, <1>2, <1>3, PTL DEF ControlSpec

----------------------------------------------------------------------------
(* The mutation control and the two engines together, as MCEngines composes them. *)

\* A behaviour of the composition is a behaviour of the mutation control and of the E0
\* engine, so that what is proved of either holds there too.
THEOREM EnginesRunTheirParts == EnginesSpec => ControlSpec /\ E0Spec
<1>1. EnginesInit => ControlInit /\ E0Init
  BY DEF EnginesInit
<1>2. [EnginesNext]_<<controlVars, e0Vars, e1Vars, topic>> =>
        [ControlNext]_controlVars /\ [E0Next]_e0Vars
  BY DEF EnginesNext
<1> QED
  BY <1>1, <1>2, PTL DEF EnginesSpec, ControlSpec, E0Spec

\* The packet of an E1 engine at rest has no flows.
LEMMA EmptyPacketFlows == E1Rest => Flows(packet) = <<>>
<1> DEFINE none == [versions |-> {current}, assignments |-> <<>>, calls |-> <<>>,
                    comparisons |-> {{observed, current}}, branches |-> {}, overwrites |-> {},
                    mutates |-> TRUE, unparsed |-> TRUE]
<1>1. none \in MCPackets /\ none.unparsed
  BY DEF MCPackets
<1>2. \A p \in MCPackets : p.unparsed => p = none
  BY DEF MCPackets
<1>3. none.assignments = <<>> /\ none.calls = <<>>
  OBVIOUS
<1> HIDE DEF none
<1>4. E1Rest => packet = none
  BY <1>1, <1>2 DEF E1Rest
<1> QED
  BY <1>3, <1>4 DEF Flows

\* The E1 engine moves only when it is the topic.
E1Kept == E1TypeOK /\ (topic = "e1" => E1Inv)

LEMMA E1KeptInit == EnginesInit => E1Kept
<1>1. E1Rest => E1TypeOK
  BY EmptyPacketFlows DEF E1Rest, E1TypeOK, NoVerdict
<1>2. EnginesInit => (E1Rest \/ E1Init) /\ (topic = "e1" => E1Init)
  BY DEF EnginesInit
<1> QED
  BY <1>1, <1>2, E1InitInv DEF E1Kept, E1Inv

LEMMA E1KeptStep ==
  ASSUME E1Kept, [EnginesNext]_<<controlVars, e0Vars, e1Vars, topic>>
  PROVE  E1Kept'
<1>1. CASE topic = "e1" /\ E1Next /\ topic' = topic
  <2>1. E1Inv'
    BY <1>1, PropagateInv, EndPassInv, PredictInv, AcquireInv DEF E1Next, E1Kept
  <2> QED
    BY <2>1 DEF E1Kept, E1Inv
<1>2. CASE UNCHANGED e1Vars /\ topic' = topic
  <2>1. E1TypeOK'
    BY <1>2 DEF E1Kept, E1TypeOK, e1Vars
  <2>2. topic' = "e1" => E1Inv'
    BY <1>2, E1StutterInv DEF E1Kept
  <2> QED
    BY <2>1, <2>2 DEF E1Kept
<1> QED
  BY <1>1, <1>2 DEF EnginesNext

\* The mutation control and the two engines keep the types of their variables when they
\* are run together, and no metric exceeds its total (tools/unit002_mutation_control.py:382).
THEOREM EnginesTypeCorrect == EnginesSpec => []EnginesTypeOK
<1>1. EnginesSpec => []ControlTypeOK /\ []E0TypeOK
  BY EnginesRunTheirParts, ControlTypeCorrect, E0TypeCorrect, PTL
<1>2. EnginesSpec => []E1Kept
  BY E1KeptInit, E1KeptStep, PTL DEF EnginesSpec
<1>3. ControlTypeOK /\ E0TypeOK /\ E1Kept => EnginesTypeOK
  BY DEF EnginesTypeOK, E1Kept
<1> QED
  BY <1>1, <1>2, <1>3, PTL
=============================================================================
