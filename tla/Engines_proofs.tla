---------------------------- MODULE Engines_proofs ----------------------------
(***************************************************************************)
(* What an answer of the E0 engine means, for all sessions, models and       *)
(* domains of versions, and what the E1 engine's closure computes, for       *)
(* every packet.                                                            *)
(*                                                                         *)
(* E0: the properties are about answers, and an answer is a function of the   *)
(* model and the graph it was computed from; the invariant says that it is    *)
(* still theirs (an answer is dropped when they are revised), and that only   *)
(* machine-first sessions revise them.  What is left are lemmas about the     *)
(* operators: a minimal collapse exists if one exists, none exists exactly    *)
(* if the target determines the source, a shrunk witness passes the checker.  *)
(*                                                                         *)
(* E1: the aliases are the least set that has the seeds and is closed under   *)
(* the flows, and the verdict rests on it.  AliasesAreReachable is not        *)
(* inductive: that the set is closed at the end of the loop follows from the  *)
(* pass that changed nothing, so the invariant says of an unfinished, so far  *)
(* unchanged pass that the flows it has passed are closed                     *)
(* (PassedFlowsAreClosed).                                                   *)
(***************************************************************************)
EXTENDS E0Engine, E1Engine, FiniteSetTheorems, WellFoundedInduction, TLAPS

----------------------------------------------------------------------------
(* The E0 engine: the invariant. *)

OneShape(worlds) ==
  \A v, w \in worlds :
    IsFiniteSet(DOMAIN v) /\ DOMAIN v = DOMAIN w /\ v = [k \in DOMAIN v |-> v[k]]

CalibrationIsFixed ==
  session.kind # "machine" =>
    /\ session.instance \in Instances
    /\ graph = GraphOf(session.instance)
    /\ model = ModelOf(session.instance, session.kind = "collapsed")
    /\ facts = [complete |-> \/ session.kind = "collapsed"
                             \/ session.instance.pattern = "PRESERVED_COMPARE",
                material |-> TRUE]

E0Inv ==
  /\ session \in Sessions /\ graph \in Graphs
  /\ facts \in [complete : BOOLEAN, material : BOOLEAN]
  /\ model \in Models(model.worlds) /\ OneShape(model.worlds)
  /\ CalibrationIsFixed
  /\ answer # None => answer \in Predictions(model, graph, facts)

----------------------------------------------------------------------------
(* Witnesses. *)

LEMMA LeastMember ==
  ASSUME NEW T, T \subseteq Nat, T # {}
  PROVE  \E n \in T : \A k \in T : n <= k
<1>1. PICK n \in T : \A k \in T : ~(<<k, n>> \in OpToRel(<, Nat))
  BY NatLessThanWellFounded, WFMin, Zenon
<1>2. \A k \in T : ~(k < n)
  BY <1>1 DEF OpToRel
<1> QED
  BY <1>2

LEMMA DifferenceIsFinite ==
  ASSUME NEW worlds, OneShape(worlds), NEW v \in worlds, NEW w \in worlds
  PROVE  Cardinality(DifferingIn(v, w)) \in Nat
<1>1. DifferingIn(v, w) \in SUBSET DOMAIN v /\ IsFiniteSet(DOMAIN v)
  BY DEF DifferingIn, OneShape
<1> QED
  BY <1>1, FS_Subset, FS_CardinalityType

\* A model that has a collapse has a smallest one.
LEMMA MinimalCollapseExists ==
  ASSUME NEW m, OneShape(m.worlds), Collapses(m) # {}
  PROVE  MinimalCollapses(m) # {}
<1> DEFINE size(p) == Cardinality(DifferingIn(p[1], p[2]))
           T == {size(p) : p \in Collapses(m)}
<1>1. \A p \in Collapses(m) : size(p) \in Nat
  <2>1. \A p \in Collapses(m) : p[1] \in m.worlds /\ p[2] \in m.worlds
    BY DEF Collapses
  <2> QED
    BY <2>1, DifferenceIsFinite
<1> HIDE DEF size
<1>2. T \subseteq Nat /\ T # {}
  BY <1>1
<1> HIDE DEF T
<1>3. PICK n \in T : \A k \in T : n <= k
  BY <1>2, LeastMember
<1>4. PICK p \in Collapses(m) : n = size(p)
  BY <1>3 DEF T
<1>5. \A q \in Collapses(m) : size(p) <= size(q)
  BY <1>3, <1>4 DEF T
<1>6. p \in MinimalCollapses(m)
  BY <1>4, <1>5 DEF MinimalCollapses, size
<1> QED
  BY <1>6

\* There is a collapse exactly if the observations do not determine the consequences.
LEMMA NoCollapseIsDetermined ==
  ASSUME NEW m, m \in Models(m.worlds)
  PROVE  Determined(m) <=> Collapses(m) = {}
<1> DEFINE Observations == Effects \cup {"same"}
           at(t) == CHOOSE w \in m.worlds : m.target[w] = t
           read == [t \in Observations |->
                      IF \E w \in m.worlds : m.target[w] = t THEN m.source[at(t)] ELSE "success"]
<1>1. /\ \A w \in m.worlds : m.source[w] \in Consequences /\ m.target[w] \in Observations
  BY DEF Models
<1>2. ASSUME Determined(m)
      PROVE  Collapses(m) = {}
  BY <1>2 DEF Determined, Collapses
<1>3. ASSUME Collapses(m) = {}
      PROVE  Determined(m)
  <2>1. \A t \in Observations : (\E w \in m.worlds : m.target[w] = t) =>
          at(t) \in m.worlds /\ m.target[at(t)] = t
    OBVIOUS
  <2>2. \A v, w \in m.worlds : m.target[v] = m.target[w] => m.source[v] = m.source[w]
    <3> SUFFICES ASSUME NEW v \in m.worlds, NEW w \in m.worlds, m.target[v] = m.target[w],
                        m.source[v] # m.source[w]
                 PROVE  FALSE
      OBVIOUS
    <3>1. <<v, w>> \in Collapses(m)
      BY DEF Collapses
    <3> QED
      BY <1>3, <3>1
  <2> HIDE DEF at
  <2>3. read \in [Observations -> Consequences]
    BY <1>1, <2>1 DEF Consequences
  <2>4. \A w \in m.worlds : m.source[w] = read[m.target[w]]
    BY <1>1, <2>1, <2>2
  <2> HIDE DEF read
  <2> QED
    BY <2>3, <2>4 DEF Determined
<1> QED
  BY <1>2, <1>3

LEMMA WitnessIffUndetermined ==
  ASSUME NEW m, m \in Models(m.worlds), OneShape(m.worlds)
  PROVE  Witnesses(m) # {} <=>
           ~Determined(m) \/ \E w \in m.worlds : ~(m.reached[w] \subseteq m.allowed[w])
<1>1. Extras(m) # {} <=> \E w \in m.worlds : ~(m.reached[w] \subseteq m.allowed[w])
  BY DEF Extras
<1>2. MinimalCollapses(m) # {} <=> Collapses(m) # {}
  BY MinimalCollapseExists DEF MinimalCollapses
<1>3. Witnesses(m) # {} <=> Extras(m) # {} \/ MinimalCollapses(m) # {}
  BY DEF Witnesses
<1> QED
  BY <1>1, <1>2, <1>3, NoCollapseIsDetermined

\* Shrinking leaves exactly the differing coordinates, by which the two worlds are still
\* told apart.
LEMMA ShrunkWitness ==
  ASSUME NEW m, m \in Models(m.worlds), OneShape(m.worlds), NEW p \in Collapses(m)
  PROVE  LET x == Shrunk(m, p) IN
         /\ CheckerAccepts(x)
         /\ \A k \in DOMAIN x.worlds[1] : x.worlds[1][k] # x.worlds[2][k]
<1> DEFINE v == p[1]
           w == p[2]
           keys == DifferingIn(v, w)
           a == On(v, keys)
           b == On(w, keys)
           x == Shrunk(m, p)
<1>1. v \in m.worlds /\ w \in m.worlds /\ m.source[v] # m.source[w] /\ m.target[v] = m.target[w]
  BY DEF Collapses
<1>2. DOMAIN v = DOMAIN w /\ v = [k \in DOMAIN v |-> v[k]] /\ w = [k \in DOMAIN w |-> w[k]]
  BY <1>1 DEF OneShape
<1>3. PICK k \in DOMAIN v : v[k] # w[k]
  BY <1>1, <1>2
<1>4. k \in keys /\ \A j \in keys : v[j] # w[j]
  BY <1>3 DEF DifferingIn
<1>5. /\ DOMAIN a = keys /\ \A j \in keys : a[j] = v[j]
      /\ \A j \in keys : b[j] = w[j]
  BY DEF On
<1>6. a # b /\ \A j \in DOMAIN a : a[j] # b[j]
  BY <1>4, <1>5
<1>7. /\ x.kind = "collapse" /\ x.worlds = <<a, b>>
      /\ x.source = <<m.source[v], m.source[w]>> /\ x.target = <<m.target[v], m.target[w]>>
      /\ x.sourceBy = Keyed(a, b, m.source[v], m.source[w])
      /\ x.targetBy = Keyed(a, b, m.target[v], m.target[w])
  BY DEF Shrunk
<1> HIDE DEF a, b, x, v, w, keys
<1>8. DOMAIN x.sourceBy = {a, b} /\ DOMAIN x.targetBy = {a, b}
  BY <1>7 DEF Keyed
<1>9. /\ x.sourceBy[a] = m.source[v] /\ x.sourceBy[b] = m.source[w]
      /\ x.targetBy[a] = m.target[v] /\ x.targetBy[b] = m.target[w]
  BY <1>6, <1>7 DEF Keyed
<1>10. \A i \in DOMAIN x.worlds :
         /\ x.worlds[i] \in DOMAIN x.sourceBy \cap DOMAIN x.targetBy
         /\ x.source[i] = x.sourceBy[x.worlds[i]] /\ x.target[i] = x.targetBy[x.worlds[i]]
  <2>1. DOMAIN x.worlds = {1, 2} /\ x.worlds[1] = a /\ x.worlds[2] = b
    BY <1>7
  <2>2. /\ x.source[1] = m.source[v] /\ x.source[2] = m.source[w]
        /\ x.target[1] = m.target[v] /\ x.target[2] = m.target[w]
    BY <1>7
  <2> QED
    BY <1>8, <1>9, <2>1, <2>2
<1>11. CheckerAccepts(x)
  BY <1>1, <1>6, <1>7, <1>10 DEF CheckerAccepts
<1>12. \A j \in DOMAIN x.worlds[1] : x.worlds[1][j] # x.worlds[2][j]
  BY <1>6, <1>7
<1> QED
  BY <1>11, <1>12 DEF x

LEMMA ExtraWitnessAccepted ==
  ASSUME NEW m, m \in Models(m.worlds), NEW w \in Extras(m)
  PROVE  CheckerAccepts(ExtraWitness(m, w)) /\ ExtraWitness(m, w).kind = "extra"
<1>1. w \in m.worlds /\ m.reached[w] \ m.allowed[w] # {}
      /\ DOMAIN m.allowed = m.worlds /\ DOMAIN m.reached = m.worlds
  BY DEF Extras, Models
<1> QED
  BY <1>1 DEF ExtraWitness, CheckerAccepts

----------------------------------------------------------------------------
(* Answers. *)

LEMMA PredictionOfAnswer ==
  ASSUME NEW m, NEW g, NEW f, NEW x \in Predictions(m, g, f)
  PROVE  /\ x.prediction \in {"INVALID", "REGRESSION", "INCOMPLETE", "STABLE"}
         /\ x.requests = Unmet(g)
         /\ x.prediction # "REGRESSION" => x.witness = None
         /\ x.prediction = "REGRESSION" => x.witness \in Witnesses(m)
         /\ x.prediction = "INVALID" <=> ~ValidGraph(g)
         /\ ValidGraph(g) => (x.prediction = "REGRESSION" <=> Witnesses(m) # {})
         /\ x.prediction = "STABLE" => Unmet(g) = {} /\ f.complete /\ f.material
         /\ x.prediction = "INCOMPLETE" => Unmet(g) # {} \/ ~f.complete \/ ~f.material
BY DEF Predictions

----------------------------------------------------------------------------
(* Calibrations. *)

LEMMA CalibratedModel ==
  ASSUME NEW inst \in Instances, NEW collapsed \in BOOLEAN
  PROVE  LET m == ModelOf(inst, collapsed) IN
         /\ m \in Models(m.worlds) /\ OneShape(m.worlds)
         /\ GraphOf(inst) \in Graphs /\ ValidGraph(GraphOf(inst))
<1> DEFINE m == ModelOf(inst, collapsed)
<1>1. m \in Models(m.worlds)
  <2>1. \A w : SourceShows(inst, w) \in Consequences
    BY DEF SourceShows, Consequences
  <2>2. \A w : TargetShows(inst, w) \in Effects
    BY <2>1 DEF TargetShows, Effects, Consequences
  <2> QED
    BY <2>1, <2>2 DEF ModelOf, Models
<1>2. OneShape(m.worlds)
  <2>1. \A w \in m.worlds : \E v : w = WorldAt(v)
    BY DEF ModelOf
  <2>2. \A v : DOMAIN WorldAt(v) = {"current"} /\ WorldAt(v) = [k \in {"current"} |-> WorldAt(v)[k]]
    BY DEF WorldAt
  <2>3. IsFiniteSet({"current"})
    BY FS_Singleton
  <2> HIDE DEF m
  <2> QED
    BY <2>1, <2>2, <2>3 DEF OneShape
<1>3. GraphOf(inst) \in Graphs
  BY DEF GraphOf, Graphs, Marks
<1>4. ValidGraph(GraphOf(inst))
  BY DEF GraphOf, ValidGraph
<1> QED
  BY <1>1, <1>2, <1>3, <1>4

\* The effect of the three programs, spelled out.
LEMMA EffectOfTarget ==
  ASSUME NEW inst \in Instances, NEW w \in WorldsOf(inst)
  PROVE  /\ inst.pattern = "PRESERVED_COMPARE" =>
              EffectOf(inst, ProgramOf[inst.pattern], w) = SourceShows(inst, w)
         /\ inst.pattern = "WRONG_VALIDATOR_REJECT_PATH" =>
              EffectOf(inst, ProgramOf[inst.pattern], w) = "stale"
         /\ inst.pattern = "OMITTED_REVIEWED_GUARD" /\ w.current # inst.anchor =>
              EffectOf(inst, ProgramOf[inst.pattern], w) = "outside"
<1>1. inst.anchor # None /\ inst.anchor \in Versions
  BY NoneIsNoVersion DEF Instances
<1>2. CASE inst.pattern = "PRESERVED_COMPARE"
  BY <1>2 DEF EffectOf, SignatureOf, NativeKind, Interpreted, SourceShows, ProgramOf
<1>3. CASE inst.pattern = "WRONG_VALIDATOR_REJECT_PATH"
  BY <1>3 DEF EffectOf, SignatureOf, NativeKind, Interpreted, ProgramOf
<1>4. CASE inst.pattern = "OMITTED_REVIEWED_GUARD"
  BY <1>4 DEF EffectOf, SignatureOf, NativeKind, Interpreted, ProgramOf
<1> QED
  BY <1>2, <1>3, <1>4

\* Where the anchor is the only reviewed version, the source requires what the adapter has
\* it require.
LEMMA RequiredAtAnchor ==
  ASSUME NEW inst, inst.reviewed = {inst.anchor}, NEW w \in WorldsOf(inst)
  PROVE  RequiredIn(inst, w) = SourceShows(inst, w)
<1>1. w.reviewed = inst.anchor
  BY DEF WorldsOf
<1> QED
  BY <1>1 DEF RequiredIn, SourceShows

\* A collapse of a calibration's model shows a world that the target gets wrong.
LEMMA CollapseIsMismatch ==
  ASSUME NEW inst \in Instances, SeenAlike(inst), Witnesses(ModelOf(inst, FALSE)) # {}
  PROVE  Mismatches(inst, ProgramOf[inst.pattern]) # {}
<1> DEFINE m == ModelOf(inst, FALSE)
<1>1. Extras(m) = {}
  BY DEF Extras, ModelOf
<1>2. Collapses(m) # {}
  BY <1>1 DEF Witnesses, MinimalCollapses
<1>3. PICK v \in m.worlds, w \in m.worlds :
        m.source[v] # m.source[w] /\ m.target[v] = m.target[w]
  BY <1>2 DEF Collapses
<1>4. PICK a \in inst.domain : v = WorldAt(a)
  BY <1>3 DEF ModelOf
<1>5. PICK b \in inst.domain : w = WorldAt(b)
  BY <1>3 DEF ModelOf
<1>6. /\ SourceShows(inst, v) # SourceShows(inst, w)
      /\ TargetShows(inst, v) = TargetShows(inst, w)
  BY <1>3 DEF ModelOf
<1>7. inst.pattern # "PRESERVED_COMPARE"
  BY <1>6 DEF TargetShows
<1>8. \E c, d \in inst.domain : c = inst.anchor /\ d # inst.anchor
  BY <1>4, <1>5, <1>6 DEF SourceShows, WorldAt
<1>9. PICK c \in inst.domain, d \in inst.domain : c = inst.anchor /\ d # inst.anchor
  BY <1>8
<1>10. PICK x \in WorldsOf(inst), y \in WorldsOf(inst) : x.current = c /\ y.current = d
  BY <1>9 DEF SeenAlike
<1>11. RequiredIn(inst, x) = "success" /\ RequiredIn(inst, y) = "stale"
  BY <1>9, <1>10, RequiredAtAnchor DEF SeenAlike, SourceShows
<1>12. CASE inst.pattern = "OMITTED_REVIEWED_GUARD"
  <2>1. EffectOf(inst, ProgramOf[inst.pattern], y) = "outside"
    BY <1>9, <1>10, <1>12, EffectOfTarget
  <2> QED
    BY <1>11, <2>1 DEF Mismatches
<1>13. CASE inst.pattern = "WRONG_VALIDATOR_REJECT_PATH"
  <2>1. EffectOf(inst, ProgramOf[inst.pattern], x) = "stale"
    BY <1>13, EffectOfTarget
  <2> QED
    BY <1>11, <2>1 DEF Mismatches
<1> QED
  BY <1>7, <1>12, <1>13 DEF Instances, Patterns

LEMMA PreservedIsExact ==
  ASSUME NEW inst \in Instances, inst.pattern = "PRESERVED_COMPARE",
         inst.reviewed = {inst.anchor}
  PROVE  /\ Mismatches(inst, ProgramOf[inst.pattern]) = {}
         /\ Discriminates(inst, ProgramOf[inst.pattern])
<1>1. Mismatches(inst, ProgramOf[inst.pattern]) = {}
  BY EffectOfTarget, RequiredAtAnchor DEF Mismatches
<1>2. \A w \in WorldsOf(inst) : RequiredIn(inst, w) = SourceShows(inst, w)
  BY RequiredAtAnchor
<1>3. Discriminates(inst, ProgramOf[inst.pattern])
  BY <1>2 DEF Discriminates, SameToDiscriminator, ProgramOf, SourceShows
<1> QED
  BY <1>1, <1>3

\* To the engine a preserved comparison is complete and without a witness, whatever its
\* reviewed versions.
LEMMA PreservedIsStable ==
  ASSUME NEW inst \in Instances, inst.pattern = "PRESERVED_COMPARE"
  PROVE  /\ Witnesses(ModelOf(inst, FALSE)) = {}
         /\ Unmet(GraphOf(inst)) = {}
<1>1. Witnesses(ModelOf(inst, FALSE)) = {}
  BY DEF Witnesses, Extras, MinimalCollapses, Collapses, ModelOf, TargetShows
<1>2. Unmet(GraphOf(inst)) = {}
  BY DEF Unmet, Obligations, GraphOf
<1> QED
  BY <1>1, <1>2

LEMMA UnguardedIsUnmet ==
  ASSUME NEW inst \in Instances, inst.pattern # "PRESERVED_COMPARE"
  PROVE  "guard" \in Unmet(GraphOf(inst))
BY DEF Unmet, Obligations, GraphOf, Items, Nodes

----------------------------------------------------------------------------
(* The invariant. *)

LEMMA SessionOf ==
  ASSUME session \in Sessions
  PROVE  session.kind # "machine" => session.instance \in Instances
BY E0Constants

LEMMA E0InitInv == E0Init => E0Inv
<1> SUFFICES ASSUME E0Init
             PROVE  E0Inv
  OBVIOUS
<1>1. session \in Sessions /\ answer = None
  BY DEF E0Init
<1>2. CASE session.kind = "machine"
  <2>1. model = Unseen /\ graph = CandidateGraph /\ facts = [complete |-> FALSE, material |-> TRUE]
    BY <1>2 DEF E0Init
  <2>2. model \in Models(model.worlds) /\ OneShape(model.worlds)
    BY <2>1 DEF Unseen, Models, OneShape
  <2>3. graph \in Graphs
    BY <2>1 DEF CandidateGraph, Graphs, Marks
  <2> QED
    BY <1>1, <1>2, <2>1, <2>2, <2>3 DEF E0Inv, CalibrationIsFixed
<1>3. CASE session.kind # "machine"
  <2>1. CalibrationIsFixed
    BY <1>1, <1>3, SessionOf DEF E0Init, CalibrationIsFixed
  <2>2. facts \in [complete : BOOLEAN, material : BOOLEAN]
    <3> DEFINE complete == \/ session.kind = "collapsed"
                           \/ session.instance.pattern = "PRESERVED_COMPARE"
    <3>1. facts = [complete |-> complete, material |-> TRUE]
      BY <1>3, <2>1 DEF CalibrationIsFixed
    <3>2. complete \in BOOLEAN
      OBVIOUS
    <3> HIDE DEF complete
    <3> QED
      BY <3>1, <3>2
  <2> QED
    BY <1>1, <1>3, <2>1, <2>2, CalibratedModel DEF E0Inv, CalibrationIsFixed
<1> QED
  BY <1>2, <1>3

LEMMA E0StepInv ==
  ASSUME E0Inv, [E0Next]_e0Vars
  PROVE  E0Inv'
<1>1. CASE EvaluateVbe
  BY <1>1 DEF E0Inv, EvaluateVbe, CalibrationIsFixed
<1>2. ASSUME NEW i \in Items, Answer(i)
      PROVE  E0Inv'
  <2>1. graph' \in Graphs
    <3>1. \A e : e \in {"ESTABLISHED", "unevidenced"} => e \in Marks
      BY DEF Marks
    <3>2. CandidateGraph[i] \in Marks
      BY DEF CandidateGraph, Marks
    <3> QED
      BY <1>2, <3>1, <3>2 DEF E0Inv, Answer, Graphs
  <2> QED
    BY <1>2, <2>1 DEF E0Inv, Answer, Revised, CalibrationIsFixed
<1>3. CASE Observe
  <2>1. model' \in Observed
    BY <1>3 DEF Observe
  <2>2. model' \in Models(model'.worlds) /\ OneShape(model'.worlds)
    BY <2>1, E0Constants DEF OneShape
  <2> QED
    BY <1>3, <2>2 DEF E0Inv, Observe, Revised, CalibrationIsFixed
<1>4. CASE Declare
  BY <1>4 DEF E0Inv, Declare, Revised, CalibrationIsFixed
<1>5. CASE UNCHANGED e0Vars
  BY <1>5 DEF E0Inv, e0Vars, CalibrationIsFixed
<1> QED
  BY <1>1, <1>2, <1>3, <1>4, <1>5 DEF E0Next

\* An answer belongs to the graph and the model of its session, in every behaviour.
THEOREM E0Invariant == E0Spec => []E0Inv
BY E0InitInv, E0StepInv, PTL DEF E0Spec

----------------------------------------------------------------------------
(* Theorems. *)

\* The variables keep their types (engine.py:120).
THEOREM E0TypeCorrect == E0Spec => []E0TypeOK
<1>1. E0Inv => E0TypeOK
  <2> SUFFICES ASSUME E0Inv, answer # None
               PROVE  /\ answer.prediction \in {"INVALID", "REGRESSION", "INCOMPLETE", "STABLE"}
                      /\ answer.requests \subseteq Items
                      /\ answer.prediction # "REGRESSION" => answer.witness = None
    BY DEF E0Inv, E0TypeOK
  <2> QED
    BY PredictionOfAnswer DEF E0Inv, Unmet
<1> QED
  BY <1>1, E0Invariant, PTL

\* A valid graph is predicted to regress exactly if the model is undetermined or exceeds
\* what is allowed, for every finite or infinite set of worlds (engine.py:153).
THEOREM RegressionMeansUndetermined == E0Spec => []RegressionIffUndetermined
<1>1. E0Inv => RegressionIffUndetermined
  BY PredictionOfAnswer, WitnessIffUndetermined DEF E0Inv, RegressionIffUndetermined, Answered
<1> QED
  BY <1>1, E0Invariant, PTL

\* Every witness the engine hands out passes the independent checker, and its worlds agree
\* in none of the coordinates that are left (engine.py:100).
THEOREM WitnessesStandAlone == E0Spec => []WitnessStandsAlone
<1>1. E0Inv => WitnessStandsAlone
  <2> SUFFICES ASSUME E0Inv, Answered("REGRESSION")
               PROVE  /\ CheckerAccepts(answer.witness)
                      /\ answer.witness.kind = "collapse" =>
                           \A k \in DOMAIN answer.witness.worlds[1] :
                             answer.witness.worlds[1][k] # answer.witness.worlds[2][k]
    BY DEF WitnessStandsAlone
  <2>1. answer.witness \in Witnesses(model)
    BY PredictionOfAnswer DEF E0Inv, Answered
  <2>2. CASE Extras(model) # {}
    <3>1. PICK w \in Extras(model) : answer.witness = ExtraWitness(model, w)
      BY <2>1, <2>2 DEF Witnesses
    <3> QED
      BY <3>1, ExtraWitnessAccepted DEF E0Inv
  <2>3. CASE Extras(model) = {}
    <3>1. PICK p \in MinimalCollapses(model) : answer.witness = Shrunk(model, p)
      BY <2>1, <2>3 DEF Witnesses
    <3> QED
      BY <3>1, ShrunkWitness DEF E0Inv, MinimalCollapses
  <2> QED
    BY <2>2, <2>3
<1> QED
  BY <1>1, E0Invariant, PTL

\* Stability needs evidence for every item (engine.py:165).
THEOREM StabilityIsEvidenced == E0Spec => []StableByEvidence
<1>1. E0Inv => StableByEvidence
  <2> SUFFICES ASSUME E0Inv, answer # None
               PROVE  StableByEvidence
    BY DEF StableByEvidence, Answered
  <2>1. /\ answer.requests = Unmet(graph)
        /\ Answered("STABLE") => Unmet(graph) = {} /\ facts.complete /\ facts.material
        /\ Answered("INCOMPLETE") => Unmet(graph) # {} \/ ~facts.complete \/ ~facts.material
    BY PredictionOfAnswer DEF E0Inv, Answered
  <2>2. Unmet(graph) = {} => graph = [i \in Items |-> "ESTABLISHED"]
    BY DEF E0Inv, Graphs, Unmet, Obligations
  <2> QED
    BY <2>1, <2>2 DEF StableByEvidence
<1> QED
  BY <1>1, E0Invariant, PTL

\* Both, as the runs check it: a prediction is warranted by model and graph.
THEOREM PredictionsAreWarranted == E0Spec => []PredictionIsWarranted
<1>1. RegressionIffUndetermined /\ StableByEvidence => PredictionIsWarranted
  BY DEF PredictionIsWarranted
<1> QED
  BY <1>1, RegressionMeansUndetermined, StabilityIsEvidenced, PTL

\* The engine's calibrations agree with the program the frozen core compiles (adapters.py:72),
\* for every instance whose anchor is the only reviewed version and whose versions all occur
\* in admissible worlds: where the two models see the same.
THEOREM CalibrationsAgree == E0Spec => []CalibrationIsSound
<1>1. E0Inv => CalibrationIsSound
  <2> SUFFICES ASSUME E0Inv, session.kind = "calibration", answer # None,
                      SeenAlike(session.instance)
               PROVE  CalibrationIsSound
    BY DEF CalibrationIsSound
  <2> DEFINE inst == session.instance
             m == ModelOf(inst, FALSE)
  <2>1. inst \in Instances /\ graph = GraphOf(inst) /\ model = m
        /\ facts = [complete |-> inst.pattern = "PRESERVED_COMPARE", material |-> TRUE]
    BY DEF E0Inv, CalibrationIsFixed
  <2>2. ValidGraph(graph) /\ answer \in Predictions(m, graph, facts)
    BY <2>1, CalibratedModel DEF E0Inv
  <2>3. answer.prediction \in {"STABLE", "REGRESSION", "INCOMPLETE"}
    BY <2>2, PredictionOfAnswer
  <2>4. Answered("REGRESSION") => Mismatches(inst, ProgramOf[inst.pattern]) # {}
    BY <2>1, <2>2, PredictionOfAnswer, CollapseIsMismatch DEF Answered
  <2>5. CASE inst.pattern = "PRESERVED_COMPARE"
    <3>1. ~Answered("INCOMPLETE")
      BY <2>1, <2>2, <2>5, PreservedIsStable, PredictionOfAnswer DEF Answered
    <3> QED
      BY <2>1, <2>3, <2>4, <2>5, <3>1, PreservedIsExact DEF CalibrationIsSound, SeenAlike, Answered
  <2>6. CASE inst.pattern # "PRESERVED_COMPARE"
    <3>1. ~Answered("STABLE")
      BY <2>1, <2>2, <2>6, UnguardedIsUnmet, PredictionOfAnswer DEF Answered
    <3> QED
      BY <2>3, <2>4, <2>6, <3>1 DEF CalibrationIsSound, Answered
  <2> QED
    BY <2>5, <2>6
<1> QED
  BY <1>1, E0Invariant, PTL

----------------------------------------------------------------------------
(* The E1 engine: the strengthening. *)

PassedFlowsAreClosed ==
  ~closing.done /\ ~closing.changed =>
    \A i \in DOMAIN Flows(packet) :
      i < closing.at => Along(Flows(packet)[i], aliases) \subseteq aliases

NoVerdictBeforeTheEnd == verdict # NoVerdict => closing.done

E1Inv ==
  /\ packet \in Packets
  /\ E1TypeOK
  /\ AliasesAreReachable
  /\ PassedFlowsAreClosed
  /\ NoVerdictBeforeTheEnd
  /\ PreservationIsCompared

----------------------------------------------------------------------------
(* Flows. *)

LEMMA FlowsOfPacket ==
  ASSUME NEW p \in Packets
  PROVE  /\ Flows(p) \in Seq(Flow)
         /\ Len(Flows(p)) \in Nat
         /\ DOMAIN Flows(p) = 1 .. Len(Flows(p))
         /\ \A i \in DOMAIN Flows(p) : Flows(p)[i] \in Flow
         /\ SeedNodes(p) \subseteq E1Nodes
<1>1. p \in PacketRecords
  BY E1Constants
<1>2. p.assignments \in Seq(Flow) /\ p.calls \in Seq(Flow) /\ p.versions \subseteq E1Nodes
  BY <1>1 DEF PacketRecords
<1>3. Flows(p) \in Seq(Flow)
  BY <1>2 DEF Flows
<1>4. SeedNodes(p) \subseteq E1Nodes
  BY <1>2 DEF SeedNodes
<1> QED
  BY <1>3, <1>4

LEMMA AlongGrows ==
  ASSUME NEW flow, NEW nodes
  PROVE  nodes \subseteq Along(flow, nodes)
BY DEF Along

LEMMA AlongIsMonotone ==
  ASSUME NEW flow, NEW a, NEW b, a \subseteq b
  PROVE  Along(flow, a) \subseteq Along(flow, b)
BY DEF Along

----------------------------------------------------------------------------
(* The invariant. *)

\* A packet that has just been taken up satisfies the invariant.
LEMMA FreshPacket ==
  ASSUME NEW p \in Packets, packet = p, aliases = SeedNodes(p),
         closing = [at |-> 1, changed |-> FALSE, done |-> FALSE], verdict = NoVerdict
  PROVE  E1Inv
<1>1. E1TypeOK
  BY FlowsOfPacket DEF E1TypeOK, NoVerdict
<1>2. AliasesAreReachable
  BY DEF AliasesAreReachable
<1>3. PassedFlowsAreClosed
  BY FlowsOfPacket DEF PassedFlowsAreClosed
<1>4. PreservationIsCompared
  BY DEF PreservationIsCompared, NoVerdict
<1> QED
  BY <1>1, <1>2, <1>3, <1>4 DEF E1Inv, NoVerdictBeforeTheEnd

LEMMA E1InitInv == E1Init => E1Inv
BY FreshPacket DEF E1Init

LEMMA PropagateInv ==
  ASSUME E1Inv, Propagate
  PROVE  E1Inv'
<1> DEFINE at == closing.at
           flow == Flows(packet)[at]
<1>1. /\ packet' = packet /\ verdict' = verdict
      /\ ~closing.done /\ at \in DOMAIN Flows(packet)
      /\ aliases' = Along(flow, aliases)
      /\ closing' = [at |-> at + 1, changed |-> closing.changed \/ aliases' # aliases,
                     done |-> FALSE]
  BY DEF Propagate
<1>2. packet \in Packets /\ aliases \subseteq E1Nodes /\ verdict = NoVerdict
      /\ at \in Nat /\ closing.changed \in BOOLEAN
  BY <1>1 DEF E1Inv, E1TypeOK, NoVerdictBeforeTheEnd
<1>3. flow \in Flow
  BY <1>1, <1>2, FlowsOfPacket
<1>4. aliases' \subseteq E1Nodes /\ aliases \subseteq aliases'
  BY <1>1, <1>2, <1>3 DEF Along, Flow
<1>5. E1TypeOK'
  BY <1>1, <1>2, <1>4, FlowsOfPacket DEF E1TypeOK, NoVerdict
<1>6. AliasesAreReachable'
  <2>1. SeedNodes(packet)' \subseteq aliases'
    BY <1>1, <1>4 DEF E1Inv, AliasesAreReachable, SeedNodes
  <2>2. ASSUME NEW nodes \in SUBSET E1Nodes, SeedNodes(packet) \subseteq nodes, Closed(nodes)
        PROVE  aliases' \subseteq nodes
    <3>1. aliases \subseteq nodes
      BY <2>2 DEF E1Inv, AliasesAreReachable
    <3>2. Along(flow, aliases) \subseteq Along(flow, nodes)
      BY <3>1, AlongIsMonotone
    <3>3. Along(flow, nodes) \subseteq nodes
      BY <1>1, <2>2 DEF Closed
    <3> QED
      BY <1>1, <3>2, <3>3
  <2> QED
    BY <1>1, <2>1, <2>2 DEF AliasesAreReachable, Closed, SeedNodes, Flows
<1>7. PassedFlowsAreClosed'
  <2> SUFFICES ASSUME ~closing.changed, aliases' = aliases,
                      NEW i \in DOMAIN Flows(packet), i < at + 1
               PROVE  Along(Flows(packet)[i], aliases) \subseteq aliases
    BY <1>1, <1>2 DEF PassedFlowsAreClosed, Flows
  <2>1. CASE i = at
    BY <1>1, <2>1
  <2>2. CASE i # at
    <3>1. i < at
      BY <1>2, <2>2, FlowsOfPacket
    <3> QED
      BY <1>1, <3>1 DEF E1Inv, PassedFlowsAreClosed
  <2> QED
    BY <2>1, <2>2
<1>8. NoVerdictBeforeTheEnd' /\ PreservationIsCompared'
  BY <1>1, <1>2 DEF NoVerdictBeforeTheEnd, PreservationIsCompared, NoVerdict
<1> QED
  BY <1>1, <1>2, <1>5, <1>6, <1>7, <1>8 DEF E1Inv

LEMMA EndPassInv ==
  ASSUME E1Inv, EndPass
  PROVE  E1Inv'
<1>1. /\ packet' = packet /\ verdict' = verdict /\ aliases' = aliases
      /\ ~closing.done /\ closing.at = Len(Flows(packet)) + 1
      /\ closing' = [at |-> 1, changed |-> FALSE, done |-> ~closing.changed]
  BY DEF EndPass
<1>2. packet \in Packets /\ verdict = NoVerdict /\ closing.changed \in BOOLEAN
  BY <1>1 DEF E1Inv, E1TypeOK, NoVerdictBeforeTheEnd
<1>3. E1TypeOK'
  <2>1. closing' \in [at : Nat, changed : BOOLEAN, done : BOOLEAN]
    BY <1>1, <1>2
  <2>2. closing'.at \in 1 .. Len(Flows(packet)) + 1
    BY <1>1, <1>2, FlowsOfPacket
  <2> QED
    BY <1>1, <2>1, <2>2 DEF E1Inv, E1TypeOK, Flows
<1>4. ~closing.changed => Closed(aliases)
  BY <1>1, <1>2, FlowsOfPacket DEF E1Inv, PassedFlowsAreClosed, Closed
<1>5. AliasesAreReachable'
  BY <1>1, <1>2, <1>4 DEF E1Inv, AliasesAreReachable, Closed, SeedNodes, Flows
<1>6. PassedFlowsAreClosed'
  BY <1>1, <1>2, FlowsOfPacket DEF PassedFlowsAreClosed, Flows
<1>7. NoVerdictBeforeTheEnd' /\ PreservationIsCompared'
  BY <1>1, <1>2 DEF NoVerdictBeforeTheEnd, PreservationIsCompared, NoVerdict
<1> QED
  BY <1>1, <1>2, <1>3, <1>5, <1>6, <1>7 DEF E1Inv

----------------------------------------------------------------------------
(* The prediction. *)

\* A version fact among the aliases needs a seed: without one there is no alias at all.
LEMMA NoSeedNoAlias ==
  ASSUME E1Inv, SeedNodes(packet) = {}
  PROVE  aliases = {}
<1>1. Closed({})
  BY DEF Closed, Along
<1> QED
  BY <1>1 DEF E1Inv, AliasesAreReachable

LEMMA PredictInv ==
  ASSUME E1Inv, Predict
  PROVE  E1Inv'
<1>1. /\ packet' = packet /\ aliases' = aliases /\ closing' = closing
      /\ closing.done /\ verdict = NoVerdict
  BY DEF Predict
<1>2. /\ verdict'.prediction = IF RegressionWitness THEN "REGRESSION_WITNESS"
                               ELSE IF Supported = Roles /\ ~packet.unparsed
                                    THEN "PRESERVATION_EVIDENCE" ELSE "INCOMPLETE"
      /\ verdict'.requests = (Roles \ Supported) \cup (IF packet.unparsed THEN {"parse"} ELSE {})
  BY DEF Predict
<1>3. Supported \subseteq Roles
  BY DEF Supported
<1>4. E1TypeOK'
  <2>1. verdict'.requests \subseteq Roles \cup {"parse"}
    BY <1>2
  <2>2. verdict'.prediction \in {"none", "REGRESSION_WITNESS", "PRESERVATION_EVIDENCE", "INCOMPLETE"}
    BY <1>2
  <2> QED
    BY <1>1, <2>1, <2>2 DEF E1Inv, E1TypeOK, Flows
<1>5. AliasesAreReachable' /\ PassedFlowsAreClosed' /\ NoVerdictBeforeTheEnd'
  BY <1>1 DEF E1Inv, AliasesAreReachable, PassedFlowsAreClosed, NoVerdictBeforeTheEnd,
              Closed, SeedNodes, Flows
<1>6. ASSUME verdict'.prediction = "PRESERVATION_EVIDENCE"
      PROVE  /\ SeedNodes(packet) # {} /\ ~packet.unparsed
             /\ \E c \in packet.comparisons :
                  \E nodes \in SUBSET E1Nodes :
                    /\ SeedNodes(packet) \subseteq nodes /\ Closed(nodes)
                    /\ c \cap aliases # {} /\ ~(c \subseteq nodes)
  <2>1. Supported = Roles /\ ~packet.unparsed
    BY <1>2, <1>6
  <2>2. packet.versions \cap aliases # {} /\ Guards # {}
    BY <2>1 DEF Supported, Roles
  <2>3. SeedNodes(packet) # {}
    BY <2>2, NoSeedNoAlias
  <2>4. PICK c \in packet.comparisons : Against(c) # {}
    BY <2>2 DEF Guards
  <2>5. c \cap aliases # {} /\ ~(c \subseteq aliases)
    BY <2>4 DEF Against
  <2>6. aliases \in SUBSET E1Nodes /\ SeedNodes(packet) \subseteq aliases /\ Closed(aliases)
    BY <1>1 DEF E1Inv, E1TypeOK, AliasesAreReachable
  <2> QED
    BY <2>1, <2>3, <2>4, <2>5, <2>6
<1>7. ASSUME verdict'.prediction = "INCOMPLETE"
      PROVE  verdict'.requests # {}
  <2>1. ~(Supported = Roles /\ ~packet.unparsed)
    BY <1>2, <1>7
  <2>2. CASE packet.unparsed
    BY <1>2, <2>2
  <2>3. CASE Supported # Roles
    BY <1>2, <1>3, <2>3
  <2> QED
    BY <2>1, <2>2, <2>3
<1>8. PreservationIsCompared'
  BY <1>1, <1>6, <1>7 DEF PreservationIsCompared, Closed, SeedNodes, Flows
<1> QED
  BY <1>1, <1>4, <1>5, <1>8 DEF E1Inv

----------------------------------------------------------------------------
(* The steps together. *)

\* A new packet starts the loop anew.
LEMMA AcquireInv ==
  ASSUME E1Inv, Acquire
  PROVE  E1Inv'
<1>1. packet' \in Packets /\ aliases' = SeedNodes(packet')
      /\ closing' = [at |-> 1, changed |-> FALSE, done |-> FALSE] /\ verdict' = NoVerdict
  BY DEF Acquire
<1>2. E1TypeOK'
  BY <1>1, FlowsOfPacket DEF E1TypeOK, NoVerdict
<1>3. AliasesAreReachable'
  BY <1>1 DEF AliasesAreReachable
<1>4. PassedFlowsAreClosed'
  BY <1>1, FlowsOfPacket DEF PassedFlowsAreClosed
<1>5. NoVerdictBeforeTheEnd' /\ PreservationIsCompared'
  BY <1>1 DEF NoVerdictBeforeTheEnd, PreservationIsCompared, NoVerdict
<1> QED
  BY <1>1, <1>2, <1>3, <1>4, <1>5 DEF E1Inv

LEMMA E1StutterInv ==
  ASSUME E1Inv, UNCHANGED e1Vars
  PROVE  E1Inv'
BY DEF e1Vars, E1Inv, E1TypeOK, AliasesAreReachable, PassedFlowsAreClosed,
       NoVerdictBeforeTheEnd, PreservationIsCompared, Closed, SeedNodes, Flows

\* The inductive invariant holds of every behaviour, whatever the packets are.
THEOREM E1Invariant == E1Spec => []E1Inv
<1>1. E1Inv /\ [E1Next]_e1Vars => E1Inv'
  BY PropagateInv, EndPassInv, PredictInv, AcquireInv, E1StutterInv DEF E1Next
<1> QED
  BY <1>1, E1InitInv, PTL DEF E1Spec

\* The variables keep their types (engine.py:85).
THEOREM E1TypeCorrect == E1Spec => []E1TypeOK
<1>1. E1Inv => E1TypeOK
  BY DEF E1Inv
<1> QED
  BY <1>1, E1Invariant, PTL

\* The loop over the flows computes the least closed set, in any order of the facts and
\* with any number of passes (engine.py:85).
THEOREM ClosureIsLeast == E1Spec => []AliasesAreReachable
<1>1. E1Inv => AliasesAreReachable
  BY DEF E1Inv
<1> QED
  BY <1>1, E1Invariant, PTL

\* Evidence of preservation compares a coordinate of the surface with a version that no
\* flow makes the same, and an engine that does not conclude asks (engine.py:128).
THEOREM PreservationComparesVersions == E1Spec => []PreservationIsCompared
<1>1. E1Inv => PreservationIsCompared
  BY DEF E1Inv
<1> QED
  BY <1>1, E1Invariant, PTL

----------------------------------------------------------------------------
(* E1: the loop ends. *)

\* What a pass may still do: names to find and whether another pass is due; flows ahead.
PassesLeft == 2 * Cardinality(E1Nodes \ aliases) + (IF closing.changed THEN 1 ELSE 0)
FlowsLeft  == Len(Flows(packet)) + 1 - closing.at

\* Every step of the loop ends it or has less left to do.
LoopDescends ==
  ~closing.done /\ ~closing'.done =>
    \/ PassesLeft' < PassesLeft
    \/ PassesLeft' = PassesLeft /\ FlowsLeft' < FlowsLeft

LEMMA PropagateDescends ==
  ASSUME IsFiniteSet(E1Nodes), E1Inv, E1Inv', Propagate PROVE LoopDescends
<1> DEFINE n == Cardinality(E1Nodes \ aliases)
           m == Cardinality(E1Nodes \ aliases')
           b == IF closing.changed THEN 1 ELSE 0
           c == IF closing'.changed THEN 1 ELSE 0
<1>1. aliases \subseteq aliases' /\ aliases' \subseteq E1Nodes /\ packet' = packet
  BY AlongGrows DEF Propagate, E1Inv, E1TypeOK
<1>2. n \in Nat /\ m \in Nat /\ (aliases' # aliases => m < n)
  <2>1. IsFiniteSet(E1Nodes \ aliases) /\ IsFiniteSet(E1Nodes \ aliases')
    BY FS_Subset
  <2>2. E1Nodes \ aliases' \subseteq E1Nodes \ aliases
    BY <1>1
  <2>3. aliases' # aliases => E1Nodes \ aliases' # E1Nodes \ aliases
    BY <1>1 DEF E1Inv, E1TypeOK
  <2> QED
    BY <2>1, <2>2, <2>3, FS_CardinalityType, FS_Subset
<1>3. closing.at \in Nat /\ closing'.at = closing.at + 1
      /\ closing'.changed = (closing.changed \/ aliases' # aliases)
  BY DEF Propagate, E1Inv, E1TypeOK
<1>4. Len(Flows(packet)) \in Nat
  BY FlowsOfPacket DEF E1Inv
<1>5. PassesLeft = 2 * n + b /\ PassesLeft' = 2 * m + c
  BY DEF PassesLeft
<1>6. b \in {0, 1} /\ c \in {0, 1} /\ (aliases' = aliases => c = b /\ m = n)
  BY <1>3
<1> HIDE DEF n, m, b, c
<1>7. CASE aliases' = aliases
  <2>1. FlowsLeft' = FlowsLeft - 1 /\ FlowsLeft \in Int
    BY <1>1, <1>3, <1>4 DEF FlowsLeft
  <2> QED
    BY <2>1, <1>5, <1>6, <1>7 DEF LoopDescends
<1>8. CASE aliases' # aliases
  <2>1. 2 * m + c < 2 * n + b
    BY <1>2, <1>6, <1>8
  <2> QED
    BY <2>1, <1>2, <1>5, <1>6 DEF LoopDescends
<1> QED
  BY <1>7, <1>8

LEMMA EndPassDescends ==
  ASSUME IsFiniteSet(E1Nodes), E1Inv, EndPass PROVE LoopDescends
<1> DEFINE n == Cardinality(E1Nodes \ aliases)
<1>1. n \in Nat
  BY FS_Subset, FS_CardinalityType
<1>2. /\ (~closing'.done => closing.changed) /\ closing'.changed = FALSE
      /\ aliases' = aliases
  BY DEF EndPass, E1Inv, E1TypeOK
<1>3. PassesLeft' = 2 * n + 0 /\ (~closing'.done => PassesLeft = 2 * n + 1)
  BY <1>2 DEF PassesLeft
<1> HIDE DEF n
<1> QED
  <2>1. ~closing'.done => PassesLeft' < PassesLeft
    BY <1>1, <1>3
  <2> QED
    BY <2>1 DEF LoopDescends

\* The loop over the flows ends after finitely many passes, in any order of the facts: it
\* makes another pass only for names it has found, and a pass takes the flows one by one
\* (risu_e1/engine.py:85).  What is left of PredictionIsReached is that the function is
\* not interrupted.
THEOREM ClosureDescends ==
  ASSUME IsFiniteSet(E1Nodes) PROVE E1Spec => [][LoopDescends]_e1Vars
<1>1. E1Inv /\ E1Inv' /\ [E1Next]_e1Vars => [LoopDescends]_e1Vars
  <2> SUFFICES ASSUME E1Inv, E1Inv', E1Next PROVE LoopDescends
    OBVIOUS
  <2>1. CASE Predict
    BY <2>1 DEF Predict, LoopDescends
  <2>2. CASE Acquire
    BY <2>2 DEF Acquire, E1Inv, NoVerdictBeforeTheEnd, NoVerdict, LoopDescends
  <2> QED
    BY <2>1, <2>2, PropagateDescends, EndPassDescends DEF E1Next
<1> QED
  BY <1>1, E1Invariant, PTL DEF E1Spec
=============================================================================
