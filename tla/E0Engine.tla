------------------------------ MODULE E0Engine -------------------------------
(***************************************************************************)
(* The RISU E0 engine (src/risu_e0): a consequence graph with its evidence  *)
(* rule, the search for a witness, the prediction, the refinement requests  *)
(* and the calibration adapters.                                            *)
(*                                                                         *)
(* A session is one client's use of the library.  A calibration evaluates   *)
(* a VBE instance as it is, or with a collapsed discriminator.  A           *)
(* machine-first session starts from the candidate graph, where nothing is  *)
(* established, and answers refinement requests with evidence; answering    *)
(* them is up to the client, who may forget the evidence references.        *)
(***************************************************************************)
EXTENDS VbeProgram

CONSTANTS
  Observed, \* what a machine-first session may observe of its target: records as in ModelOf
  Sessions  \* the calibrations and machine-first sessions: [kind, instance]

Nodes == {"authoritative", "current", "guard", "effect", "stale_outcome"}
Edges == {"binds", "compares", "guards", "rejects"}
Items == Nodes \cup Edges
Marks == {"absent", "UNRESOLVED", "ESTABLISHED", "unevidenced"} \* the last: ESTABLISHED without evidence
Graphs == [Items -> Marks]

\* A world is a function on its coordinates.  A model says what the source requires and
\* the target shows in each, and which consequences they allow and have.
Models(worlds) ==
  [worlds : {worlds}, source : [worlds -> Consequences], target : [worlds -> Effects \cup {"same"}],
   allowed : [worlds -> SUBSET Consequences], reached : [worlds -> SUBSET Consequences]]

\* The worlds of a model have the same coordinates, finitely many.
ASSUME E0Constants ==
  /\ \A m \in Observed :
       /\ m \in Models(m.worlds)
       /\ \A v, w \in m.worlds :
            IsFiniteSet(DOMAIN v) /\ DOMAIN v = DOMAIN w /\ v = [k \in DOMAIN v |-> v[k]]
  /\ Sessions \subseteq [kind : {"calibration", "collapsed"}, instance : Instances]
                        \cup [kind : {"machine"}, instance : {None}]

VARIABLES
  session, \* the session, fixed
  model,   \* the worlds it has observed
  graph,   \* its consequence graph
  facts,   \* what the client says: is refinement complete, is the material nonempty
  answer   \* the last result of evaluate_vbe for this graph and model, None before it

e0Vars == <<session, model, graph, facts, answer>>

----------------------------------------------------------------------------
(* Witnesses. *)

DifferingIn(v, w) == {k \in DOMAIN v : v[k] # w[k]}

Collapses(m) ==
  {p \in m.worlds \X m.worlds :
     m.source[p[1]] # m.source[p[2]] /\ m.target[p[1]] = m.target[p[2]]}

MinimalCollapses(m) ==
  {p \in Collapses(m) :
     \A q \in Collapses(m) :
       Cardinality(DifferingIn(p[1], p[2])) <= Cardinality(DifferingIn(q[1], q[2]))}

\* Shrinking drops the coordinates in which the two worlds agree, and keys the model of the
\* witness by what is left of them.
On(w, keys) == [k \in keys |-> w[k]]
Keyed(a, b, x, y) == [w \in {a, b} |-> IF w = a THEN x ELSE y]
\* Mutant: the model of the witness is still keyed by the whole worlds.
ShrunkInWorldsOnly(m, p) ==
  LET keys == DifferingIn(p[1], p[2])
  IN  [kind |-> "collapse", worlds |-> <<On(p[1], keys), On(p[2], keys)>>,
       source |-> <<m.source[p[1]], m.source[p[2]]>>,
       target |-> <<m.target[p[1]], m.target[p[2]]>>,
       sourceBy |-> m.source, targetBy |-> m.target]

Shrunk(m, p) ==
  LET keys == DifferingIn(p[1], p[2])
      a    == On(p[1], keys)
      b    == On(p[2], keys)
  IN  [kind |-> "collapse", worlds |-> <<a, b>>,
       source |-> <<m.source[p[1]], m.source[p[2]]>>,
       target |-> <<m.target[p[1]], m.target[p[2]]>>,
       sourceBy |-> Keyed(a, b, m.source[p[1]], m.source[p[2]]),
       targetBy |-> Keyed(a, b, m.target[p[1]], m.target[p[2]])]

Extras(m) == {w \in m.worlds : m.reached[w] \ m.allowed[w] # {}}
ExtraWitness(m, w) ==
  [kind |-> "extra", worlds |-> <<w>>, source |-> <<m.allowed[w]>>, target |-> <<m.reached[w]>>,
   sourceBy |-> m.allowed, targetBy |-> m.reached]

\* Mutant: what the target reaches is not compared with what the source allows.
WitnessesOfCollapse(m) == {Shrunk(m, p) : p \in MinimalCollapses(m)}

\* A relational witness goes before a collapse.  Which of several equally small ones it is
\* depends on how they print.
Witnesses(m) ==
  IF Extras(m) # {} THEN {ExtraWitness(m, w) : w \in Extras(m)}
  ELSE {Shrunk(m, p) : p \in MinimalCollapses(m)}

\* tools/risu_e0_witness_check.py, which shares no code with the engine.
CheckerAccepts(x) ==
  /\ \A i \in DOMAIN x.worlds :
       /\ x.worlds[i] \in DOMAIN x.sourceBy \cap DOMAIN x.targetBy
       /\ x.source[i] = x.sourceBy[x.worlds[i]] /\ x.target[i] = x.targetBy[x.worlds[i]]
  /\ x.kind = "collapse" =>
       /\ x.worlds[1] # x.worlds[2]
       /\ x.source[1] # x.source[2] /\ x.target[1] = x.target[2]
  /\ x.kind = "extra" => x.target[1] \ x.source[1] # {}

----------------------------------------------------------------------------
(* Graphs and predictions. *)

\* Every item of these graphs is of a material kind, which needs evidence to be established.
ValidGraph(g) == \A i \in Items : g[i] # "unevidenced"

Obligations(g) == [i \in Items |-> g[i] = "ESTABLISHED"]
Unmet(g) == {i \in Items : ~Obligations(g)[i]}

\* The requests of refinement_requests are the unmet obligations.
Predictions(m, g, f) ==
  LET found == Witnesses(m)
      As(prediction, witness) ==
        [prediction |-> prediction, witness |-> witness, requests |-> Unmet(g)]
  IN  IF ~ValidGraph(g) THEN {As("INVALID", None)}
      ELSE IF found # {} THEN {As("REGRESSION", x) : x \in found}
      ELSE IF ~f.material \/ ~f.complete \/ Unmet(g) # {} THEN {As("INCOMPLETE", None)}
      ELSE {As("STABLE", None)}

----------------------------------------------------------------------------
(* Calibrations. *)

CandidateGraph == [i \in Items |-> IF i \in Nodes THEN "UNRESOLVED" ELSE "absent"]

GraphOf(inst) ==
  [i \in Items |->
     IF inst.pattern = "PRESERVED_COMPARE" \/ i \in Nodes \ {"guard"} THEN "ESTABLISHED"
     ELSE IF i = "guard" THEN "UNRESOLVED" ELSE "absent"]

WorldAt(v) == [current |-> v]
Unseen == [worlds |-> {}, source |-> <<>>, target |-> <<>>, allowed |-> <<>>, reached |-> <<>>]

\* The adapter has its own idea of what the source requires: it looks at no admissibility,
\* and at the anchor also where the compiled source has a reviewed coordinate.
SourceShows(inst, w) == IF w.current = inst.anchor THEN "success" ELSE "stale"

\* Mutant: a guarded target is taken for an unguarded one.
TargetShowsUnguarded(inst, w) ==
  IF inst.pattern = "WRONG_VALIDATOR_REJECT_PATH" THEN "stale" ELSE "success"

TargetShows(inst, w) ==
  IF inst.pattern = "PRESERVED_COMPARE" THEN SourceShows(inst, w)
  ELSE IF inst.pattern = "OMITTED_REVIEWED_GUARD" THEN "success" ELSE "stale"

ModelOf(inst, collapsed) ==
  LET worlds == {WorldAt(v) : v \in inst.domain}
  IN  [worlds  |-> worlds,
       source  |-> [w \in worlds |-> SourceShows(inst, w)],
       target  |-> [w \in worlds |-> IF collapsed THEN "same" ELSE TargetShows(inst, w)],
       allowed |-> [w \in worlds |-> {}],
       reached |-> [w \in worlds |-> {}]]

----------------------------------------------------------------------------
(* Sessions. *)

E0Init ==
  /\ session \in Sessions
  /\ answer = None
  /\ IF session.kind = "machine"
     THEN /\ model = Unseen /\ graph = CandidateGraph
          /\ facts = [complete |-> FALSE, material |-> TRUE]
     ELSE /\ model = ModelOf(session.instance, session.kind = "collapsed")
          /\ graph = GraphOf(session.instance)
          /\ facts = [complete |-> \/ session.kind = "collapsed"
                                   \/ session.instance.pattern = "PRESERVED_COMPARE",
                      material |-> TRUE]

EvaluateVbe ==
  /\ answer = None
  /\ answer' \in Predictions(model, graph, facts)
  /\ UNCHANGED <<session, model, graph, facts>>

Revised == session.kind = "machine" /\ answer # None /\ answer' = None /\ UNCHANGED session

\* The client answers a request; a graph it spoiled that way it has to repair.
Answer(i) ==
  /\ Revised
  /\ IF answer.prediction = "INVALID"
     THEN graph[i] = "unevidenced" /\ graph' = [graph EXCEPT ![i] = CandidateGraph[i]]
     ELSE i \in answer.requests /\ \E e \in {"ESTABLISHED", "unevidenced"} : graph' = [graph EXCEPT ![i] = e]
  /\ UNCHANGED <<model, facts>>

Observe ==
  /\ Revised /\ model = Unseen /\ model' \in Observed
  /\ UNCHANGED <<graph, facts>>

Declare ==
  /\ Revised
  /\ facts' \in [complete : BOOLEAN, material : BOOLEAN] \ {facts}
  /\ UNCHANGED <<model, graph>>

E0Next == EvaluateVbe \/ (\E i \in Items : Answer(i)) \/ Observe \/ Declare
E0Spec == E0Init /\ [][E0Next]_e0Vars

----------------------------------------------------------------------------
(* Properties. *)

Answered(prediction) == answer # None /\ answer.prediction = prediction

\* The variables have their types.
E0TypeOK ==
  /\ session \in Sessions /\ graph \in Graphs
  /\ facts \in [complete : BOOLEAN, material : BOOLEAN]
  /\ answer # None =>
       /\ answer.prediction \in {"INVALID", "REGRESSION", "INCOMPLETE", "STABLE"}
       /\ answer.requests \subseteq Items
       /\ answer.prediction # "REGRESSION" => answer.witness = None

\* Of a valid graph the engine predicts a regression exactly if what the target shows does
\* not determine what the source requires, or the target reaches more than the source
\* allows, however well the graph is established and whatever the client declares.
Determined(m) ==
  \E read \in [Effects \cup {"same"} -> Consequences] :
    \A w \in m.worlds : m.source[w] = read[m.target[w]]
RegressionIffUndetermined ==
  answer # None /\ ~Answered("INVALID") =>
    (Answered("REGRESSION") <=>
       ~Determined(model) \/ \E w \in model.worlds : ~(model.reached[w] \subseteq model.allowed[w]))

\* The witness of a regression, shrunk, convinces the independent checker, and the worlds
\* of a collapse agree in none of the coordinates that are left.
WitnessStandsAlone ==
  Answered("REGRESSION") =>
    /\ CheckerAccepts(answer.witness)
    /\ answer.witness.kind = "collapse" =>
         \A k \in DOMAIN answer.witness.worlds[1] :
           answer.witness.worlds[1][k] # answer.witness.worlds[2][k]

\* A machine-first session reaches stability only by evidence for every single item, and a
\* session without requests left is incomplete only by the client's own word.
StableByEvidence ==
  /\ Answered("STABLE") => graph = [i \in Items |-> "ESTABLISHED"] /\ facts.complete /\ facts.material
  /\ Answered("INCOMPLETE") /\ answer.requests = {} => ~facts.complete \/ ~facts.material

\* Both together: what the engine predicts is warranted by the model and the graph.
PredictionIsWarranted == RegressionIffUndetermined /\ StableByEvidence

\* The engine and the frozen core agree on a calibration whose reviewed version can only be
\* the anchor and in which every version occurs in an admissible world, as in all that the
\* repository has: the target of a stable one realizes its source and discriminates, the
\* target of a regression does not realize it, and an incomplete one is of a pattern
\* without a reviewed guard.  Of other instances nothing is claimed: the engine looks at the
\* anchor and at no admissibility (a preserved comparison with two reviewed versions is
\* stable to the engine and a regression to the core).
SeenAlike(inst) ==
  inst.reviewed = {inst.anchor} /\ \A v \in inst.domain : \E w \in WorldsOf(inst) : w.current = v
CalibrationIsSound ==
  session.kind = "calibration" /\ answer # None /\ SeenAlike(session.instance) =>
    LET inst == session.instance
        lost == Mismatches(inst, ProgramOf[inst.pattern])
    IN  /\ answer.prediction \in {"STABLE", "REGRESSION", "INCOMPLETE"}
        /\ Answered("STABLE") => lost = {} /\ Discriminates(inst, ProgramOf[inst.pattern])
        /\ Answered("REGRESSION") => lost # {}
        /\ Answered("INCOMPLETE") => inst.pattern # "PRESERVED_COMPARE"
=============================================================================
