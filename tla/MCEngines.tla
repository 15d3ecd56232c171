------------------------------ MODULE MCEngines ------------------------------
(* The mutation control, the E0 and the E1 engine share no state: a behaviour of this *)
(* run is one of the three, as its topic says.                                        *)
EXTENDS MutationControl, E0Engine, E1Engine

CONSTANTS v0, v1, v2, reviewed, expected, observed, current

(* The mutation control: plans with fit and unfit seeds. *)
SeedOf(inst) ==
  [instance |-> inst, staleAt |-> v1, calibration |-> TRUE, display |-> TRUE,
   edgesReversible |-> TRUE, factsReversible |-> TRUE]
With(pattern) ==
  SeedOf([domain |-> {v0, v1}, reviewed |-> {v0}, extra |-> {TRUE}, admissible |-> Worlds,
          anchor |-> v0, pattern |-> pattern])
Fit == With("PRESERVED_COMPARE")
PlanOf(s, t) == [seeds |-> <<s, t>>, operators |-> Positives \cup Negatives]
\* A sound detector, one that is wrong in D, one in the witness, and one that may call a
\* loss preserved and an unchanged target a loss.
MCDetectors == {{}, {"d"}, {"witness"}, {"status", "exact"}}
\* A plan with fit seeds, one with unfit seeds of which the second does not compile, and
\* one with too few operators.
MCPlans ==
  {PlanOf(Fit, Fit),
   PlanOf([With("OMITTED_REVIEWED_GUARD") EXCEPT
             !.edgesReversible = FALSE, !.display = FALSE, !.factsReversible = FALSE],
          [With("WRONG_VALIDATOR_REJECT_PATH") EXCEPT !.calibration = FALSE]),
   [PlanOf(Fit, Fit) EXCEPT !.operators = Positives]}

(* E0: every calibration over three versions, and a machine-first session. *)
\* Worlds with a version and a tenant, as in the tests of the engine.
Seen(w, t) == [current |-> w, tenant |-> t]
ThreeWorlds == {Seen(v0, "A"), Seen(v1, "A"), Seen(v1, "B")}
OfVersion(x, y) == [w \in ThreeWorlds |-> IF w.current = v0 THEN x ELSE y]
OfTenant(x, y) == [w \in ThreeWorlds |-> IF w.tenant = "A" THEN x ELSE y]
Always(x) == OfVersion(x, x)
Stales == OfVersion("success", "stale")
MCModel(target, reached) ==
  [worlds |-> ThreeWorlds, source |-> Stales, target |-> target,
   allowed |-> [w \in ThreeWorlds |-> {Stales[w]}], reached |-> reached]
\* A sound target, an inverted one, two collapsing ones, and one that is sound but for what
\* it also does.
MCObserved ==
  {MCModel(Stales, Always({})),
   MCModel(OfVersion("stale", "success"), Always({"stale"})),
   MCModel(OfTenant("success", "stale"), Always({})),
   MCModel(Always("same"), OfVersion({"success"}, {"stale"})),
   MCModel(Stales, Always({"success", "stale"}))}
\* The reviewed version is v0, as the anchor, or one of two; a version or a failure for
\* another reason may be inadmissible.
MCInstances ==
  [domain : SUBSET Versions, reviewed : {{v0}, {v0, v1}, {v1}}, extra : {{TRUE}, BOOLEAN},
   admissible : {Worlds, {w \in Worlds : w.extra}, {w \in Worlds : w.current # v1}},
   anchor : {v0}, pattern : Patterns]
MCSessions ==
  [kind : {"calibration", "collapsed"}, instance : MCInstances] \cup {[kind |-> "machine", instance |-> None]}

(* E1: up to three flows between the names of a reviewed version and its like. *)
MCNodes == {reviewed, expected, observed, current}
Edge(a, b) == [from |-> {a}, to |-> {b}]
MCFlows ==
  {Edge(reviewed, expected), Edge(expected, observed), Edge(reviewed, observed),
   Edge(observed, expected), Edge(observed, current)}
UpTo(n, S) == UNION {[1 .. k -> S] : k \in 0 .. n}
Deciding(cond) == [cond |-> cond, thenMutates |-> TRUE, thenStops |-> FALSE,
                   elseMutates |-> FALSE, elseStops |-> TRUE]
MCPackets ==
  {[versions |-> MCNodes \ {observed}, assignments |-> a, calls |-> c,
    comparisons |-> k, branches |-> {Deciding({observed})}, overwrites |-> o,
    mutates |-> TRUE, unparsed |-> FALSE] :
      a \in UpTo(2, MCFlows), c \in UpTo(1, {Edge(expected, observed)}),
      k \in {{}, {{observed, current}}, {{expected, current}}},
      o \in {{}, {expected}}}
  \cup
  {[versions |-> {current}, assignments |-> <<>>, calls |-> <<>>,
    comparisons |-> {{observed, current}}, branches |-> {}, overwrites |-> {},
    mutates |-> TRUE, unparsed |-> TRUE]}

VARIABLE topic

\* The variables of the three have their types.
EnginesTypeOK == ControlTypeOK /\ E0TypeOK /\ E1TypeOK

ControlRest == plan = PlanOf(Fit, Fit) /\ detector = {}
E0Rest == session = [kind |-> "machine", instance |-> None]
E1Rest ==
  /\ packet = CHOOSE p \in MCPackets : p.unparsed
  /\ aliases = {} /\ verdict = NoVerdict
  /\ closing = [at |-> 1, changed |-> FALSE, done |-> TRUE]

EnginesInit ==
  \/ topic = "control" /\ ControlInit /\ E0Init /\ E0Rest /\ E1Rest
  \/ topic = "e0" /\ E0Init /\ ControlInit /\ ControlRest /\ E1Rest
  \/ topic = "e1" /\ E1Init /\ E0Init /\ E0Rest /\ ControlInit /\ ControlRest
EnginesNext ==
  /\ \/ topic = "control" /\ ControlNext /\ UNCHANGED <<e0Vars, e1Vars>>
     \/ topic = "e0" /\ E0Next /\ UNCHANGED <<controlVars, e1Vars>>
     \/ topic = "e1" /\ E1Next /\ UNCHANGED <<controlVars, e0Vars>>
  /\ UNCHANGED topic
EnginesSpec ==
  /\ EnginesInit /\ [][EnginesNext]_<<controlVars, e0Vars, e1Vars, topic>>
  /\ WF_e1Vars(topic = "e1" /\ (Propagate \/ EndPass \/ Predict) /\ UNCHANGED <<controlVars, e0Vars, topic>>)
=============================================================================
