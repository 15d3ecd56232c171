------------------------------ MODULE E1Engine -------------------------------
(***************************************************************************)
(* The RISU E1 engine (src/risu_e1): from the typed facts of a packet it     *)
(* closes the aliases of the surface's version coordinates under flows,      *)
(* assembles the five material roles, predicts, and asks for more evidence.  *)
(*                                                                         *)
(* The extractors that produce facts are external: a packet is the record of *)
(* facts they may find.  A node is a name in a scope; scopes are function    *)
(* names, so functions of one name in two files share their nodes.          *)
(***************************************************************************)
EXTENDS Naturals, Sequences

CONSTANTS
  E1Nodes,    \* [scope, name] pairs that occur in the facts
  Versionish, \* the nodes with a version-like name
  OnSurface,  \* those whose name matches a version argument of the surface
  Packets     \* the facts of a packet, see PacketRecords

Flow == [from : SUBSET E1Nodes, to : SUBSET E1Nodes]
Branch == [cond : SUBSET E1Nodes, thenMutates : BOOLEAN, thenStops : BOOLEAN,
           elseMutates : BOOLEAN, elseStops : BOOLEAN]
\* A call has a flow for every argument that has a parameter at its place in the callee.
PacketRecords ==
  [versions : SUBSET E1Nodes, assignments : Seq(Flow), calls : Seq(Flow),
   comparisons : SUBSET SUBSET E1Nodes, branches : SUBSET Branch,
   overwrites : SUBSET E1Nodes, mutates : BOOLEAN, unparsed : BOOLEAN]

ASSUME E1Constants ==
  /\ Packets \subseteq PacketRecords
  /\ OnSurface \subseteq Versionish /\ Versionish \subseteq E1Nodes

VARIABLES
  packet,   \* the facts in hand
  aliases,  \* the closure as far as it is computed
  closing,  \* the loop: the position in the pass, whether the pass has added anything
  verdict   \* E1_PREDICTION and the requests, after the loop

e1Vars == <<packet, aliases, closing, verdict>>

Roles == {"authoritative_version_coordinate", "current_version_at_effect_coordinate",
          "binding_or_compare_guard", "declared_effect", "stale_mismatch_outcome_or_interpreter"}
NoVerdict == [prediction |-> "none", requests |-> {}]

\* Version facts whose name matches the surface seed the closure.
SeedNodes(p) == p.versions \cap OnSurface
Flows(p) == p.assignments \o p.calls

E1Init ==
  /\ packet \in Packets
  /\ aliases = SeedNodes(packet)
  /\ closing = [at |-> 1, changed |-> FALSE, done |-> FALSE]
  /\ verdict = NoVerdict

----------------------------------------------------------------------------
(* The closure: passes over all flows, assignments first, until one adds nothing. *)

Along(flow, nodes) == IF flow.from \cap nodes # {} THEN nodes \cup flow.to ELSE nodes

Propagate ==
  /\ ~closing.done /\ closing.at \in DOMAIN Flows(packet)
  /\ aliases' = Along(Flows(packet)[closing.at], aliases)
  /\ closing' = [at |-> closing.at + 1, changed |-> closing.changed \/ aliases' # aliases,
                 done |-> FALSE]
  /\ UNCHANGED <<packet, verdict>>

\* Mutants: one pass is enough; a pass that starts remembers the changes of the last one;
\* a pass starts before the first flow.
EndOnlyPass ==
  /\ ~closing.done /\ closing.at = Len(Flows(packet)) + 1
  /\ closing' = [at |-> 1, changed |-> FALSE, done |-> TRUE]
  /\ UNCHANGED <<packet, aliases, verdict>>
EndPassStillChanged ==
  /\ ~closing.done /\ closing.at = Len(Flows(packet)) + 1
  /\ closing' = [at |-> 1, changed |-> closing.changed, done |-> ~closing.changed]
  /\ UNCHANGED <<packet, aliases, verdict>>
EndPass ==
  /\ ~closing.done /\ closing.at = Len(Flows(packet)) + 1
  /\ closing' = [at |-> 1, changed |-> FALSE, done |-> ~closing.changed]
  /\ UNCHANGED <<packet, aliases, verdict>>

----------------------------------------------------------------------------
(* Roles and prediction. *)

\* Mutant: an alias compared with another alias counts.
AgainstAny(compared) ==
  IF compared \cap aliases # {} THEN compared \cap Versionish ELSE {}

\* What a comparison sets an alias against: version-like nodes that are no aliases.
Against(compared) ==
  IF compared \cap aliases # {} THEN (compared \ aliases) \cap Versionish ELSE {}
Guards  == {c \in packet.comparisons : Against(c) # {}}
Current == UNION {Against(c) : c \in packet.comparisons}

\* A branch on a coordinate that mutates on one side and stops on the other.
Decisive ==
  {b \in packet.branches :
     /\ b.cond \cap (aliases \cup Current) # {}
     /\ \/ b.thenMutates /\ b.elseStops
        \/ b.elseMutates /\ b.thenStops}

Supported ==
  {r \in Roles :
     \/ r = "authoritative_version_coordinate" /\ packet.versions \cap aliases # {}
     \/ r = "current_version_at_effect_coordinate" /\ packet.versions \cap Current # {}
     \/ r = "binding_or_compare_guard" /\ Guards # {}
     \/ r \in {"declared_effect", "stale_mismatch_outcome_or_interpreter"} /\ Decisive # {}}

RegressionWitness == packet.overwrites \cap aliases # {} /\ packet.mutates /\ Guards = {}

Predict ==
  /\ closing.done /\ verdict = NoVerdict
  /\ verdict' =
       [prediction |-> IF RegressionWitness THEN "REGRESSION_WITNESS"
                       ELSE IF Supported = Roles /\ ~packet.unparsed THEN "PRESERVATION_EVIDENCE"
                       ELSE "INCOMPLETE",
        requests |-> (Roles \ Supported) \cup (IF packet.unparsed THEN {"parse"} ELSE {})]
  /\ UNCHANGED <<packet, aliases, closing>>

\* More evidence, acquired to answer a request, makes a new packet and a new run.
Wider(p, q) ==
  /\ p.versions \subseteq q.versions /\ p.comparisons \subseteq q.comparisons
  /\ p.branches \subseteq q.branches /\ p.overwrites \subseteq q.overwrites
  /\ \A i \in DOMAIN Flows(p) : \E j \in DOMAIN Flows(q) : Flows(p)[i] = Flows(q)[j]
  /\ p.mutates => q.mutates
Acquire ==
  /\ verdict.requests # {}
  /\ packet' \in {q \in Packets : q # packet /\ Wider(packet, q)}
  /\ aliases' = SeedNodes(packet')
  /\ closing' = [at |-> 1, changed |-> FALSE, done |-> FALSE]
  /\ verdict' = NoVerdict

E1Next == Propagate \/ EndPass \/ Predict \/ Acquire
E1Spec == E1Init /\ [][E1Next]_e1Vars /\ WF_e1Vars(Propagate \/ EndPass \/ Predict)

----------------------------------------------------------------------------
(* Properties. *)

\* The variables have their types.
E1TypeOK ==
  /\ aliases \subseteq E1Nodes
  /\ closing \in [at : Nat, changed : BOOLEAN, done : BOOLEAN]
  /\ closing.at \in 1 .. Len(Flows(packet)) + 1
  /\ verdict.prediction \in {"none", "REGRESSION_WITNESS", "PRESERVATION_EVIDENCE", "INCOMPLETE"}
  /\ verdict.requests \subseteq Roles \cup {"parse"}

\* The aliases are the least set of nodes that has the seeds and is closed under every
\* flow, whatever order the facts come in.
Closed(nodes) ==
  \A i \in DOMAIN Flows(packet) : Along(Flows(packet)[i], nodes) \subseteq nodes
AliasesAreReachable ==
  /\ SeedNodes(packet) \subseteq aliases
  /\ closing.done => Closed(aliases)
  /\ \A nodes \in SUBSET E1Nodes : SeedNodes(packet) \subseteq nodes /\ Closed(nodes) => aliases \subseteq nodes

\* Evidence of preservation rests on a coordinate of the surface that is compared with
\* another version, never on two names of the same one; an engine that does not conclude
\* names what it lacks, and one that does not see the whole packet never reports
\* preservation.
PreservationIsCompared ==
  /\ verdict.prediction = "PRESERVATION_EVIDENCE" =>
       /\ SeedNodes(packet) # {} /\ ~packet.unparsed
       /\ \E c \in packet.comparisons :
            \E nodes \in SUBSET E1Nodes :
              /\ SeedNodes(packet) \subseteq nodes /\ Closed(nodes)
              /\ c \cap aliases # {} /\ ~(c \subseteq nodes)
  /\ verdict.prediction = "INCOMPLETE" => verdict.requests # {}

\* Every run of the engine reaches its prediction: the closure ends.
PredictionIsReached == closing.done = FALSE ~> verdict # NoVerdict
=============================================================================
