------------------------------- MODULE MCCorpus -------------------------------
(* Enrollment and case builds share no state: a behaviour of this run is one or the *)
(* other, as its topic says.  Five candidates of three organizations, three of them *)
(* to be enrolled; units of the corpus that are built in different circumstances.  *)
EXTENDS Enrollment, CaseBuild

CONSTANTS c1, c2, c3, c4, c5

MCOrderKey  == c1 :> 3 @@ c2 :> 5 @@ c3 :> 6 @@ c4 :> 8 @@ c5 :> 9
MCOrg       == c1 :> "x" @@ c2 :> "x" @@ c3 :> "x" @@ c4 :> "y" @@ c5 :> "z"
MCStratum   == c1 :> "agent" @@ c2 :> "plain" @@ c3 :> "plain" @@ c4 :> "plain" @@ c5 :> "agent"
MCMechanism == c1 :> "etag" @@ c2 :> "etag" @@ c3 :> "commit" @@ c4 :> "commit" @@ c5 :> "etag"
MCFirstPool == <<c1, c2, c3, c5>>

Phase(status, wall, active) ==
  [status |-> status, wall |-> wall, active |-> active, notes |-> FALSE, corrections |-> 0]
Ledger(runtime, frozen) ==
  [candidate |-> c1,
   phases |-> [verification_runtime |-> runtime, other_phase |-> Phase("IN_PROGRESS", 1, Unset)],
   resultFrozen |-> frozen]
MCLedgers ==
  {Ledger(Phase("COMPLETE", 2, 1), TRUE), Ledger(Phase("COMPLETE", 1, 2), TRUE),
   Ledger(Phase("IN_PROGRESS", Unset, Unset), FALSE), Ledger(Phase("IN_PROGRESS", 1, Unset), TRUE),
   Ledger(Phase("BLOCKED", Unset, Unset), FALSE)}

CONSTANTS e1, e2, q1, s1, s2, b1, b2, fact, use, claim, f1

Ev(i, p, d)  == [id |-> i, kind |-> "EVIDENCE", sealed |-> FALSE, path |-> p, digest |-> d]
Qu(i, p, d)  == [id |-> i, kind |-> "QUALIFICATION", sealed |-> TRUE, path |-> p, digest |-> d]

Derives == {<<use, "DERIVES", claim>>}
Used    == {<<fact, "USES", use>>}
Env(bindings, edges) ==
  [bindings |-> bindings, nodes |-> Nodes, edges |-> edges, roots |-> {claim},
   facts |-> {[id |-> f1, established |-> TRUE, required |-> TRUE, node |-> fact]}]

Whole    == Env(<<Ev(1, e1, b1), Qu(2, q1, b2)>>, Derives \cup Used)
Wider    == Env(<<Ev(1, e1, b1), Ev(2, e2, b1)>>, Derives \cup Used)
Apart    == Env(<<Ev(1, e1, b1), Qu(2, q1, b2)>>, Derives)
SamePath == Env(<<Ev(1, e1, b1), Ev(2, e1, b2)>>, Derives \cup Used)
Detour   == Env(<<Ev(1, e1, b1)>>, Derives \cup {<<fact, "USES", claim>>})

Frozen(x, y)      == s1 :> x @@ s2 :> y
Retained(x, y, z) == e1 :> x @@ e2 :> y @@ q1 :> z
Overlaid(e) ==
  [envelope |-> e, node |-> use, root |-> claim, facts |-> {f1},
   expected |-> Used]

Unit(es, frozen, retained) ==
  [accepted |-> TRUE, envelopes |-> es, frozen |-> frozen, retained |-> retained,
   overlay |-> None, edits |-> FALSE, shared |-> FALSE]

PlainUnit == Unit({Whole}, Frozen(b1, None), Retained(b2, b1, b2))
MCUnits ==
  LET plain == PlainUnit IN
  {plain,
   [plain EXCEPT !.shared = TRUE, !.edits = TRUE],
   [plain EXCEPT !.envelopes = {Whole, Wider}, !.edits = TRUE],
   [plain EXCEPT !.envelopes = {Whole, Wider}],
   [plain EXCEPT !.frozen = Frozen(b1, b1)],
   [plain EXCEPT !.retained = Retained(None, b2, b1)],
   [plain EXCEPT !.envelopes = {SamePath}, !.frozen = Frozen(b1, b2)],
   [plain EXCEPT !.envelopes = {Apart}],
   [plain EXCEPT !.envelopes = {Apart}, !.overlay = Overlaid(Apart)],
   [plain EXCEPT !.envelopes = {Apart, Detour}, !.overlay = Overlaid(Apart), !.edits = TRUE],
   [plain EXCEPT !.envelopes = {Detour}, !.overlay = Overlaid(Detour)],
   [plain EXCEPT !.envelopes = {Detour}, !.overlay = [Overlaid(Detour) EXCEPT !.expected = Derives]]}

VARIABLE topic

CorpusInit ==
  /\ EnrollInit /\ CaseInit
  /\ \/ topic = "build"
     \/ topic = "enroll" /\ <<unit, envelope>> = <<PlainUnit, Whole>>
CorpusNext ==
  /\ \/ topic = "enroll" /\ EnrollNext /\ UNCHANGED caseVars
     \/ topic = "build" /\ CaseNext /\ UNCHANGED enrollVars
  /\ UNCHANGED topic
CorpusSpec == CorpusInit /\ [][CorpusNext]_<<enrollVars, caseVars, topic>>
=============================================================================
