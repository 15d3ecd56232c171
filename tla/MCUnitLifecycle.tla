--------------------------- MODULE MCUnitLifecycle ---------------------------
(* Small instances of the life of a unit. *)
EXTENDS UnitLifecycle, TLC

CONSTANTS i1, i2, i3, i4, o1, o2

\* i1 is accepted and regresses, i2 is accepted though the audit's compile probe fails,
\* i3 is accepted but its verification fails, i4 is not accepted yet.
Fact(accepted, corpus, compiles, exit) ==
  [accepted |-> accepted, audit |-> TRUE, corpus |-> corpus, compiles |-> compiles, exit |-> exit]
AllScience ==
  i1 :> Fact(TRUE, TRUE, TRUE, 10) @@
  i2 :> [Fact(TRUE, TRUE, FALSE, 0) EXCEPT !.audit = FALSE] @@
  i3 :> Fact(TRUE, TRUE, TRUE, 30) @@
  i4 :> Fact(FALSE, FALSE, FALSE, 0)
MCScience == [i \in Inputs |-> AllScience[i]]

\* An author's own checkout; an author who acts while a tool runs; the workflow.
OwnCheckout ==
  [handEdits |-> TRUE, duringRun |-> FALSE, fresh |-> FALSE,
   inputs |-> {i1, i3}, others |-> {o1, o2}, commits |-> 2]
BusyAuthor ==
  [handEdits |-> FALSE, duringRun |-> TRUE, fresh |-> FALSE,
   inputs |-> {i1, i2}, others |-> {o1}, commits |-> 2]
Workflow ==
  [handEdits |-> FALSE, duringRun |-> FALSE, fresh |-> TRUE,
   inputs |-> {i1, i4}, others |-> {o1}, commits |-> 3]
PlainWork ==
  [handEdits |-> FALSE, duringRun |-> FALSE, fresh |-> FALSE,
   inputs |-> {i1}, others |-> {o1}, commits |-> 2]

MCWays == {OwnCheckout, BusyAuthor, Workflow}
PlainWays == {PlainWork}
=============================================================================
