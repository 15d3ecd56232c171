-------------------------- MODULE MCWorkbenchExport --------------------------
(* Small instances of the exporter next to one verification process. *)
EXTENDS WorkbenchExport, TLC

CONSTANTS p1, d1, a1, a2, a3, c1, c2

MCIds == {"CASE-001"}
MCContracts == {c1, c2}

\* a1 preserves, a2 is an incomplete result for another source contract, a3 is written
\* but not accepted by the consumer.
Facts(sound, contract, exact) ==
  [producer |-> "accepts", sound |-> sound, contract |-> contract, exact |-> exact,
   c1d1o1 |-> exact = "ESTABLISHED", coverage |-> TRUE]
MCAssurances == {a1, a2, a3}
MCCore ==
  a1 :> Facts(TRUE, c1, "ESTABLISHED") @@
  a2 :> Facts(TRUE, c2, "UNKNOWN") @@
  a3 :> Facts(FALSE, c1, "ESTABLISHED")

Revision(a) ==
  [id |-> "CASE-001", corePinned |-> TRUE, adapter |-> TRUE, assurance |-> a,
   prePin |-> None, preFile |-> None, provPin |-> None, provFile |-> None, provPass |-> FALSE]
TwoRevs == {1, 2}
AllCases ==
  1 :> Revision(a1) @@ 2 :> Revision(a2) @@ 3 :> Revision(a3)
MCCase == [r \in Revs |-> AllCases[r]]
MCDir == p1 :> d1
OnlyVerify == [p \in Runs |-> {"verify"}]

\* A good bundle, the same with its status edited, with a damaged artifact, and one
\* written while a verification of the other revision had just begun.
OldSummary ==
  [id |-> "CASE-001", commit |-> [assurance |-> a2, status |-> Incomplete], sha |-> a2,
   pins |-> [pre |-> None, prov |-> None]]
OldFiles ==
  [cert |-> a2, logs |-> a2, report |-> OldSummary, markdown |-> OldSummary,
   manifest |-> [id |-> "CASE-001", assurance |-> a2, pins |-> OldSummary.pins, cert |-> a2,
                 report |-> OldSummary, markdown |-> OldSummary, logs |-> a2]]
MCEarlierBundles ==
  {[meta |-> Metadata(OldSummary), emb |-> OldFiles, sealed |-> TRUE],
   [meta |-> [Metadata(OldSummary) EXCEPT !.status = "PRESERVED"], emb |-> OldFiles, sealed |-> TRUE],
   [meta |-> Metadata(OldSummary), emb |-> [OldFiles EXCEPT !.cert = a1], sealed |-> FALSE],
   [meta |-> Metadata(OldSummary), emb |-> [OldFiles EXCEPT !.cert = a1], sealed |-> TRUE]}

ASSUME BundlesOfTheInstance == EarlierBundlesAgree
=============================================================================
