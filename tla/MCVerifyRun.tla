----------------------------- MODULE MCVerifyRun -----------------------------
(* Small instances of the pipeline for TLC. *)
EXTENDS VerifyRunRefines, FiniteSets, TLC

CONSTANTS p1, p2, d1, d2, a1, a2, a3, a4, k1, k2, c1

MCIds == {"CASE-001"}
MCContracts == {c1}
MCPins == {k1, k2}

\* a1 preserves, a2 is a regression, a3 is written but not accepted by the
\* consumer, a4 is rejected by the producer after it wrote the certificate.
Facts(producer, sound, exact, c1d1o1, coverage) ==
  [producer |-> producer, sound |-> sound, contract |-> c1,
   exact |-> exact, c1d1o1 |-> c1d1o1, coverage |-> coverage]

MCAssurances == {a1, a2, a3, a4}
MCCore ==
  a1 :> Facts("accepts", TRUE, "ESTABLISHED", TRUE, FALSE) @@
  a2 :> Facts("accepts", TRUE, "CONTRADICTED", FALSE, TRUE) @@
  a3 :> Facts("accepts", FALSE, "ESTABLISHED", TRUE, TRUE) @@
  a4 :> Facts("rejects", FALSE, "UNKNOWN", FALSE, FALSE)

Plain(a) ==
  [id |-> "CASE-001", corePinned |-> TRUE, adapter |-> TRUE, assurance |-> a,
   prePin |-> None, preFile |-> None, provPin |-> None, provFile |-> None, provPass |-> FALSE]
Pinned(a, prePin, preFile, provPin, provFile, pass) ==
  [Plain(a) EXCEPT !.prePin = prePin, !.preFile = preFile,
                   !.provPin = provPin, !.provFile = provFile, !.provPass = pass]

AllCases ==
  1 :> Plain(a1) @@
  2 :> Pinned(a2, k1, k1, k2, k2, TRUE) @@
  3 :> Plain(a3) @@
  4 :> Plain(a4) @@
  5 :> Pinned(a1, k1, k2, k2, k2, TRUE) @@    \* predeclaration edited
  6 :> Pinned(a1, k1, k1, k2, k2, FALSE) @@   \* provenance does not replay
  7 :> [Plain(a1) EXCEPT !.corePinned = FALSE] @@
  8 :> [Plain(a1) EXCEPT !.adapter = FALSE]

MCCase == [r \in Revs |-> AllCases[r]]

LockOf(a, policy, version, pins, sealed) ==
  [version |-> version, id |-> "CASE-001", policy |-> policy,
   commit |-> [assurance |-> a, status |-> Classify(a)], commitSealed |-> sealed,
   pins |-> pins, pinsSealed |-> TRUE]
NoPins == [pre |-> None, prov |-> None]

\* A regression relabelled as a gate, an old lock and one whose digest is wrong.
MCForeignLocks ==
  {LockOf(a2, Gate, "0.2", [pre |-> k1, prov |-> k2], TRUE),
   LockOf(a1, Gate, "0.1", NoPins, TRUE),
   LockOf(a1, Gate, "0.2", NoPins, FALSE)}

SoloDir == p1 :> d1
PairDir == p1 :> d1 @@ p2 :> d2
SharedDir == p1 :> d1 @@ p2 :> d1

OnlyVerify == [p \in Runs |-> {"verify"}]
EveryCommand == [p \in Runs |-> {"verify", "lock", "check"}]
LockerAndChecker == p1 :> {"lock"} @@ p2 :> {"check"}

GateRevs == 1..8
\* One accepted certificate, and one only the producer accepts.
RaceRevs == {1, 3}
=============================================================================
