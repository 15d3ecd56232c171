-------------------------- MODULE VerifyRunRefines --------------------------
(***************************************************************************)
(* The pipeline with private output directories implements AssuranceGate:  *)
(* the verdict of a run is the certificate it parsed, and a directory      *)
(* publishes the certificate its report commits to.                        *)
(***************************************************************************)
EXTENDS VerifyRun

Published(d) ==
  IF out[d].report \in Summaries THEN out[d].report.commit.assurance ELSE None

Promise == INSTANCE AssuranceGate WITH
  Certificates <- Assurances,
  published <- [d \in Dirs |-> Published(d)],
  verdict <- [p \in Runs |-> run[p].cert]

\* Every step of the pipeline is a step the abstract gate allows, or none.
ImplementsGate == Promise!Spec
=============================================================================
