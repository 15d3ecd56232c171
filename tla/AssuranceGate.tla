---------------------------- MODULE AssuranceGate ----------------------------
(***************************************************************************)
(* What the pipeline of src/risu_verify.py promises, without its steps:    *)
(* a certificate is accepted by the independent consumer first, and only   *)
(* an accepted certificate is ever published in a report, committed by a   *)
(* lock, or returned as the verdict of an invocation.                      *)
(***************************************************************************)
CONSTANTS Runs, Dirs, Certificates, None

VARIABLES
  accepted,   \* the certificates the consumer has accepted
  published,  \* [Dirs -> Certificates \cup {None}]: what the report states
  verdict     \* [Runs -> Certificates \cup {None}]: what a run has derived

vars == <<accepted, published, verdict>>

Init ==
  /\ accepted = {}
  /\ published = [d \in Dirs |-> None]
  /\ verdict = [p \in Runs |-> None]

Accept(c) ==
  /\ accepted' = accepted \cup {c}
  /\ UNCHANGED <<published, verdict>>

\* A run derives its status from a certificate accepted before.
Derive(p, c) ==
  /\ verdict[p] = None
  /\ c \in accepted
  /\ verdict' = [verdict EXCEPT ![p] = c]
  /\ UNCHANGED <<accepted, published>>

\* Only the certificate a run has derived its status from is published.
Publish(p, d) ==
  /\ verdict[p] # None
  /\ published' = [published EXCEPT ![d] = verdict[p]]
  /\ UNCHANGED <<accepted, verdict>>

\* A run ends or dies; its death may destroy the report it was writing.
Forget(p) ==
  /\ verdict' = [verdict EXCEPT ![p] = None]
  /\ \/ UNCHANGED published
     \/ \E d \in Dirs : published' = [published EXCEPT ![d] = None]
  /\ UNCHANGED accepted

Next ==
  \/ \E c \in Certificates : Accept(c)
  \/ \E p \in Runs, c \in Certificates : Derive(p, c)
  \/ \E p \in Runs, d \in Dirs : Publish(p, d)
  \/ \E p \in Runs : Forget(p)

Spec == Init /\ [][Next]_vars
=============================================================================
