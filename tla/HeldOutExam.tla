----------------------------- MODULE HeldOutExam -----------------------------
(***************************************************************************)
(* What the examination of a held-out unit promises                        *)
(* (experiments/unit003-blind-machine-first/                               *)
(* EXAM_PROTOCOL_EFFECTIVE_001.json), without its tools, files and         *)
(* failures: an examination is begun with one packet for good, its seal is *)
(* the one of that packet or damaged, and what is attested of it is what   *)
(* was verified of that packet.                                            *)
(***************************************************************************)
CONSTANTS Exams, Packets, None, Torn

VARIABLES
  begunWith,  \* [Exams -> Packets \cup {None}]: the packet an examination was begun with
  seal,       \* [Exams -> Packets \cup {None, Torn}]: the seal of its artifacts
  verified,   \* [Exams -> Packets \cup {None}]: the first seal that verified
  attested    \* the packet, the seal and the sealed artifacts of the record, or None

vars == <<begunWith, seal, verified, attested>>

Init ==
  /\ begunWith = [e \in Exams |-> None]
  /\ seal = [e \in Exams |-> None]
  /\ verified = [e \in Exams |-> None]
  /\ attested = None

Begin(e, p) ==
  /\ begunWith[e] = None
  /\ begunWith' = [begunWith EXCEPT ![e] = p]
  /\ UNCHANGED <<seal, verified, attested>>

\* Every run of an examination seals its packet, or is cut off in writing the seal.
Seal(e) ==
  /\ begunWith[e] # None
  /\ \E s \in {begunWith[e], Torn} : seal' = [seal EXCEPT ![e] = s]
  /\ UNCHANGED <<begunWith, verified, attested>>

\* Verification comes after a seal was written.
Verify(e) ==
  /\ seal[e] # None /\ verified[e] = None
  /\ verified' = [verified EXCEPT ![e] = begunWith[e]]
  /\ UNCHANGED <<begunWith, seal, attested>>

\* Only a verified examination is attested, and nothing but its packet.
Attest(e) ==
  /\ verified[e] # None
  /\ LET p == verified[e] IN attested' = [packet |-> p, seal |-> p, artifacts |-> p]
  /\ UNCHANGED <<begunWith, seal, verified>>

\* The record may be destroyed while it is replaced.
Destroy ==
  /\ attested' = None
  /\ UNCHANGED <<begunWith, seal, verified>>

Next ==
  \/ \E e \in Exams, p \in Packets : Begin(e, p)
  \/ \E e \in Exams : Seal(e) \/ Verify(e) \/ Attest(e)
  \/ Destroy

Spec == Init /\ [][Next]_vars
=============================================================================
